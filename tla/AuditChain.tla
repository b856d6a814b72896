----------------------------- MODULE AuditChain -----------------------------
(***************************************************************************)
(* The audit log: a list of records in memory, each with the hash of the   *)
(* one before it, and a file with one line for each, written after.        *)
(*                                                                         *)
(* Lines are appended with buffered writes: a process that dies, or a disk *)
(* that fills, may leave a part of the line, and the next line then starts *)
(* behind that part.  A process that starts reads the file and gives up on *)
(* a line it cannot parse.  What the log is there to show, a file that was *)
(* edited behind its back, is an action of its own (Damage).               *)
(***************************************************************************)
EXTENDS Naturals, Sequences, SequencesExt

CONSTANTS
    Body,         \* what a record says: actor, action, object, before, after
    Genesis,      \* GENESIS_HASH
    Torn,         \* a line that is no record
    MaxRecords,   \* bound: records appended
    MaxDamages    \* bound: edits of the file

ASSUME AuditAssumption ==
    /\ MaxRecords \in Nat /\ MaxDamages \in Nat

VARIABLES
    up,         \* the process runs
    records,    \* AuditLog._records
    file,       \* the lines of audit.jsonl
    open,       \* the last of them lacks its newline
    \* observers and bounds, read by no guard of the program:
    written,    \* every record append has made
    failed,     \* a write of a line failed
    appends,    \* records appended so far
    damages     \* edits of the file so far

vars == <<up, records, file, open, written, failed, appends, damages>>

Digest(content) == <<"sha256", content>>   \* no two contents share one

Content(r) == [sequence |-> r.sequence, body |-> r.body,
               previous_hash |-> r.previous_hash]

Init ==
    /\ up = TRUE
    /\ records = <<>>
    /\ file = <<>>
    /\ open = FALSE
    /\ written = {}
    /\ failed = FALSE
    /\ appends = 0 /\ damages = 0

-----------------------------------------------------------------------------
HashBehind(rs) == IF Len(rs) < 2 THEN Genesis ELSE rs[Len(rs) - 1].record_hash
    \* mutant: the hash of the record before the last one
HeadHash(rs) == IF rs = <<>> THEN Genesis ELSE Last(rs).record_hash

NextSequence(rs) == Len(rs)

Appended(rs, body) ==
    LET draft == [sequence |-> NextSequence(rs), body |-> body,
                  previous_hash |-> HeadHash(rs)]
    IN  Append(rs, [sequence |-> draft.sequence, body |-> draft.body,
                    previous_hash |-> draft.previous_hash,
                    record_hash |-> Digest(draft)])

\* A line goes to the end of the file, or behind an unfinished one.
Extended(line) ==
    IF open THEN [file EXCEPT ![Len(file)] = Torn] ELSE Append(file, line)
Write(line) == file' = Extended(line) /\ open' = FALSE
\* All of it may be there but the newline, a part, or nothing.
WriteFails(line) ==
    /\ failed' = TRUE
    /\ \/ file' \in {Extended(line), Extended(Torn)} /\ open' = TRUE
       \/ UNCHANGED <<file, open>>

\* append, with or without a failure of the file write.
AppendRecord ==
    /\ up
    /\ appends < MaxRecords /\ appends' = appends + 1
    /\ \E body \in Body : LET longer == Appended(records, body) IN
         /\ records' = longer
         /\ written' = written \cup {Last(longer)}
         /\ \/ Write(Last(longer)) /\ UNCHANGED failed
            \/ WriteFails(Last(longer))
    /\ UNCHANGED <<up, damages>>

\* The process dies, in the middle of an append or not.
Die ==
    /\ up
    /\ up' = FALSE
    /\ records' = <<>>
    /\ \/ UNCHANGED <<file, open, written, failed, appends>>
       \/ /\ appends < MaxRecords /\ appends' = appends + 1
          /\ \E body \in Body : LET r == Last(Appended(records, body)) IN
               written' = written \cup {r} /\ WriteFails(r)
    /\ UNCHANGED damages

LoadBackwards(lines) == Reverse(lines)   \* mutant: the newest line comes first
Load(lines) == lines

\* The constructor reads the file; a line that is no record raises.
Start ==
    /\ ~up
    /\ Torn \notin Range(file)
    /\ up' = TRUE
    /\ records' = Load(file)
    /\ UNCHANGED <<file, open, written, failed, appends, damages>>

\* Somebody removes a line of the file, changes what one says, or changes
\* their order; nobody rewrites the hashes of what follows.
Damage ==
    /\ damages < MaxDamages
    /\ \/ \E i \in DOMAIN file : file' = RemoveAt(file, i)
       \/ \E i \in DOMAIN file, body \in Body :
            /\ file[i] # Torn /\ file[i].body # body
            /\ file' = [file EXCEPT ![i].body = body]
       \/ \E i, j \in DOMAIN file :
            i < j /\ file' = [file EXCEPT ![i] = file[j], ![j] = file[i]]
    /\ open' = FALSE
    /\ damages' = damages + 1
    /\ UNCHANGED <<up, records, written, failed, appends>>

Next == AppendRecord \/ Die \/ Start \/ Damage

Spec == Init /\ [][Next]_vars

-----------------------------------------------------------------------------
\* verify: silence, or TamperDetected.
Expected(rs, i) == IF i = 1 THEN Genesis ELSE rs[i - 1].record_hash

VerifiesLinks(rs) ==   \* mutant: what a record says is not hashed again
    \A i \in DOMAIN rs : /\ rs[i].sequence = i - 1
                         /\ rs[i].previous_hash = Expected(rs, i)
Verifies(rs) ==
    \A i \in DOMAIN rs : /\ rs[i].sequence = i - 1
                         /\ rs[i].previous_hash = Expected(rs, i)
                         /\ rs[i].record_hash = Digest(Content(rs[i]))

-----------------------------------------------------------------------------
(***************************************************************************)
(* Properties.                                                             *)
(***************************************************************************)

\* Lines are records or torn, in memory there are records alone, and sequence
\* numbers count from zero.  What a hash is made of is left open.
IsRecord(r) ==
    /\ DOMAIN r = {"sequence", "body", "previous_hash", "record_hash"}
    /\ r.sequence \in 0..MaxRecords - 1
    /\ r.body \in Body
TypeOK ==
    /\ {up, open, failed} \subseteq BOOLEAN
    /\ open => file # <<>>
    /\ appends \in 0..MaxRecords /\ damages \in 0..MaxDamages
    /\ Len(records) <= MaxRecords /\ Len(file) <= MaxRecords
    /\ \A r \in Range(records) \cup written : IsRecord(r)
    /\ \A r \in Range(file) : r = Torn \/ IsRecord(r)

\* A log whose file nobody edited and no write of which failed verifies, and
\* is what the file holds: over any number of restarts, no false alarm and
\* nothing lost.
UndamagedLogVerifies ==
    up /\ damages = 0 /\ ~failed => Verifies(records) /\ file = records

\* Whatever was done to the file, and however the log went on after it, a log
\* that verifies has only records that append has made, as it made them, each
\* at the place and behind the record it was made for.
VerifiedLogIsGenuine ==
    up /\ Verifies(records) =>
        \A i \in DOMAIN records : records[i] \in written

\* AuditLog: "Deleting or editing a record breaks the chain".  A log that
\* verifies, and whose writes succeeded, ends where it ended.
DeletionIsFound ==
    up /\ Verifies(records) /\ ~failed =>
        ~ \E r \in written : /\ r.sequence = Len(records)
                             /\ r.previous_hash = HeadHash(records)

\* Workspace.__init__: "both the chain and the run checkpoints survive."  A
\* control plane that died can read its log again, if nobody edited it.
LogCanBeReadAgain == damages = 0 => Torn \notin Range(file)
=============================================================================
