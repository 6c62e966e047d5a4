------------------------------ MODULE AuditLog ------------------------------
(***************************************************************************)
(* The hash-chained journal of sentinel/core/audit.py and the recovery of  *)
(* its tail after a power loss.                                            *)
(*                                                                         *)
(* A digest is abstracted to a number no other record has; 0 is GENESIS.   *)
(* What a crash leaves of the line being written is what a disk can keep:  *)
(* nothing, a prefix, a prefix cut inside a UTF-8 character, the record    *)
(* without its newline, or all of it.                                      *)
(***************************************************************************)
EXTENDS Naturals, Sequences, FiniteSets, SequencesExt

CONSTANTS MaxLines,     \* bound on the lines of the file
          MaxDigests    \* bound on the digests handed out

ASSUME AuditAssumption == MaxLines \in Nat /\ MaxDigests \in Nat

VARIABLES
    journal,    \* the lines of the file
    newlineAtEnd, \* the last line ends in a newline
    unflushed,  \* records a failed flush left in the writer's buffer
    head,       \* _seq and _last_hash
    auditUp,    \* "down", "repaired" (the tail is cut, not yet recorded), "up"
    digests,    \* digests handed out
    acked,      \* ghost: the digests append returned
    dropped,    \* ghost: torn lines dropped by a repair
    accidents   \* ghost: the accidents the recovery does not cover

auditVars == <<journal, newlineAtEnd, unflushed, head, auditUp, digests, acked, dropped, accidents>>

Line(kind, s, p, h, r) == [kind |-> kind, seq |-> s, prev |-> p, hash |-> h, repair |-> r]
Genesis == [seq |-> 0, hash |-> 0]

AuditInit ==
    /\ journal = <<>> /\ newlineAtEnd = TRUE /\ unflushed = <<>> /\ head = Genesis
    /\ auditUp = "up" /\ digests = 0 /\ acked = {} /\ dropped = 0 /\ accidents = {}

\* A line written in append mode: glued to a last line that has no newline,
\* and two records on one line do not parse.
Written(lines, nl, line) ==
    IF nl \/ lines = <<>> THEN Append(lines, line)
    ELSE Append(Front(lines), [line EXCEPT !.kind = IF @ = "cut" THEN @ ELSE "glued"])

NewRecord(r) == Line("record", head.seq + 1, head.hash, digests + 1, r)

\* Fault: the sequence number is taken before the record is built.
AppendedTwiceCounted(r) ==
    /\ journal' = Written(journal, newlineAtEnd, [NewRecord(r) EXCEPT !.seq = @ + 1])
    /\ head' = [seq |-> head.seq + 2, hash |-> digests + 1]
    /\ newlineAtEnd' = TRUE /\ unflushed' = <<>> /\ digests' = digests + 1
    /\ acked' = acked \cup {digests + 1}

\* append: the digest, the write, the flush and the fsync under the lock, and
\* only then the head.  What a failed flush left behind goes out first.
Appended(r) ==
    /\ journal' = IF unflushed = <<>> THEN Written(journal, newlineAtEnd, NewRecord(r))
                  ELSE Append(Written(journal, newlineAtEnd, Head(unflushed)), NewRecord(r))
    /\ head' = [seq |-> head.seq + 1, hash |-> digests + 1]
    /\ newlineAtEnd' = TRUE /\ unflushed' = <<>> /\ digests' = digests + 1
    /\ acked' = acked \cup {digests + 1}

Room == digests < MaxDigests /\ Len(journal) + Len(unflushed) < MaxLines

AppendRecord ==
    /\ auditUp = "up" /\ Room
    /\ Appended(FALSE)
    /\ UNCHANGED <<auditUp, dropped, accidents>>

\* The disk is full: flush raises, the caller sees the append fail, the head
\* stays, and the record waits in the buffer.
AppendFails ==
    /\ auditUp = "up" /\ Room /\ unflushed = <<>>
    /\ unflushed' = <<NewRecord(FALSE)>> /\ digests' = digests + 1
    /\ accidents' = accidents \cup {"disk_full"}
    /\ UNCHANGED <<journal, newlineAtEnd, head, auditUp, acked, dropped>>

\* The power goes, inside an append or between two.
AuditCrash(left) ==
    /\ auditUp # "down" /\ (left # "nothing" => auditUp = "up" /\ Room)
    /\ auditUp' = "down" /\ head' = Genesis /\ unflushed' = <<>>
    /\ journal' = IF left = "nothing" THEN journal
                  ELSE Written(journal, newlineAtEnd,
                         IF left \in {"record", "no_newline"} THEN NewRecord(FALSE)
                         ELSE Line(left, 0, 0, 0, FALSE))
    /\ newlineAtEnd' = IF left = "nothing" THEN newlineAtEnd ELSE left = "record"
    /\ digests' = digests + (IF left = "nothing" THEN 0 ELSE 1)
    /\ accidents' = accidents
         \cup (IF left \in {"no_newline", "cut"} THEN {left} ELSE {})
         \cup (IF auditUp = "repaired" THEN {"repair_interrupted"} ELSE {})
    /\ UNCHANGED <<acked, dropped>>

Parses(line) == line.kind = "record"
TailOf(lines) == IF lines = <<>> THEN Genesis ELSE [seq |-> Last(lines).seq, hash |-> Last(lines).hash]

\* The file is read as strict UTF-8 before anything is tried.
Decodes == \A i \in DOMAIN journal : journal[i].kind # "cut"

\* _recover_tail when the last line parses: the file is left as it is.
RecoverTail ==
    /\ auditUp = "down" /\ Decodes
    /\ journal # <<>> => Parses(Last(journal))
    /\ head' = TailOf(journal) /\ auditUp' = "up"
    /\ UNCHANGED <<journal, newlineAtEnd, unflushed, digests, acked, dropped, accidents>>

\* Fault: the line that is looked at is the torn one itself.
RepairableLast == Len(journal) > 1 => Parses(Last(journal))

\* Damage before the last line is refused, never repaired.
Repairable == Len(journal) > 1 => Parses(journal[Len(journal) - 1])

\* Fault: the whole file is moved aside and a new chain begun.
TruncateAll == journal' = <<>> /\ head' = Genesis /\ newlineAtEnd' = TRUE

\* The torn line goes to a sidecar, the rest is written beside and replaced.
Truncate == journal' = Front(journal) /\ head' = TailOf(Front(journal)) /\ newlineAtEnd' = TRUE

TruncateTornTail ==
    /\ auditUp = "down" /\ Decodes
    /\ journal # <<>> /\ ~Parses(Last(journal)) /\ Repairable
    /\ Truncate
    /\ auditUp' = "repaired" /\ dropped' = dropped + 1
    /\ UNCHANGED <<unflushed, digests, acked, accidents>>

\* Fault: the log opens without a word about the repair.
RecordNoRepair == UNCHANGED <<journal, newlineAtEnd, unflushed, head, digests, acked>>

\* The repair is itself a record of the chain, appended by the constructor.
RecordRepair == Appended(TRUE)

OpenRepaired ==
    /\ auditUp = "repaired" /\ Room
    /\ RecordRepair
    /\ auditUp' = "up"
    /\ UNCHANGED <<dropped, accidents>>

AuditNext ==
    \/ AppendRecord \/ AppendFails \/ RecoverTail \/ TruncateTornTail \/ OpenRepaired
    \/ \E left \in {"nothing", "torn", "cut", "no_newline", "record"} : AuditCrash(left)

AuditSpec == AuditInit /\ [][AuditNext]_auditVars

-----------------------------------------------------------------------------
(* Properties                                                              *)

\* verify: no line that does not parse, no gap in the sequence, every record
\* linked to the one before it.
Verify ==
    \A i \in DOMAIN journal :
        /\ Parses(journal[i]) /\ journal[i].seq = i
        /\ journal[i].prev = IF i = 1 THEN 0 ELSE journal[i - 1].hash

InFile(h) == \E i \in DOMAIN journal : Parses(journal[i]) /\ journal[i].hash = h

\* However often the power fails, and wherever, an open journal verifies and
\* its head is its last record; a flush that failed, or a record cut exactly
\* before its newline, are the accidents that break the chain.
ChainVerifies ==
    (auditUp = "up" /\ accidents \subseteq {"repair_interrupted"})
        => Verify /\ head = TailOf(journal)

\* No record whose append returned is ever missing from the file.
AckedSurvives == (accidents \subseteq {"disk_full", "repair_interrupted"}) => \A h \in acked : InFile(h)

\* Every line a repair dropped is accounted for by a record of the chain,
\* unless the power failed again between the repair and its record.
RepairsOnRecord ==
    (auditUp = "up" /\ "repair_interrupted" \notin accidents /\ accidents \subseteq {"disk_full"})
        => Cardinality({i \in DOMAIN journal : journal[i].repair}) = dropped

\* A crash leaves a file the next start can open: the torn line is the last
\* one, and the line before it parses.
TornTailRecoverable ==
    (auditUp = "down" /\ accidents \subseteq {"disk_full", "repair_interrupted"})
        => Decodes /\ Repairable

=============================================================================
