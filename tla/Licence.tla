------------------------------ MODULE Licence -------------------------------
(***************************************************************************)
(* The licence gate of one installation (sentinel/licensing): verification *)
(* of the installed file, the record of times already seen (clock_guard),  *)
(* the activation lease (activation) and the cached verdict that decides   *)
(* whether a live position may be opened (enforcement, and the agent's     *)
(* entry_permission).                                                      *)
(*                                                                         *)
(* The machine's clock may be wrong: it moves with real time and may jump. *)
(* Signatures are abstract: a licence of Licences is genuine.              *)
(***************************************************************************)
EXTENDS Integers, FiniteSets, FiniteSetsExt

CONSTANTS
    Licences,       \* genuine licences: [id, issued, expires, machine, live, lease]
    Grace,          \* days a licence works past its expiry
    ClockSlack,     \* tolerated step back of the clock
    IssueSlack,     \* tolerated future dating of a licence
    RecheckAfter,   \* life of a cached verdict, in real time
    LeaseLife,      \* what the server grants
    LeaseEvery,     \* how often the client asks again
    LcHorizon,      \* bound on both clocks
    MaxJumps        \* bound on the times the clock is set

ASSUME LicenceAssumption ==
    /\ {Grace, ClockSlack, IssueSlack, RecheckAfter, LeaseLife, LeaseEvery, LcHorizon, MaxJumps} \subseteq Nat
    /\ \A l \in Licences : /\ {l.issued, l.expires} \subseteq Nat /\ {l.live, l.lease} \subseteq BOOLEAN
                           /\ l.id # "none" /\ l.machine # "none"
    /\ \A k, l \in Licences : k.id = l.id => k = l

VARIABLES
    real,       \* real time: the activation server's clock
    wall,       \* this machine's clock
    matching,   \* fingerprint components that still match the binding
    installed,  \* the licence file, or NoLicence
    timing,     \* licence-timing.json, or NoRecord
    boundTo,    \* the map the guard's key is derived from, in memory
    lease,      \* licence-lease.json, or NoLease
    vendor,     \* what the vendor's registry says of each licence
    status,     \* the gate's cached verdict, or NoStatus
    age,        \* its age in real time, up to RecheckAfter
    allowed,    \* this step was asked for a live position and allowed it
    past        \* ghost: what the record in force has seen expire, under which
                \* machine map; the server's last word; clock settings

lcVars == <<real, wall, matching, installed, timing, boundTo, lease, vendor, status, age, allowed, past>>

NoLicence == [id |-> "none"]
NoRecord  == [key |-> "none"]
NoLease   == [licence |-> "none"]
NoStatus  == [valid |-> FALSE, licence |-> "unknown"]
Ids       == {l.id : l \in Licences}
Unbound   == "unbound"    \* the key before a licence has been read
Empty     == [key |-> "none", high |-> 0, expired |-> {}]

LcInit ==
    /\ real = 1 /\ wall = 1 /\ matching = 5
    /\ installed \in {l \in Licences : l.issued <= 1} /\ timing = NoRecord /\ boundTo = Unbound
    /\ lease = NoLease /\ vendor = [i \in Ids |-> "active"]
    /\ status = NoStatus /\ age = RecheckAfter /\ allowed = FALSE
    /\ past = [expired |-> {}, under |-> "none", word |-> [i \in Ids |-> "none"], jumps |-> 0]

-----------------------------------------------------------------------------
(* Verification of the file                                                *)

\* fingerprint_matches: three of the five bound components suffice.
MachineMatches == matching >= 3

\* Past the expiry and the grace.
PastDeadline(l) == wall > l.expires + Grace

\* Fault: what the guard is told of a licence that does not verify.
PeekedExpiredNoGrace(l) == wall > l.expires

\* The same question asked of the unverified file, for the guard.
PeekedExpired(l) == PastDeadline(l)

\* verify: dated in the future, expired, another machine, or fine.
Verified(l) ==
    CASE l.issued > wall + IssueSlack -> "invalid"
      [] l.issued <= wall + IssueSlack /\ PastDeadline(l) -> "expired"
      [] l.issued <= wall + IssueSlack /\ ~PastDeadline(l) /\ ~MachineMatches -> "mismatch"
      [] OTHER -> "ok"

-----------------------------------------------------------------------------
(* The timing record                                                       *)

\* rekey: the map inside the licence.
KeyOf(l) == l.machine

\* _read: a record that is missing or was written under another key is empty.
ReadRecord(key) == IF timing.key = key THEN timing ELSE Empty

GuardOk(record, id) ==
    /\ record.high > 0 => record.high - wall <= ClockSlack
    /\ id \notin record.expired

\* Fault: the observation of an expiry is not kept.
RecordedTimeOnly(record, key, id, expired) ==
    [key |-> key, high |-> Max({record.high, wall}), expired |-> record.expired]

\* The high-water mark advances, and an expiry is remembered by id.
Recorded(record, key, id, expired) ==
    [key |-> key, high |-> Max({record.high, wall}),
     expired |-> record.expired \cup (IF expired /\ id # "none" THEN {id} ELSE {})]

-----------------------------------------------------------------------------
(* The lease                                                               *)

\* A cached lease of this licence and machine, not dated ahead, not expired.
Usable(le, l) ==
    /\ le # NoLease
    /\ le.licence = l.id /\ le.device = matching
    /\ le.issued <= wall /\ wall < le.expires

Due(l) == ~Usable(lease, l) \/ wall - lease.issued >= LeaseEvery

\* What the server signs: 24 hours for a withdrawn licence, one unit here.
Granted(l) ==
    [licence |-> l.id, device |-> matching, status |-> vendor[l.id], issued |-> real,
     expires |-> real + (IF vendor[l.id] = "active" THEN LeaseLife ELSE 1)]

\* Fault: a refusal does not replace a lease that is still running.
LeaseAfterKeepingActive(l, answered) ==
    IF Due(l) /\ answered /\ Usable(Granted(l), l) /\ (vendor[l.id] = "active" \/ ~Usable(lease, l))
    THEN Granted(l) ELSE lease

\* status(): a due refresh is asked for; an answer that verifies replaces the
\* cached lease, a lost or refused one leaves it.
LeaseAfter(l, answered) ==
    IF Due(l) /\ answered /\ Usable(Granted(l), l) THEN Granted(l) ELSE lease

LeaseOk(le, l) == ~l.lease \/ (Usable(le, l) /\ le.status = "active")

-----------------------------------------------------------------------------
(* The gate                                                                *)

\* What evaluating the gate does: writable: the record can be written;
\* answered: the server answers; intact: the protected files verify.
Evaluated(l, writable, answered, intact) ==
    LET present == l # NoLicence
        key     == IF present THEN KeyOf(l) ELSE boundTo
        record  == ReadRecord(key)
        outcome == IF present THEN Verified(l) ELSE "absent"
        expired == present /\ (outcome = "expired" \/ PeekedExpired(l))
        after   == IF outcome = "ok" /\ l.lease THEN LeaseAfter(l, answered) ELSE lease
        map     == IF present THEN l.machine ELSE boundTo
        said    == outcome = "ok" /\ l.lease /\ Due(l) /\ answered /\ Usable(Granted(l), l)
    IN
    /\ boundTo' = key
    /\ timing' = IF writable THEN Recorded(record, key, l.id, expired) ELSE timing
    /\ lease' = after
    /\ status' = [licence |-> l.id,
                  valid   |-> /\ outcome = "ok" /\ GuardOk(record, l.id)
                              /\ ~(l.lease /\ Usable(after, l) /\ after.status # "active"),
                  ready   |-> outcome = "ok" /\ l.live /\ LeaseOk(after, l) /\ intact]
    /\ age' = 0
    /\ past' = [past EXCEPT
                   !.expired = IF ~writable THEN @
                               ELSE (IF past.under = map THEN @ ELSE {}) \cup (IF present /\ wall > l.expires + Grace THEN {l.id} ELSE {}),
                   !.under   = IF writable THEN map ELSE @,
                   !.word    = IF said THEN [@ EXCEPT ![l.id] = vendor[l.id]] ELSE @]

\* Fault: the verdict of the start is kept.
VerdictIsKept == status # NoStatus

\* check(): a verdict younger than the recheck interval is reused.
VerdictIsFresh == status # NoStatus /\ age < RecheckAfter

\* may_trade_live, from the verdict.
Live(s) == s.valid /\ s.ready

\* entry_permission: asked by every cycle and every human entry path.
EntryPermission(writable, answered, intact) ==
    /\ \/ VerdictIsFresh /\ UNCHANGED <<boundTo, timing, lease, status, age, past>>
       \/ ~VerdictIsFresh /\ Evaluated(installed, writable, answered, intact)
    /\ allowed' = Live(status')
    /\ UNCHANGED <<real, wall, matching, installed, vendor>>

\* install_licence: verified before it replaces the file, then checked.
Install(l, writable, answered, intact) ==
    /\ l # installed /\ l.issued <= real /\ Verified(l) = "ok"
    /\ installed' = l /\ Evaluated(l, writable, answered, intact)
    /\ allowed' = FALSE
    /\ UNCHANGED <<real, wall, matching, vendor>>

-----------------------------------------------------------------------------
(* The surroundings                                                        *)

LcTick ==
    /\ real < LcHorizon /\ wall < LcHorizon
    /\ real' = real + 1 /\ wall' = wall + 1 /\ allowed' = FALSE
    /\ age' = Min({age + 1, RecheckAfter})
    /\ UNCHANGED <<matching, installed, timing, boundTo, lease, vendor, status, past>>

\* The machine's clock is set.
ClockSet(t) ==
    /\ past.jumps < MaxJumps /\ t # wall
    /\ wall' = t /\ allowed' = FALSE /\ past' = [past EXCEPT !.jumps = @ + 1]
    /\ UNCHANGED <<real, matching, installed, timing, boundTo, lease, vendor, status, age>>

\* Hardware or the host name changes.
HardwareChanges(n) ==
    /\ n # matching /\ matching' = n /\ allowed' = FALSE
    /\ UNCHANGED <<real, wall, installed, timing, boundTo, lease, vendor, status, age, past>>

\* The vendor withdraws or reinstates a licence.
VendorDecides(i, s) ==
    /\ vendor[i] # s /\ vendor' = [vendor EXCEPT ![i] = s] /\ allowed' = FALSE
    /\ UNCHANGED <<real, wall, matching, installed, timing, boundTo, lease, status, age, past>>

\* The file is moved away while a new one is awaited.
FileRemoved ==
    /\ installed # NoLicence /\ installed' = NoLicence /\ allowed' = FALSE
    /\ UNCHANGED <<real, wall, matching, timing, boundTo, lease, vendor, status, age, past>>

\* The record is lost with the state directory.
RecordIsLost ==
    /\ timing # NoRecord /\ timing' = NoRecord /\ allowed' = FALSE
    /\ past' = [past EXCEPT !.expired = {}, !.under = "none"]
    /\ UNCHANGED <<real, wall, matching, installed, boundTo, lease, vendor, status, age>>

\* A restart forgets the verdict and the key.
LcRestart ==
    /\ status # NoStatus /\ status' = NoStatus /\ age' = RecheckAfter /\ boundTo' = Unbound /\ allowed' = FALSE
    /\ UNCHANGED <<real, wall, matching, installed, timing, lease, vendor, past>>

LcNext ==
    \/ LcTick \/ FileRemoved \/ RecordIsLost \/ LcRestart
    \/ \E t \in 1 .. LcHorizon : ClockSet(t)
    \/ \E n \in {2, 3, 5} : HardwareChanges(n)
    \/ \E i \in {l.id : l \in {k \in Licences : k.lease}}, s \in {"active", "revoked"} : VendorDecides(i, s)
    \/ \E writable, answered, intact \in BOOLEAN : EntryPermission(writable, answered, intact)
    \/ \E l \in Licences, writable, answered, intact \in BOOLEAN : Install(l, writable, answered, intact)

LcSpec == LcInit /\ [][LcNext]_lcVars

-----------------------------------------------------------------------------
(* Properties                                                              *)

\* An expiry that has been observed stays observed: while the timing record
\* that saw it is in force, no setting of the clock and no change of hardware that the
\* licence tolerates lets the same licence open a live position again.
ExpiryIsRemembered == allowed => status.licence \notin past.expired

\* The record never condemns a licence that was not past its grace: an
\* entry there refuses the licence for ever.
GraceIsNotExpiry == timing # NoRecord => timing.expired \subseteq past.expired

\* With a clock nobody has set, a process that never restarts stops opening
\* live positions within one recheck interval of the deadline.
NoLiveLongAfterDeadline ==
    allowed /\ past.jumps = 0 =>
        \E l \in Licences : l.id = status.licence /\ real < l.expires + Grace + RecheckAfter + 1

\* The server's last word counts: after an answer that withdraws a licence no
\* live position is opened until an answer reinstates it, however many later
\* questions are lost.
WithdrawalHolds ==
    allowed /\ (\E l \in Licences : l.id = status.licence /\ l.lease) => past.word[status.licence] = "active"

\* The licence decides on live positions by what has been seen, not by what
\* the clock or a lost answer says (check, observe, ActivationClient.status).
LicenceIsEnforced ==
    /\ ExpiryIsRemembered
    /\ GraceIsNotExpiry
    /\ NoLiveLongAfterDeadline
    /\ WithdrawalHolds
=============================================================================
