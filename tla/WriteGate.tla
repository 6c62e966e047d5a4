----------------------------- MODULE WriteGate -----------------------------
(***************************************************************************)
(* The second factor of a write, the lockout and the rate limit            *)
(* (sentinel/api/security.py: login, authorise_write, verify_totp,         *)
(* consume_totp, check_rate, _record_failure, _locked_out,                 *)
(* _prune_tracking), for one account.                                      *)
(*                                                                         *)
(* Time counts in steps of the one-time code: the code of step s is        *)
(* accepted from CodeWindow steps before s to CodeWindow steps after it.   *)
(* A login is two steps: the password is verified with no lock held.       *)
(***************************************************************************)
EXTENDS Integers, FiniteSets, Sequences, SequencesExt

CONSTANTS
    CodeWindow,     \* valid_window
    ReplayTTL,      \* _TOTP_REPLAY_TTL_SEC
    MaxAttempts,    \* max_login_attempts
    LockoutSteps,   \* lockout_sec
    MaxFactor,      \* the cap of the backoff
    ForgetAfter,    \* the horizon of _prune_tracking
    RateWindow,     \* one minute
    WritesPerWindow,\* write_rate_per_minute
    WgHorizon       \* bound: steps of time

ASSUME WriteGateAssumption ==
    /\ {CodeWindow, ReplayTTL, LockoutSteps, MaxFactor, ForgetAfter, RateWindow,
        WritesPerWindow, WgHorizon} \subseteq Nat
    /\ MaxAttempts \in Nat \ {0}

VARIABLES
    step,       \* the clock
    usedCodes,  \* _used_totp: the time each remembered code was consumed
    failures,   \* _failures: times
    lockedTo,   \* _lockouts: the end of the lockout, 0 when there is none
    strikes,    \* _strikes
    writeTimes, \* _rate: times of the write attempts
    pending,    \* a login has read the account and is verifying the password
    open,       \* the account has a session
    passed,     \* ghost: how many writes each code has authorised
    lockLengths \* ghost: the lengths of the lockouts since the last forgiveness

wgVars == <<step, usedCodes, failures, lockedTo, strikes, writeTimes, pending, open, passed, lockLengths>>

Codes == 0 .. WgHorizon + CodeWindow

WgInit ==
    /\ step = 0 /\ usedCodes = <<>> /\ failures = <<>> /\ lockedTo = 0 /\ strikes = 0
    /\ writeTimes = <<>> /\ pending = FALSE /\ open = FALSE
    /\ passed = [c \in Codes |-> 0] /\ lockLengths = <<>>

Locked == step < lockedTo

\* _locked_out also drops a lockout that has run out.
LockSeen == IF Locked THEN lockedTo ELSE 0

-----------------------------------------------------------------------------
(* Failures                                                                *)

Least(a, b) == IF a <= b THEN a ELSE b

\* Fault: the exponent comes from the window of failures, cleared each time.
BackoffFlat(n) == 1

\* The factor of the n-th lockout.
Backoff(n) == Least(2 ^ (n - 1), MaxFactor)

\* _record_failure, when the lockout in force is lock.
RecordFailure(lock) ==
    LET recent == Append(SelectSeq(failures, LAMBDA t : step - t < LockoutSteps), step)
    IN  IF Len(recent) >= MaxAttempts
        THEN /\ strikes' = strikes + 1 /\ failures' = <<>>
             /\ lockedTo' = step + LockoutSteps * Backoff(strikes + 1)
             /\ lockLengths' = Append(lockLengths, LockoutSteps * Backoff(strikes + 1))
        ELSE failures' = recent /\ lockedTo' = lock /\ UNCHANGED <<strikes, lockLengths>>

\* Fault: the replay memory is cleared whole.
RememberedNone == <<>>

\* _prune_tracking: consumed codes age out one by one.
Remembered ==
    LET keep == {c \in DOMAIN usedCodes : usedCodes[c] >= step - ReplayTTL}
    IN  [c \in keep |-> usedCodes[c]]

-----------------------------------------------------------------------------
(* Login: pruning and the lockout test, then the password, then the session *)

Forgiven == lockedTo # 0 /\ step > lockedTo + ForgetAfter

LoginStart ==
    /\ ~pending
    /\ usedCodes' = Remembered
    /\ IF Forgiven THEN strikes' = 0 /\ lockedTo' = 0 /\ lockLengths' = <<>>
                   ELSE lockedTo' = LockSeen /\ UNCHANGED <<strikes, lockLengths>>
    /\ pending' = (Forgiven \/ ~Locked)
    /\ UNCHANGED <<step, failures, writeTimes, open, passed>>

LoginFinish(correct) ==
    /\ pending /\ pending' = FALSE
    /\ IF correct THEN open' = TRUE /\ failures' = <<>> /\ UNCHANGED <<lockedTo, strikes, lockLengths>>
                  ELSE RecordFailure(lockedTo) /\ UNCHANGED open
    /\ UNCHANGED <<step, usedCodes, writeTimes, passed>>

-----------------------------------------------------------------------------
(* A write: the rate, the lockout, the code, and only then its consumption *)

InRate == SelectSeq(writeTimes, LAMBDA t : step - t < RateWindow)

\* Fault: a lockout is only applied at the door.
LockoutReachesNone == FALSE

\* An armed lockout reaches a session that is already open.
LockoutReaches == Locked

Accepted2FA(c) == c - CodeWindow <= step /\ step <= c + CodeWindow /\ c \notin DOMAIN usedCodes

WriteRateLimited ==
    /\ open /\ Len(InRate) >= WritesPerWindow /\ writeTimes' = InRate
    /\ UNCHANGED <<step, usedCodes, failures, lockedTo, strikes, pending, open, passed, lockLengths>>

WriteLockedOut ==
    /\ open /\ Len(InRate) < WritesPerWindow /\ LockoutReaches
    /\ writeTimes' = Append(InRate, step)
    /\ UNCHANGED <<step, usedCodes, failures, lockedTo, strikes, pending, open, passed, lockLengths>>

\* A wrong, late or repeated code counts towards the lockout; once it arms,
\* the account's sessions are dropped.
WriteRefused ==
    /\ open /\ Len(InRate) < WritesPerWindow /\ ~LockoutReaches
    /\ writeTimes' = Append(InRate, step)
    /\ RecordFailure(LockSeen) /\ open' = ~(step < lockedTo')
    /\ UNCHANGED <<step, usedCodes, pending, passed>>

WritePasses(c) ==
    /\ open /\ Len(InRate) < WritesPerWindow /\ ~LockoutReaches /\ Accepted2FA(c)
    /\ writeTimes' = Append(InRate, step) /\ lockedTo' = LockSeen
    /\ usedCodes' = [d \in DOMAIN usedCodes \cup {c} |-> IF d = c THEN step ELSE usedCodes[d]]
    /\ passed' = [passed EXCEPT ![c] = @ + 1]
    /\ UNCHANGED <<step, failures, strikes, pending, open, lockLengths>>

\* The session expires or is closed.
SessionEnds ==
    /\ open /\ open' = FALSE
    /\ UNCHANGED <<step, usedCodes, failures, lockedTo, strikes, writeTimes, pending, passed, lockLengths>>

WgTick ==
    /\ step < WgHorizon /\ step' = step + 1
    /\ UNCHANGED <<usedCodes, failures, lockedTo, strikes, writeTimes, pending, open, passed, lockLengths>>

WgNext ==
    \/ LoginStart \/ WriteRateLimited \/ WriteLockedOut \/ WriteRefused \/ SessionEnds \/ WgTick
    \/ \E correct \in BOOLEAN : LoginFinish(correct)
    \/ \E c \in Codes : WritePasses(c)

WgSpec == WgInit /\ [][WgNext]_wgVars

-----------------------------------------------------------------------------
(* Properties                                                              *)

\* A code authorises one write: the memory of used codes outlives the time
\* a code is accepted, and pruning it at a login never reopens one.
CodeAuthorisesOnce == \A c \in Codes : passed[c] <= 1

\* While the account is locked no write passes, not even through a session
\* whose login was already past the lockout test when the lockout armed.
NoWriteWhileLocked == (\E c \in Codes : passed'[c] > passed[c]) => ~Locked

\* Repeated lockouts are never shorter than the one before, up to the cap,
\* until the account has been left alone long enough to be forgiven.
LockoutsLengthen ==
    \A i \in 1 .. Len(lockLengths) - 1 :
        lockLengths[i + 1] >= Least(2 * lockLengths[i], LockoutSteps * MaxFactor)
=============================================================================
