----------------------------- MODULE Activation -----------------------------
(***************************************************************************)
(* The vendor's activation server (scripts/license_server.py): a registry  *)
(* of installations per licence, and requests served by a pool of threads, *)
(* each of which reads the registry and records itself in separate         *)
(* transactions.                                                           *)
(***************************************************************************)
EXTENDS Naturals, FiniteSets

CONSTANTS Devices, Seats    \* installations, and how many the licence allows

ASSUME ActivationAssumption == Seats \in Nat \ {0} /\ IsFiniteSet(Devices)

VARIABLES
    seated,   \* [status, devices] of one licence
    deciding,     \* per device: what its request has read, or NoRequest
    raced  \* ghost: a request was decided while another was open

acVars == <<seated, deciding, raced>>

NoRequest == [known |-> {"idle"}]

AcInit ==
    /\ seated = [status |-> "active", devices |-> {}]
    /\ deciding = [d \in Devices |-> NoRequest] /\ raced = FALSE

\* Fault: the seat that is being taken is not counted.
SeatsFullByOne(known) == Cardinality(known) > Seats

SeatsFull(known) == Cardinality(known) >= Seats

\* decide, up to the check: a withdrawn licence and a licence without a free
\* seat are answered; otherwise the device is about to be recorded.
LeaseAsked(d) ==
    /\ deciding[d] = NoRequest /\ seated.status = "active"
    /\ d \in seated.devices \/ ~SeatsFull(seated.devices)
    /\ deciding' = [deciding EXCEPT ![d] = [known |-> seated.devices]]
    /\ raced' = (raced \/ \E o \in Devices \ {d} : deciding[o] # NoRequest)
    /\ UNCHANGED seated

\* touch_device and the signed answer: requests are served by a thread pool.
LeaseGranted(d) ==
    /\ deciding[d] # NoRequest
    /\ seated' = [seated EXCEPT !.devices = @ \cup {d}]
    /\ deciding' = [deciding EXCEPT ![d] = NoRequest]
    /\ UNCHANGED raced

\* revoke, suspend, reinstate.
SetStatus(s) ==
    /\ seated.status # s /\ seated' = [seated EXCEPT !.status = s]
    /\ UNCHANGED <<deciding, raced>>

\* reset-devices.
ResetDevices ==
    /\ seated.devices # {} /\ seated' = [seated EXCEPT !.devices = {}]
    /\ UNCHANGED <<deciding, raced>>

AcNext ==
    \/ ResetDevices
    \/ \E d \in Devices : LeaseAsked(d) \/ LeaseGranted(d)
    \/ \E s \in {"active", "suspended", "revoked"} : SetStatus(s)

AcSpec == AcInit /\ [][AcNext]_acVars

-----------------------------------------------------------------------------
(* Properties                                                              *)

\* More installations than seats can be recorded only by requests that were
\* decided at the same time.
SeatsHoldWithoutOverlap == ~raced => Cardinality(seated.devices) <= Seats
=============================================================================
