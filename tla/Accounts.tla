------------------------------ MODULE Accounts ------------------------------
(***************************************************************************)
(* Accounts, sessions and authority (sentinel/api/security.py, the session *)
(* and write dependencies of api/main.py, scripts/manage_users.py).        *)
(*                                                                         *)
(* The store is shared with the command-line tool, so the server's cache   *)
(* may be behind it. Roles and flags change under one administration lock; *)
(* a password reset and a rotation of the second factor do not take it:    *)
(* they read an account, work, and write the whole account back.           *)
(***************************************************************************)
EXTENDS Naturals, FiniteSets

CONSTANTS
    Users, FirstOwner,
    GivenRoles      \* the roles administration gives out

ASSUME AccountsAssumption ==
    FirstOwner \in Users /\ GivenRoles \subseteq {"viewer", "operator", "owner"}

VARIABLES
    stored,     \* users.db: [role, off] of each account, or Gone
    cached,     \* the server's copy
    editing,    \* what a password or factor change has read: [user, rec], or NoEdit
    signing,    \* what a login in progress has read: [user, off], or NoEdit
    sessions,   \* accounts with a session
    streams,    \* accounts with an open live stream
    act,        \* the last step: authority used on a read of the store, or NoAct
    overwritten \* ghost: an edit wrote back an account that had changed

accVars == <<stored, cached, editing, signing, sessions, streams, act, overwritten>>

Gone   == [role |-> "none", off |-> TRUE]
NoEdit == [user |-> "none"]
NoAct  == [kind |-> "none"]

Used(kind, u, readable) == IF readable THEN [kind |-> kind, user |-> u] ELSE NoAct

CanWrite(rec)      == rec.role \in {"operator", "owner"} /\ ~rec.off
CanChangeRisk(rec) == rec.role = "owner" /\ ~rec.off

AccInit ==
    /\ stored = [u \in Users |-> IF u = FirstOwner THEN [role |-> "owner", off |-> FALSE] ELSE Gone]
    /\ cached = stored /\ editing = NoEdit /\ signing = NoEdit
    /\ sessions = {} /\ streams = {} /\ act = NoAct /\ overwritten = FALSE

-----------------------------------------------------------------------------
(* Reading an account                                                      *)

\* _reload_user: the store's account; a failed read falls back on the copy.
Reloaded(u, readable) == IF readable THEN stored[u] ELSE cached[u]

Refresh(u, readable) == cached' = [cached EXCEPT ![u] = Reloaded(u, readable)]

-----------------------------------------------------------------------------
(* Sessions                                                                *)

\* login: the account is read under the lock, the password is verified
\* outside it, and the session is opened for what was read.
LoginBegins(u, readable) ==
    /\ signing = NoEdit /\ Refresh(u, readable)
    /\ signing' = [user |-> u, off |-> Reloaded(u, readable).off]
    /\ act' = NoAct /\ UNCHANGED <<stored, editing, sessions, streams, overwritten>>

LoginEnds(correct) ==
    /\ signing # NoEdit /\ signing' = NoEdit
    /\ sessions' = IF correct /\ ~signing.off THEN sessions \cup {signing.user} ELSE sessions
    /\ act' = NoAct /\ UNCHANGED <<stored, cached, editing, streams, overwritten>>

\* verify_token: an account that is gone or disabled loses the session.
TokenValid(u, readable) == u \in sessions /\ ~Reloaded(u, readable).off

TokenRefused(u, readable) ==
    /\ u \in sessions /\ Reloaded(u, readable).off
    /\ Refresh(u, readable) /\ sessions' = sessions \ {u} /\ streams' = streams \ {u}
    /\ act' = NoAct /\ UNCHANGED <<stored, editing, signing, overwritten>>

Logout(u) ==
    /\ u \in sessions /\ sessions' = sessions \ {u} /\ act' = NoAct
    /\ UNCHANGED <<stored, cached, editing, signing, streams, overwritten>>

\* current_session and require_write run on the event loop: one step.
AuthoriseWrite(u, ownerOnly, readable) ==
    /\ TokenValid(u, readable)
    /\ CanWrite(Reloaded(u, readable)) /\ (ownerOnly => CanChangeRisk(Reloaded(u, readable)))
    /\ Refresh(u, readable)
    /\ act' = Used(IF ownerOnly THEN "owner" ELSE "write", u, readable)
    /\ UNCHANGED <<stored, editing, signing, sessions, streams, overwritten>>

\* The live stream: opened with a session, which is checked at every send.
OpenStream(u, readable) ==
    /\ u \notin streams /\ TokenValid(u, readable) /\ Refresh(u, readable)
    /\ streams' = streams \cup {u} /\ act' = NoAct
    /\ UNCHANGED <<stored, editing, signing, sessions, overwritten>>

\* Fault: the stream is authorised once, at the handshake.
StillAuthorisedOnce(u, readable) == TRUE

StillAuthorised(u, readable) == TokenValid(u, readable)

StreamSend(u, readable) ==
    /\ u \in streams /\ Refresh(u, readable)
    /\ IF StillAuthorised(u, readable)
       THEN act' = Used("stream", u, readable) /\ UNCHANGED streams
       ELSE act' = NoAct /\ streams' = streams \ {u}
    /\ UNCHANGED <<stored, editing, signing, sessions, overwritten>>

-----------------------------------------------------------------------------
(* Administration, under the administration lock                           *)

\* Fault: owners are counted in the server's copy.
OtherOwnersCached(u) == {o \in Users \ {u} : CanChangeRisk(cached[o])}

\* _last_owner_problem_locked: the other enabled owners, from the store.
OtherOwners(u) == {o \in Users \ {u} : CanChangeRisk(stored[o])}

\* No change may leave nobody who can administer.
Leaves(u, rec) == CanChangeRisk(stored[u]) /\ ~CanChangeRisk(rec) => OtherOwners(u) # {}

\* set_role, set_disabled, delete_user and add_user; the server's copy is
\* reloaded whole. A disabled or deleted account loses its sessions.
Administer(u, rec) ==
    /\ rec # stored[u] /\ Leaves(u, rec)
    /\ stored' = [stored EXCEPT ![u] = rec] /\ cached' = stored'
    /\ sessions' = IF rec.off THEN sessions \ {u} ELSE sessions
    /\ act' = NoAct /\ UNCHANGED <<editing, signing, streams, overwritten>>

\* The same from the command line: another process, whose sessions are none.
CliAdminister(u, rec) ==
    /\ rec # stored[u] /\ stored[u] # Gone /\ rec # Gone /\ Leaves(u, rec)
    /\ stored' = [stored EXCEPT ![u] = rec]
    /\ act' = NoAct /\ UNCHANGED <<cached, editing, signing, sessions, streams, overwritten>>

\* set_password and rotate_totp: read the copy, hash, write the account back.
EditBegins(u) ==
    /\ editing = NoEdit /\ cached[u] # Gone
    /\ editing' = [user |-> u, rec |-> cached[u]]
    /\ act' = NoAct /\ UNCHANGED <<stored, cached, signing, sessions, streams, overwritten>>

EditEnds(written) ==
    /\ editing # NoEdit /\ editing' = NoEdit
    /\ IF written
       THEN /\ stored' = [stored EXCEPT ![editing.user] = editing.rec]
            /\ cached' = [cached EXCEPT ![editing.user] = editing.rec]
            /\ overwritten' = (overwritten \/ stored[editing.user] # editing.rec)
       ELSE UNCHANGED <<stored, cached, overwritten>>
    /\ act' = NoAct /\ UNCHANGED <<signing, sessions, streams>>

\* A restart of the server: sessions are in memory, accounts are loaded.
AccRestart ==
    /\ cached' = stored /\ sessions' = {} /\ streams' = {} /\ act' = NoAct
    /\ editing' = NoEdit /\ signing' = NoEdit
    /\ UNCHANGED <<stored, overwritten>>

Records == [role : GivenRoles, off : BOOLEAN]

AccNext ==
    \/ AccRestart
    \/ \E done \in BOOLEAN : LoginEnds(done) \/ EditEnds(done)
    \/ \E u \in Users, readable \in BOOLEAN :
          \/ LoginBegins(u, readable) \/ TokenRefused(u, readable)
          \/ OpenStream(u, readable) \/ StreamSend(u, readable)
          \/ \E ownerOnly \in BOOLEAN : AuthoriseWrite(u, ownerOnly, readable)
    \/ \E u \in Users :
          \/ Logout(u) \/ EditBegins(u) \/ Administer(u, Gone)
          \/ \E rec \in Records : Administer(u, rec) \/ CliAdminister(u, rec)

AccSpec == AccInit /\ [][AccNext]_accVars

-----------------------------------------------------------------------------
(* Properties                                                              *)

\* Authority is the store's, at the moment it is used: a write passes and a
\* stream is sent only for an account that may, whatever the role was when
\* the session opened and whichever process changed it since, unless the
\* store could not be read.
AuthorityIsCurrent ==
    act # NoAct =>
        CASE act.kind = "owner"  -> CanChangeRisk(stored[act.user])
          [] act.kind = "write"  -> CanWrite(stored[act.user])
          [] act.kind = "stream" -> ~stored[act.user].off

\* Somebody can always administer the system; the one way to lose the last
\* owner is a password or factor change that wrote back an account that had
\* been changed meanwhile.
OwnerLostOnlyByOverwrite == overwritten \/ \E u \in Users : CanChangeRisk(stored[u])

-----------------------------------------------------------------------------
(* What the repository says of the program and the program does not do     *)

\* Somebody can always administer the system: what the last-owner guard and
\* the lock around it are for.
AnOwnerRemains == \E u \in Users : CanChangeRisk(stored[u])
=============================================================================
