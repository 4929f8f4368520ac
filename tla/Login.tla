-------------------------------- MODULE Login --------------------------------
(***************************************************************************)
(* Browser logins of internal/provider/login.go, with the auth record that *)
(* auth.go builds from the polled token.  StartLogin registers a session,  *)
(* the user approves it at Cursor, and the host polls; polls of one login  *)
(* may overlap, and loginMu is released while Cursor is asked.  On success *)
(* the host stores the record under the file name the plugin chose.        *)
(*                                                                         *)
(* A token is represented by the account it belongs to.  An account's JWT  *)
(* carries a subject and an email address, or the token is an opaque API   *)
(* key and carries neither.                                                *)
(***************************************************************************)
EXTENDS Naturals

CONSTANTS
    Logins,     \* login states (random UUIDs)
    Polls,      \* concurrent polls
    Accounts,   \* Cursor accounts a user may approve a login for
    Subject,    \* account -> the "sub" claim, or NoClaim
    Email,      \* account -> the email claim, or NoClaim
    Labels,     \* labels a login may be given, NoClaim for none
    Lifetime,   \* how long a login is valid (5 minutes)
    MaxTime,    \* model bound on the clock
    NoClaim, NoAccount

ASSUME LoginAssumption ==
    /\ Logins # {}
    /\ Lifetime \in Nat \ {0} /\ MaxTime \in Nat
    /\ NoAccount \notin Accounts
    /\ DOMAIN Subject = Accounts /\ DOMAIN Email = Accounts

VARIABLES
    now,        \* the clock
    logins,     \* login -> its session, or NoSession
    issued,     \* logins ever started
    approved,   \* login -> the account the user approved it for, at Cursor
    poll,       \* poll -> where it is and its locals
    ended,      \* logins for which success or expiry has been answered
    files       \* the host's auth files: name -> the account stored in it

loginVars == <<now, logins, issued, approved, poll, ended, files>>

NoSession == [expiresAt |-> 0, label |-> NoClaim]
Idle      == [at |-> "idle", login |-> CHOOSE l \in Logins : TRUE, session |-> NoSession,
              since |-> 0, account |-> NoAccount]

-----------------------------------------------------------------------------
(* PollLogin's label: the one given at the start, the token's email        *)
(* address, or a fixed text.                                               *)
LabelOf(session, a) ==
    IF session.label # NoClaim THEN session.label
    ELSE IF Email[a] # NoClaim THEN Email[a] ELSE "Cursor account"

(* Mutated form: the label is enough. *)
AuthIDByLabel(label, a) == label

(* stableAuthID: the subject of the token, or else the label; hashed.      *)
StableAuthID(label, a) ==
    IF Subject[a] # NoClaim THEN Subject[a] ELSE label

(* authData of the new account: its record's ID names the file. *)
FileName(session, a) == StableAuthID(LabelOf(session, a), a)

Labelings == Labels \cup {Email[a] : a \in Accounts} \cup {"Cursor account"}
FileNames == Labelings \cup {Subject[a] : a \in Accounts}

Init ==
    /\ now = 0
    /\ logins = [l \in Logins |-> NoSession]
    /\ issued = {} /\ ended = {}
    /\ approved = [l \in Logins |-> NoAccount]
    /\ poll = [p \in Polls |-> Idle]
    /\ files = [name \in FileNames |-> NoAccount]

StartLogin(l, label) ==
    /\ l \notin issued
    /\ issued' = issued \cup {l}
    /\ logins' = [logins EXCEPT ![l] = [expiresAt |-> now + Lifetime, label |-> label]]
    /\ UNCHANGED <<now, approved, poll, ended, files>>

(* The user signs in at Cursor with one of their accounts. *)
Approve(l, a) ==
    /\ l \in issued /\ approved[l] = NoAccount
    /\ approved' = [approved EXCEPT ![l] = a]
    /\ UNCHANGED <<now, logins, issued, poll, ended, files>>

(* PollLogin reads the session under the lock; an unknown state is         *)
(* answered at once.                                                       *)
PollStarts(p, l) ==
    /\ poll[p].at = "idle"
    /\ logins[l] # NoSession
    /\ poll' = [poll EXCEPT ![p] = [at |-> "checking", login |-> l, session |-> logins[l],
                                    since |-> now, account |-> NoAccount]]
    /\ UNCHANGED <<now, logins, issued, approved, ended, files>>

(* The clock is read after the lock is released. *)
PollExpired(p) ==
    /\ poll[p].at = "checking" /\ now >= poll[p].session.expiresAt
    /\ logins' = [logins EXCEPT ![poll[p].login] = NoSession]
    /\ ended' = ended \cup {poll[p].login}
    /\ poll' = [poll EXCEPT ![p] = Idle]
    /\ UNCHANGED <<now, issued, approved, files>>

PollAsks(p) ==
    /\ poll[p].at = "checking" /\ now < poll[p].session.expiresAt
    /\ poll' = [poll EXCEPT ![p].at = "asking"]
    /\ UNCHANGED <<now, logins, issued, approved, ended, files>>

(* Cursor answers 404, 202, no token or an error: pending or failed, and   *)
(* the session stays.                                                      *)
PollPending(p) ==
    /\ poll[p].at = "asking"
    /\ poll' = [poll EXCEPT ![p] = Idle]
    /\ UNCHANGED <<now, logins, issued, approved, ended, files>>

(* Cursor hands out the token of the approved account. *)
PollApproved(p) ==
    /\ poll[p].at = "asking" /\ approved[poll[p].login] # NoAccount
    /\ poll' = [poll EXCEPT ![p].at = "finishing", ![p].account = approved[poll[p].login]]
    /\ UNCHANGED <<now, logins, issued, approved, ended, files>>

(* Mutated form: the session is kept after success. *)
PollSucceedsKeeping(p) ==
    /\ poll[p].at = "finishing"
    /\ ended' = ended \cup {poll[p].login}
    /\ files' = [files EXCEPT ![FileName(poll[p].session, poll[p].account)] = poll[p].account]
    /\ poll' = [poll EXCEPT ![p] = Idle]
    /\ UNCHANGED <<now, logins, issued, approved>>

(* The session is dropped and the record returned; the host stores it.     *)
PollSucceeds(p) ==
    /\ poll[p].at = "finishing"
    /\ logins' = [logins EXCEPT ![poll[p].login] = NoSession]
    /\ ended' = ended \cup {poll[p].login}
    /\ files' = [files EXCEPT ![FileName(poll[p].session, poll[p].account)] = poll[p].account]
    /\ poll' = [poll EXCEPT ![p] = Idle]
    /\ UNCHANGED <<now, issued, approved>>

(* Mutated form: the sessions are left nil. *)
ShutdownToNil ==
    /\ logins' = [l \in {} |-> NoSession]
    /\ UNCHANGED <<now, issued, approved, poll, ended, files>>

(* Shutdown clears the sessions; a poll in flight keeps its own. *)
Shutdown ==
    /\ logins' = [l \in Logins |-> NoSession]
    /\ UNCHANGED <<now, issued, approved, poll, ended, files>>

Tick ==
    /\ now < MaxTime
    /\ now' = now + 1
    /\ UNCHANGED <<logins, issued, approved, poll, ended, files>>

-----------------------------------------------------------------------------
PollStep(p) ==
    \/ \E l \in Logins : PollStarts(p, l)
    \/ PollExpired(p) \/ PollAsks(p) \/ PollPending(p) \/ PollApproved(p) \/ PollSucceeds(p)

Next ==
    \/ \E l \in Logins, label \in Labels : StartLogin(l, label)
    \/ \E l \in Logins, a \in Accounts : Approve(l, a)
    \/ \E p \in Polls : PollStep(p)
    \/ Shutdown
    \/ Tick

Spec == Init /\ [][Next]_loginVars

-----------------------------------------------------------------------------
SessionType == [expiresAt : Nat, label : Labels \cup {NoClaim}]

(* Type invariant. *)
TypeOK ==
    /\ now \in Nat
    /\ logins \in [Logins -> SessionType]
    /\ issued \subseteq Logins /\ ended \subseteq issued
    /\ approved \in [Logins -> Accounts \cup {NoAccount}]
    /\ poll \in [Polls -> [at : {"idle", "checking", "asking", "finishing"}, login : Logins,
                           session : SessionType, since : Nat,
                           account : Accounts \cup {NoAccount}]]
    /\ files \in [FileNames -> Accounts \cup {NoAccount}]

(* A login ends once, and in time: after success or expiry overlaps of     *)
(* polls in flight never bring its session back, so that every later poll  *)
(* is told that the state is unknown; a poll that arrives after the expiry *)
(* cannot succeed, and one already in flight succeeds only with the        *)
(* account that was approved.                                              *)
LoginsEndForGood ==
    /\ \A l \in ended : logins[l] = NoSession
    /\ \A p \in Polls : poll[p].at = "finishing" =>
          /\ poll[p].since < poll[p].session.expiresAt
          /\ approved[poll[p].login] = poll[p].account

(* deploy-linux.md: "The plugin writes separate `0600` auth JSON files":   *)
(* a login never replaces the file of another account.                     *)
SeparateAuthFiles ==
    [][\A name \in FileNames : files[name] \in {NoAccount, files'[name]}]_loginVars

(* An account that signs in again, under whatever label, gets the file it  *)
(* already has, so that no account is registered twice.                    *)
OneFilePerAccount ==
    \A n1, n2 \in FileNames : files[n1] = files[n2] /\ n1 # n2 => files[n1] = NoAccount

=============================================================================
