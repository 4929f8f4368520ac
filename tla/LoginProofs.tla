------------------------------ MODULE LoginProofs -----------------------------
(***************************************************************************)
(* Browser logins, for any number of logins, overlapping polls, accounts   *)
(* and any lifetime: a login ends once, in time, and for the account that  *)
(* approved it.                                                            *)
(***************************************************************************)
EXTENDS Login, TLAPS

(* A poll read the clock after it began; once it has asked Cursor it began *)
(* in time, and once it has an answer the login's approval stands.         *)
PollOK(p) ==
    /\ poll[p].since <= now
    /\ poll[p].at # "idle" => poll[p].login \in issued
    /\ poll[p].at \in {"asking", "finishing"} => poll[p].since < poll[p].session.expiresAt
    /\ poll[p].at = "finishing" =>
          /\ poll[p].account # NoAccount
          /\ approved[poll[p].login] = poll[p].account

(* Only a login that was started and has not ended has a session. *)
SessionsEnd == \A l \in Logins : l \notin issued \/ l \in ended => logins[l] = NoSession

LoginInv == TypeOK /\ SessionsEnd /\ \A p \in Polls : PollOK(p)

PollType == [at : {"idle", "checking", "asking", "finishing"}, login : Logins,
             session : SessionType, since : Nat, account : Accounts \cup {NoAccount}]

-----------------------------------------------------------------------------
LEMMA NoSessionType == NoSession \in SessionType
  BY DEF NoSession, SessionType

LEMMA IdlePoll == Idle \in PollType /\ Idle.at = "idle" /\ Idle.since = 0
<1>1. (CHOOSE l \in Logins : TRUE) \in Logins
  BY LoginAssumption
<1> QED
  BY <1>1, NoSessionType DEF Idle, PollType

LEMMA LoginInit == Init => LoginInv
<1> SUFFICES ASSUME Init PROVE LoginInv
  OBVIOUS
<1>1. TypeOK
  BY NoSessionType, IdlePoll DEF Init, TypeOK, PollType
<1>2. SessionsEnd
  BY DEF Init, SessionsEnd
<1>3. \A p \in Polls : PollOK(p)
  BY DEF Init, PollOK, Idle
<1> QED
  BY <1>1, <1>2, <1>3 DEF LoginInv

(* A step of a poll that leaves the sessions alone. *)
LEMMA PollMoves ==
    ASSUME LoginInv, NEW p \in Polls,
           UNCHANGED <<now, logins, issued, approved, ended, files>>,
           NEW moved \in PollType, poll' = [poll EXCEPT ![p] = moved],
           /\ moved.since <= now
           /\ moved.at # "idle" => moved.login \in issued
           /\ moved.at \in {"asking", "finishing"} => moved.since < moved.session.expiresAt
           /\ moved.at = "finishing" => moved.account # NoAccount /\ approved[moved.login] = moved.account
    PROVE  LoginInv'
<1> USE DEF LoginInv, TypeOK, PollType
<1>1. poll' \in [Polls -> PollType]
  OBVIOUS
<1>2. ASSUME NEW q \in Polls
      PROVE  PollOK(q)'
  BY <1>2 DEF PollOK
<1> QED
  BY <1>1, <1>2 DEF SessionsEnd

(* A poll that ends its login. *)
LEMMA PollEnds ==
    ASSUME LoginInv, NEW p \in Polls,
           UNCHANGED <<now, issued, approved>>,
           poll[p].at # "idle",
           logins' = [logins EXCEPT ![poll[p].login] = NoSession],
           ended' = ended \cup {poll[p].login},
           poll' = [poll EXCEPT ![p] = Idle],
           files' \in [FileNames -> Accounts \cup {NoAccount}]
    PROVE  LoginInv'
<1> USE DEF LoginInv, TypeOK
<1>1. logins' \in [Logins -> SessionType]
  BY NoSessionType
<1>2. poll' \in [Polls -> PollType]
  BY IdlePoll DEF PollType
<1>3. SessionsEnd'
  BY DEF SessionsEnd
<1>4. ASSUME NEW q \in Polls
      PROVE  PollOK(q)'
  BY <1>4 DEF PollOK, Idle
<1>5. ended' \subseteq issued'
  BY DEF PollOK
<1> QED
  BY <1>1, <1>2, <1>3, <1>4, <1>5 DEF PollType

LEMMA PollStepInv ==
    ASSUME LoginInv, NEW p \in Polls, PollStep(p)
    PROVE  LoginInv'
<1>1. poll[p] \in PollType /\ PollOK(p) /\ now \in Nat
  BY DEF LoginInv, TypeOK, PollType
<1>2. ASSUME NEW l \in Logins, PollStarts(p, l)
      PROVE  LoginInv'
  <2> DEFINE moved == [at |-> "checking", login |-> l, session |-> logins[l],
                       since |-> now, account |-> NoAccount]
  <2>1. moved \in PollType /\ l \in issued
    BY <1>1, <1>2 DEF PollStarts, LoginInv, TypeOK, SessionsEnd, PollType
  <2>2. moved.since <= now /\ moved.at = "checking" /\ moved.login = l
    BY <1>1
  <2>3. poll' = [poll EXCEPT ![p] = moved] /\ UNCHANGED <<now, logins, issued, approved, ended, files>>
    BY <1>2 DEF PollStarts
  <2> HIDE DEF moved
  <2> QED
    BY <2>1, <2>2, <2>3, PollMoves
<1>3. CASE PollExpired(p)
  <2>1. files' \in [FileNames -> Accounts \cup {NoAccount}]
    BY <1>3 DEF PollExpired, LoginInv, TypeOK
  <2> QED
    BY <1>1, <1>3, <2>1, PollEnds DEF PollExpired
<1>4. CASE PollAsks(p)
  <2> DEFINE moved == [poll[p] EXCEPT !.at = "asking"]
  <2>1. moved \in PollType
    BY <1>1 DEF PollType
  <2>2. /\ moved.since <= now /\ moved.at = "asking" /\ moved.login \in issued
        /\ moved.since < moved.session.expiresAt
    BY <1>1, <1>4 DEF PollAsks, PollOK, PollType, SessionType
  <2>3. poll' = [poll EXCEPT ![p] = moved] /\ UNCHANGED <<now, logins, issued, approved, ended, files>>
    BY <1>4 DEF PollAsks
  <2> HIDE DEF moved
  <2> QED
    BY <2>1, <2>2, <2>3, PollMoves
<1>5. CASE PollPending(p)
  <2>1. poll' = [poll EXCEPT ![p] = Idle] /\ UNCHANGED <<now, logins, issued, approved, ended, files>>
    BY <1>5 DEF PollPending
  <2>2. Idle.since <= now
    BY <1>1, IdlePoll
  <2> QED
    BY <2>1, <2>2, IdlePoll, PollMoves
<1>6. CASE PollApproved(p)
  <2> DEFINE moved == [poll[p] EXCEPT !.at = "finishing", !.account = approved[poll[p].login]]
  <2>1. moved \in PollType
    BY <1>1 DEF PollType, LoginInv, TypeOK
  <2>2. /\ moved.since <= now /\ moved.at = "finishing" /\ moved.login \in issued
        /\ moved.since < moved.session.expiresAt
        /\ moved.account # NoAccount /\ approved[moved.login] = moved.account
    BY <1>1, <1>6 DEF PollApproved, PollOK, PollType
  <2>3. poll' = [poll EXCEPT ![p] = moved] /\ UNCHANGED <<now, logins, issued, approved, ended, files>>
    BY <1>6 DEF PollApproved
  <2> HIDE DEF moved
  <2> QED
    BY <2>1, <2>2, <2>3, PollMoves
<1>7. CASE PollSucceeds(p)
  <2>1. files' \in [FileNames -> Accounts \cup {NoAccount}]
    BY <1>1, <1>7 DEF PollSucceeds, PollType, LoginInv, TypeOK
  <2> QED
    BY <1>1, <1>7, <2>1, PollEnds DEF PollSucceeds
<1> QED
  BY <1>2, <1>3, <1>4, <1>5, <1>6, <1>7 DEF PollStep

LEMMA LoginStep ==
    ASSUME LoginInv, [Next]_loginVars
    PROVE  LoginInv'
<1> USE DEF LoginInv, TypeOK
<1>1. ASSUME NEW l \in Logins, NEW label \in Labels, StartLogin(l, label)
      PROVE  LoginInv'
  <2>1. logins' \in [Logins -> SessionType]
    BY <1>1, LoginAssumption DEF StartLogin, SessionType
  <2>2. SessionsEnd'
    BY <1>1 DEF StartLogin, SessionsEnd
  <2>3. ASSUME NEW p \in Polls
        PROVE  PollOK(p)'
    BY <1>1, <2>3 DEF StartLogin, PollOK
  <2> QED
    BY <1>1, <2>1, <2>2, <2>3 DEF StartLogin
<1>2. ASSUME NEW l \in Logins, NEW a \in Accounts, Approve(l, a)
      PROVE  LoginInv'
  <2>1. ASSUME NEW p \in Polls
        PROVE  PollOK(p)'
    BY <1>2, <2>1 DEF Approve, PollOK
  <2>2. SessionsEnd'
    BY <1>2 DEF Approve, SessionsEnd
  <2> QED
    BY <1>2, <2>1, <2>2 DEF Approve
<1>3. ASSUME NEW p \in Polls, PollStep(p)
      PROVE  LoginInv'
  BY <1>3, PollStepInv
<1>4. CASE Shutdown
  BY <1>4, NoSessionType DEF Shutdown, SessionsEnd, PollOK
<1>5. CASE Tick
  <2>1. now' \in Nat /\ now <= now'
    BY <1>5 DEF Tick
  <2>2. ASSUME NEW p \in Polls
        PROVE  PollOK(p)'
    BY <1>5, <2>1, <2>2 DEF Tick, PollOK
  <2> QED
    BY <1>5, <2>1, <2>2 DEF Tick, SessionsEnd
<1>6. CASE UNCHANGED loginVars
  BY <1>6 DEF loginVars, SessionsEnd, PollOK
<1> QED
  BY <1>1, <1>2, <1>3, <1>4, <1>5, <1>6 DEF Next

LEMMA LoginInvariance == Spec => []LoginInv
  BY LoginInit, LoginStep, PTL DEF Spec

(* Sessions, polls and the host's files keep their shape (StartLogin,      *)
(* PollLogin, Shutdown).                                                   *)
THEOREM LoginTypeCorrect == Spec => []TypeOK
<1>1. LoginInv => TypeOK
  BY DEF LoginInv
<1> QED
  BY <1>1, LoginInvariance, PTL

(* However polls of a login overlap each other, its expiry or a shutdown,  *)
(* it ends for good, never succeeds for a poll that came too late, and     *)
(* never for another account than the one that approved it.                *)
THEOREM EndedLoginsStayEnded == Spec => []LoginsEndForGood
<1>1. LoginInv => LoginsEndForGood
  <2> SUFFICES ASSUME LoginInv PROVE LoginsEndForGood
    OBVIOUS
  <2>1. \A l \in ended : logins[l] = NoSession
    BY DEF LoginInv, TypeOK, SessionsEnd
  <2> QED
    BY <2>1 DEF LoginInv, PollOK, LoginsEndForGood
<1> QED
  BY <1>1, LoginInvariance, PTL

-----------------------------------------------------------------------------
(* Accounts whose tokens are JWTs with a subject: stableAuthID then goes by *)
(* the subject, which Cursor gives to one user only.                        *)
EveryAccountNamed == \A a \in Accounts : Subject[a] # NoClaim
SubjectsDiffer    == \A a, b \in Accounts : Subject[a] = Subject[b] => a = b

(* Each file holds the account it is named after. *)
FilesNamed == \A name \in FileNames : files[name] # NoAccount => name = Subject[files[name]]

(* A successful poll writes the file named after its account, and no other *)
(* step of a login writes a file.                                          *)
LEMMA FilesWritten ==
    ASSUME LoginInv, EveryAccountNamed, [Next]_loginVars
    PROVE  \/ files' = files
           \/ \E a \in Accounts :
                 /\ Subject[a] \in FileNames
                 /\ files' = [files EXCEPT ![Subject[a]] = a]
<1>1. ASSUME NEW p \in Polls, PollSucceeds(p)
      PROVE  \E a \in Accounts :
                 /\ Subject[a] \in FileNames
                 /\ files' = [files EXCEPT ![Subject[a]] = a]
  <2> DEFINE a == poll[p].account
  <2>1. poll[p] \in PollType /\ PollOK(p) /\ poll[p].at = "finishing"
    BY <1>1 DEF PollSucceeds, LoginInv, TypeOK, PollType
  <2>2. a \in Accounts
    BY <2>1 DEF PollOK, PollType
  <2>3. FileName(poll[p].session, a) = Subject[a]
    BY <2>2 DEF EveryAccountNamed, FileName, StableAuthID
  <2> QED
    BY <1>1, <2>2, <2>3 DEF PollSucceeds, FileNames
<1>2. ASSUME NEW p \in Polls, PollStep(p), ~ PollSucceeds(p)
      PROVE  files' = files
  BY <1>2 DEF PollStep, PollStarts, PollExpired, PollAsks, PollPending, PollApproved
<1>3. CASE UNCHANGED loginVars
  BY <1>3 DEF loginVars
<1> QED
  BY <1>1, <1>2, <1>3 DEF Next, StartLogin, Approve, Shutdown, Tick

LEMMA FilesNamedStep ==
    ASSUME LoginInv, EveryAccountNamed, FilesNamed, [Next]_loginVars
    PROVE  FilesNamed'
<1>1. files \in [FileNames -> Accounts \cup {NoAccount}]
  BY DEF LoginInv, TypeOK
<1>2. CASE files' = files
  BY <1>2 DEF FilesNamed
<1>3. ASSUME NEW a \in Accounts, files' = [files EXCEPT ![Subject[a]] = a]
      PROVE  FilesNamed'
  BY <1>1, <1>3 DEF FilesNamed
<1> QED
  BY <1>2, <1>3, FilesWritten

LEMMA FilesNamedInvariance ==
    ASSUME EveryAccountNamed
    PROVE  Spec => []FilesNamed
<1>1. Init => FilesNamed
  BY DEF Init, FilesNamed
<1>2. LoginInv /\ FilesNamed /\ [Next]_loginVars => FilesNamed'
  BY FilesNamedStep
<1> QED
  BY <1>1, <1>2, LoginInvariance, PTL DEF Spec

(* An account whose token carries a subject has one file, however often,   *)
(* with whatever labels and in however many overlapping polls it signs in  *)
(* (stableAuthID, authData).                                               *)
THEOREM NamedAccountsHaveOneFile ==
    ASSUME EveryAccountNamed
    PROVE  Spec => []OneFilePerAccount
<1>1. FilesNamed => OneFilePerAccount
  BY DEF FilesNamed, OneFilePerAccount
<1> QED
  BY <1>1, FilesNamedInvariance, PTL

(* And no login replaces the file of another account, as deploy-linux.md   *)
(* promises, as long as Cursor gives different users different subjects.   *)
THEOREM NamedAccountsKeepTheirFiles ==
    ASSUME EveryAccountNamed, SubjectsDiffer
    PROVE  Spec => SeparateAuthFiles
<1>1. ASSUME LoginInv, FilesNamed, [Next]_loginVars, NEW name \in FileNames
      PROVE  files[name] \in {NoAccount, files'[name]}
  <2>1. files \in [FileNames -> Accounts \cup {NoAccount}]
    BY <1>1 DEF LoginInv, TypeOK
  <2>2. CASE files' = files
    BY <2>2
  <2>3. ASSUME NEW a \in Accounts, files' = [files EXCEPT ![Subject[a]] = a]
        PROVE  files[name] \in {NoAccount, files'[name]}
    <3>1. CASE name = Subject[a]
      BY <1>1, <2>1, <2>3, <3>1 DEF FilesNamed, SubjectsDiffer
    <3>2. CASE name # Subject[a]
      BY <2>1, <2>3, <3>2
    <3> QED
      BY <3>1, <3>2
  <2> QED
    BY <1>1, <2>2, <2>3, FilesWritten
<1>2. LoginInv /\ FilesNamed /\ [Next]_loginVars =>
          [\A name \in FileNames : files[name] \in {NoAccount, files'[name]}]_loginVars
  BY <1>1
<1> QED
  BY <1>2, LoginInvariance, FilesNamedInvariance, PTL DEF Spec, SeparateAuthFiles

=============================================================================
