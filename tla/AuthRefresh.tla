------------------------------ MODULE AuthRefresh ------------------------------
(***************************************************************************)
(* The life of one account's record: internal/provider/auth.go.  The host  *)
(* stores the record, has it parsed when it loads the file, calls          *)
(* RefreshAuth with a copy of it (at NextRefreshAfter, but it may call at  *)
(* any time and twice at once) and stores what it gets back.  Meanwhile    *)
(* the account's policy (priority, prefix, rules) may be edited at the     *)
(* host, and Cursor may rotate the refresh token when it exchanges it.     *)
(*                                                                         *)
(* An access token is the expiry its claims carry, Unset when they carry   *)
(* none; a refresh token is its number, Unset when there is none.  The     *)
(* clock counts minutes from 1.                                            *)
(***************************************************************************)
EXTENDS Naturals

CONSTANTS
    Calls,      \* concurrent calls of RefreshAuth
    Lead,       \* 30 minutes
    MinDelay,   \* one minute
    Lifetimes,  \* how long an access token of Cursor may last
    MaxTime, MaxTokens, MaxEdits    \* model bounds

ASSUME AuthRefreshAssumption ==
    /\ Lead \in Nat /\ MinDelay \in Nat \ {0} /\ MinDelay <= Lead
    /\ Lifetimes \subseteq Nat \ {0}
    /\ MaxTime \in Nat \ {0} /\ MaxTokens \in Nat \ {0} /\ MaxEdits \in Nat

VARIABLES
    now,        \* the clock
    record,     \* the account as the host stores it
    scheduled,  \* the NextRefreshAfter the host was told, 0 before the first
    call,       \* call -> where it is and its copy of the record
    valid,      \* the refresh tokens Cursor accepts
    issued,     \* how many refresh tokens Cursor has handed out
    policy,     \* the policy last edited
    raced       \* some call overlapped another one or an edit, or lost its answer

refreshVars == <<now, record, scheduled, call, valid, issued, policy, raced>>

Unset == 0

(* onTime: the host called when the record's own schedule had come. *)
Idle == [at |-> "idle", copy |-> [access |-> Unset, refresh |-> Unset, expiresAt |-> Unset, policy |-> 0],
         onTime |-> FALSE, due |-> FALSE]

InFlight == {c \in Calls : call[c].at # "idle"}

-----------------------------------------------------------------------------
(* refreshAfter: Lead before the expiry, but at least MinDelay from now;   *)
(* with no expiry known, Lead from now.                                    *)
RefreshAfter(r) ==
    IF r.access = Unset THEN now + Lead
    ELSE IF r.access < now + MinDelay + Lead THEN now + MinDelay
    ELSE r.access - Lead

(* Mutated form: the boundary itself is not due. *)
ShouldRefreshAfterLead(r) == r.access # Unset /\ r.access < now + Lead

ShouldRefresh(r) == r.access # Unset /\ r.access <= now + Lead

(* authData fills in the expiry only where the record has none. *)
AuthData(r) == [r EXCEPT !.expiresAt = IF @ = Unset THEN r.access ELSE @]

(* A record is imported or saved by a login; its expiry may not be filled  *)
(* in yet, and the token may have expired when the file is loaded.         *)
Init ==
    /\ now = 1 /\ scheduled = 0
    /\ \E life \in Lifetimes \cup {Unset}, refresh \in 0 .. 1 :
          LET access == IF life = Unset THEN Unset ELSE now + life
          IN \E expiresAt \in {Unset, access} :
                record = [access |-> access, refresh |-> refresh, expiresAt |-> expiresAt, policy |-> 0]
    /\ call = [c \in Calls |-> Idle]
    /\ issued = 1 /\ valid = {1}
    /\ policy = 0 /\ raced = FALSE

-----------------------------------------------------------------------------
(* ParseAuth, when the host loads the file. *)
ParseAuth ==
    /\ record' = AuthData(record)
    /\ scheduled' = RefreshAfter(record)
    /\ UNCHANGED <<now, call, valid, issued, policy, raced>>

(* Mutated form: Cursor is asked without a refresh token as well. *)
RefreshStartsWithoutToken(c) ==
    /\ scheduled # 0 /\ call[c].at = "idle"
    /\ LET due == ShouldRefresh(record)
       IN call' = [call EXCEPT ![c] = [at |-> IF due THEN "asking" ELSE "returning", copy |-> record,
                                       onTime |-> now >= scheduled, due |-> due]]
    /\ raced' = (raced \/ InFlight # {})
    /\ UNCHANGED <<now, record, scheduled, valid, issued, policy>>

(* RefreshAuth works on its copy; Cursor is asked only if the token is due *)
(* and there is a refresh token.                                           *)
RefreshStarts(c) ==
    /\ scheduled # 0 /\ call[c].at = "idle"
    /\ LET due == ShouldRefresh(record) /\ record.refresh # Unset
       IN call' = [call EXCEPT ![c] = [at |-> IF due THEN "asking" ELSE "returning", copy |-> record,
                                       onTime |-> now >= scheduled, due |-> due]]
    /\ raced' = (raced \/ InFlight # {})
    /\ UNCHANGED <<now, record, scheduled, valid, issued, policy>>

(* Cursor exchanges the token for an access token, and may hand out a new  *)
(* refresh token that replaces the old one.                                *)
Exchange(c, rotates) ==
    /\ call[c].at = "asking" /\ call[c].copy.refresh \in valid
    /\ issued' = IF rotates THEN issued + 1 ELSE issued
    /\ valid' = IF rotates THEN (valid \ {call[c].copy.refresh}) \cup {issued + 1} ELSE valid

NewAccess == {Unset} \cup {now + life : life \in Lifetimes}

Refreshed(c, r) == call' = [call EXCEPT ![c].at = "returning", ![c].copy = r]

(* Mutated form: the expiry is left for authData to fill in. *)
CursorAnswersWithoutExpiry(c, access, rotates) ==
    /\ Exchange(c, rotates)
    /\ Refreshed(c, [call[c].copy EXCEPT !.access = access, !.refresh = IF rotates THEN issued' ELSE @])
    /\ UNCHANGED <<now, record, scheduled, policy, raced>>

(* Mutated form: an answer without a refresh token clears it. *)
CursorAnswersClearing(c, access, rotates) ==
    /\ Exchange(c, rotates)
    /\ Refreshed(c, [call[c].copy EXCEPT !.access = access,
                                         !.refresh = IF rotates THEN issued' ELSE Unset,
                                         !.expiresAt = IF access # Unset THEN access ELSE @])
    /\ UNCHANGED <<now, record, scheduled, policy, raced>>

CursorAnswers(c, access, rotates) ==
    /\ Exchange(c, rotates)
    /\ Refreshed(c, [call[c].copy EXCEPT !.access = access,
                                         !.refresh = IF rotates THEN issued' ELSE @,
                                         !.expiresAt = IF access # Unset THEN access ELSE @])
    /\ UNCHANGED <<now, record, scheduled, policy, raced>>

(* The answer is lost on its way, or empty: the call fails, although the   *)
(* token may have been rotated.                                            *)
AnswerLost(c, rotates) ==
    /\ Exchange(c, rotates)
    /\ call' = [call EXCEPT ![c] = Idle]
    /\ raced' = (raced \/ rotates)
    /\ UNCHANGED <<now, record, scheduled, policy>>

(* Cursor refuses, or cannot be reached: the call fails. *)
ExchangeFails(c) ==
    /\ call[c].at = "asking"
    /\ call' = [call EXCEPT ![c] = Idle]
    /\ UNCHANGED <<now, record, scheduled, valid, issued, policy, raced>>

(* The whole record is returned, and the host stores it. *)
RefreshReturns(c) ==
    /\ call[c].at = "returning"
    /\ record' = AuthData(call[c].copy)
    /\ scheduled' = RefreshAfter(call[c].copy)
    /\ call' = [call EXCEPT ![c] = Idle]
    /\ UNCHANGED <<now, valid, issued, policy, raced>>

(* The account's policy is edited at the host. *)
EditPolicy ==
    /\ policy < MaxEdits
    /\ policy' = policy + 1
    /\ record' = [record EXCEPT !.policy = policy + 1]
    /\ raced' = (raced \/ InFlight # {})
    /\ UNCHANGED <<now, scheduled, call, valid, issued>>

Tick ==
    /\ now < MaxTime
    /\ now' = now + 1
    /\ UNCHANGED <<record, scheduled, call, valid, issued, policy, raced>>

-----------------------------------------------------------------------------
RefreshStep(c) ==
    \/ RefreshStarts(c)
    \/ \E access \in NewAccess, rotates \in BOOLEAN :
          (rotates => issued < MaxTokens) /\ CursorAnswers(c, access, rotates)
    \/ \E rotates \in BOOLEAN : (rotates => issued < MaxTokens) /\ AnswerLost(c, rotates)
    \/ ExchangeFails(c)
    \/ RefreshReturns(c)

Next ==
    \/ ParseAuth
    \/ \E c \in Calls : RefreshStep(c)
    \/ EditPolicy
    \/ Tick

Spec == Init /\ [][Next]_refreshVars

-----------------------------------------------------------------------------
RecordType == [access : Nat, refresh : 0 .. MaxTokens, expiresAt : Nat, policy : 0 .. MaxEdits]

(* Type invariant: among others, Cursor is only asked about an account     *)
(* that has a refresh token, and never accepts one it has not issued.      *)
TypeOK ==
    /\ now \in 1 .. MaxTime /\ scheduled \in Nat
    /\ record \in RecordType
    /\ call \in [Calls -> [at : {"idle", "asking", "returning"}, copy : RecordType,
                           onTime : BOOLEAN, due : BOOLEAN]]
    /\ \A c \in Calls : call[c].at = "asking" => call[c].due /\ call[c].copy.refresh # Unset
    /\ issued \in 1 .. MaxTokens /\ valid \subseteq 1 .. issued
    /\ policy \in 0 .. MaxEdits /\ raced \in BOOLEAN

(* A refresh called at the time the plugin itself named does ask Cursor,   *)
(* whenever the record can be refreshed at all: the schedule and the test  *)
(* agree at the boundary, also after a reload or an overtaking call.       *)
ScheduledRefreshIsDue ==
    \A c \in InFlight : call[c].onTime /\ ~ call[c].due =>
        call[c].copy.access = Unset \/ call[c].copy.refresh = Unset

(* The expiry shown for an account is that of the token it has, also after *)
(* refreshes that overlap.                                                 *)
ExpiryIsTheTokens ==
    scheduled # 0 /\ record.access # Unset => record.expiresAt = record.access

(* As long as no call overlaps another one or an edit and no answer is     *)
(* lost, refreshing keeps the policy that was edited last, and the stored  *)
(* refresh token is one that Cursor accepts, through any rotations, unless *)
(* a call that has yet to return holds the newer one.                      *)
RecordSurvives ==
    ~ raced =>
        /\ record.policy = policy
        /\ \/ record.refresh \in valid
           \/ \E c \in InFlight : call[c].at = "returning" /\ call[c].copy.refresh \in valid
           \/ record.refresh = Unset /\ issued = 1

=============================================================================

