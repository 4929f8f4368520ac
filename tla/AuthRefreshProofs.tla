--------------------------- MODULE AuthRefreshProofs ---------------------------
(***************************************************************************)
(* The life of an account's record, for any number of overlapping calls of *)
(* RefreshAuth, any lead, any lifetimes of tokens and any edits: the       *)
(* schedule names a time at which a refresh is due, the expiry belongs to  *)
(* the token, and what no race destroyed survives.                         *)
(***************************************************************************)
EXTENDS AuthRefresh, TLAPS

(* The host is never told to come back before the stored token is due,     *)
(* whichever call it was that stored it.                                   *)
ScheduleInv == scheduled # 0 /\ record.access # Unset => record.access <= scheduled + Lead

(* An expiry that is filled in is that of the token beside it, and every   *)
(* record that passed through authData, so each copy too, has it filled in.*)
Consistent(r) == r.access # Unset => r.expiresAt = r.access

ExpiryInv ==
    /\ record.expiresAt = Unset \/ Consistent(record)
    /\ scheduled # 0 => Consistent(record)
    /\ \A c \in InFlight : Consistent(call[c].copy)
    /\ InFlight # {} => scheduled # 0

(* A refresh token that Cursor accepts, or none because none was given. *)
Usable(r) == r.refresh \in valid \/ (r.refresh = Unset /\ issued = 1)

(* Without a race there is one call at a time; its copy has the newest     *)
(* policy, while it asks it has the token that is stored, and what it is   *)
(* about to return can be used.                                            *)
OneCall ==
    ~ raced =>
        /\ record.policy = policy
        /\ \A c, d \in InFlight : c = d
        /\ \A c \in InFlight : call[c].copy.policy = policy
        /\ \A c \in InFlight : call[c].at = "returning" => Usable(call[c].copy)
        /\ \A c \in InFlight : call[c].at = "asking" => call[c].copy.refresh = record.refresh
        /\ \/ Usable(record)
           \/ \E c \in InFlight : call[c].at = "returning" /\ call[c].copy.refresh \in valid

AuthInv == TypeOK /\ ScheduleInv /\ ExpiryInv /\ ScheduledRefreshIsDue /\ OneCall

CallType == [at : {"idle", "asking", "returning"}, copy : RecordType, onTime : BOOLEAN, due : BOOLEAN]

-----------------------------------------------------------------------------
(* What a record that is loaded or returned becomes, and when its account  *)
(* is to be refreshed next.                                                *)
LEMMA StoredRecord ==
    ASSUME NEW r \in RecordType
    PROVE  /\ AuthData(r) \in RecordType
           /\ AuthData(r).access = r.access /\ AuthData(r).refresh = r.refresh
           /\ AuthData(r).policy = r.policy
           /\ r.expiresAt = Unset \/ Consistent(r) => Consistent(AuthData(r))
  BY DEF AuthData, RecordType, Consistent

LEMMA NextSchedule ==
    ASSUME NEW r \in RecordType, now \in Nat \ {0}
    PROVE  /\ RefreshAfter(r) \in Nat \ {0}
           /\ r.access # Unset => r.access <= RefreshAfter(r) + Lead
<1>1. r.access \in Nat
  BY DEF RecordType
<1> QED
  BY <1>1, AuthRefreshAssumption DEF RefreshAfter, Unset

LEMMA IdleCall == Idle \in CallType /\ Idle.at = "idle" /\ Idle.copy.refresh = Unset
<1>1. 0 \in 0 .. MaxTokens /\ 0 \in 0 .. MaxEdits
  BY AuthRefreshAssumption
<1> QED
  BY <1>1 DEF Idle, CallType, RecordType, Unset

LEMMA AuthInit == Init => AuthInv
<1> SUFFICES ASSUME Init PROVE AuthInv
  OBVIOUS
<1>1. InFlight = {}
  BY IdleCall DEF Init, InFlight
<1>2. record \in RecordType /\ (record.expiresAt = Unset \/ Consistent(record))
  <2>1. PICK life \in Lifetimes \cup {Unset}, refresh \in 0 .. 1 :
            LET access == IF life = Unset THEN Unset ELSE now + life
            IN \E expiresAt \in {Unset, access} :
                  record = [access |-> access, refresh |-> refresh, expiresAt |-> expiresAt, policy |-> 0]
    BY DEF Init
  <2> DEFINE access == IF life = Unset THEN Unset ELSE now + life
  <2>2. access \in Nat /\ refresh \in 0 .. MaxTokens /\ 0 \in 0 .. MaxEdits
    BY AuthRefreshAssumption DEF Init, Unset
  <2>3. PICK expiresAt \in {Unset, access} :
            record = [access |-> access, refresh |-> refresh, expiresAt |-> expiresAt, policy |-> 0]
    BY <2>1
  <2> HIDE DEF access
  <2> QED
    BY <2>2, <2>3 DEF RecordType, Consistent, Unset
<1>3. TypeOK
  <2>1. call \in [Calls -> CallType] /\ \A c \in Calls : call[c].at = "idle"
    BY IdleCall DEF Init
  <2>2. now = 1 /\ scheduled = 0 /\ issued = 1 /\ valid = {1} /\ policy = 0 /\ raced = FALSE
    BY DEF Init
  <2>3. now \in 1 .. MaxTime /\ scheduled \in Nat /\ issued \in 1 .. MaxTokens /\ policy \in 0 .. MaxEdits
    BY <2>2, AuthRefreshAssumption
  <2>4. valid \subseteq 1 .. issued
    BY <2>2
  <2>5. raced \in BOOLEAN
    BY <2>2
  <2> QED
    BY <1>2, <2>1, <2>3, <2>4, <2>5 DEF TypeOK, CallType
<1>4. ScheduleInv /\ ExpiryInv /\ ScheduledRefreshIsDue
  BY <1>1, <1>2 DEF Init, ScheduleInv, ExpiryInv, ScheduledRefreshIsDue
<1>5. OneCall
  <2>1. record.policy = 0 /\ record.refresh \in 0 .. 1
    BY DEF Init
  <2>2. Usable(record)
    BY <2>1 DEF Init, Usable, Unset
  <2> QED
    BY <1>1, <2>1, <2>2 DEF Init, OneCall
<1> QED
  BY <1>3, <1>4, <1>5 DEF AuthInv

-----------------------------------------------------------------------------
LEMMA ParseAuthStep ==
    ASSUME AuthInv, ParseAuth
    PROVE  AuthInv'
<1> USE DEF AuthInv, ParseAuth
<1>1. record \in RecordType /\ now \in Nat \ {0}
  BY DEF TypeOK
<1>2. /\ record' \in RecordType /\ scheduled' \in Nat \ {0}
      /\ record'.access = record.access /\ record'.refresh = record.refresh
      /\ record'.policy = record.policy
      /\ Consistent(record)'
      /\ record'.access # Unset => record'.access <= scheduled' + Lead
  BY <1>1, StoredRecord, NextSchedule DEF ExpiryInv, Consistent
<1>3. InFlight' = InFlight
  BY DEF InFlight
<1>4. TypeOK'
  BY <1>2 DEF TypeOK
<1>5. ScheduleInv' /\ ExpiryInv' /\ ScheduledRefreshIsDue'
  BY <1>2, <1>3 DEF ScheduleInv, ExpiryInv, Consistent, ScheduledRefreshIsDue
<1>6. OneCall'
  BY <1>2, <1>3 DEF OneCall, Usable
<1> QED
  BY <1>4, <1>5, <1>6

LEMMA RefreshStartsStep ==
    ASSUME AuthInv, NEW c \in Calls, RefreshStarts(c)
    PROVE  AuthInv'
<1> USE DEF AuthInv
<1> DEFINE due   == ShouldRefresh(record) /\ record.refresh # Unset
           moved == [at |-> IF due THEN "asking" ELSE "returning", copy |-> record,
                     onTime |-> now >= scheduled, due |-> due]
<1>1. /\ scheduled \in Nat \ {0} /\ now \in Nat /\ record \in RecordType
      /\ record.access \in Nat
      /\ call[c].at = "idle" /\ c \notin InFlight
  BY DEF RefreshStarts, TypeOK, InFlight, RecordType
<1>2. /\ call' = [call EXCEPT ![c] = moved] /\ raced' = (raced \/ InFlight # {})
      /\ UNCHANGED <<now, record, scheduled, valid, issued, policy>>
  BY DEF RefreshStarts
<1>3. /\ moved.at \in {"asking", "returning"} /\ (moved.at = "asking" <=> due)
      /\ moved.copy = record /\ moved.due = due /\ moved.onTime = (now >= scheduled)
  OBVIOUS
<1>4. moved \in CallType
  <2>1. due \in BOOLEAN /\ (now >= scheduled) \in BOOLEAN
    BY <1>1 DEF ShouldRefresh
  <2> HIDE DEF due
  <2> QED
    BY <1>1, <2>1 DEF CallType
<1>5. moved.onTime /\ ~ moved.due => record.access = Unset \/ record.refresh = Unset
  <2> SUFFICES ASSUME moved.onTime, record.access # Unset PROVE ShouldRefresh(record)
    BY <1>3
  <2>1. now >= scheduled /\ Lead \in Nat
    BY <1>3, AuthRefreshAssumption
  <2> HIDE DEF moved, due
  <2> QED
    BY <1>1, <2>1 DEF ScheduleInv, ShouldRefresh
<1>6. moved.at = "asking" => moved.due /\ moved.copy.refresh # Unset
  BY <1>3
<1> HIDE DEF due, moved
<1>7. \A d \in Calls : call'[d] = IF d = c THEN moved ELSE call[d]
  BY <1>2 DEF TypeOK
<1>8. InFlight' = InFlight \cup {c}
  BY <1>1, <1>3, <1>7 DEF InFlight
<1>9. TypeOK'
  <2>1. call' \in [Calls -> CallType]
    BY <1>2, <1>4 DEF TypeOK, CallType
  <2>2. \A d \in Calls : call'[d].at = "asking" => call'[d].due /\ call'[d].copy.refresh # Unset
    BY <1>6, <1>7 DEF TypeOK
  <2> QED
    BY <1>2, <2>1, <2>2 DEF TypeOK, CallType
<1>10. ScheduleInv' /\ ScheduledRefreshIsDue'
  BY <1>2, <1>3, <1>5, <1>7, <1>8 DEF ScheduleInv, ScheduledRefreshIsDue, InFlight
<1>11. ExpiryInv'
  BY <1>1, <1>2, <1>3, <1>7, <1>8 DEF ExpiryInv, Consistent, InFlight
<1>12. ASSUME ~ raced'
       PROVE  /\ InFlight' = {c} /\ call'[c] = moved
              /\ record'.policy = policy' /\ Usable(record)'
  <2>1. ~ raced /\ InFlight = {}
    BY <1>2, <1>12 DEF TypeOK
  <2> QED
    BY <1>2, <1>7, <1>8, <2>1 DEF OneCall, Usable
<1>13. OneCall'
  BY <1>2, <1>3, <1>12 DEF OneCall, Usable
<1> QED
  BY <1>9, <1>10, <1>11, <1>13

(* A call that ends, having changed the tokens Cursor accepts only if that *)
(* counts as a race.                                                       *)
LEMMA CallFails ==
    ASSUME AuthInv, NEW c \in Calls, call[c].at = "asking",
           call' = [call EXCEPT ![c] = Idle],
           UNCHANGED <<now, record, scheduled, policy>>,
           issued' \in 1 .. MaxTokens, valid' \subseteq 1 .. issued',
           raced' \in BOOLEAN,
           ~ raced' => UNCHANGED <<valid, issued, raced>>
    PROVE  AuthInv'
<1> USE DEF AuthInv
<1>1. \A d \in Calls : call'[d] = IF d = c THEN Idle ELSE call[d]
  BY DEF TypeOK
<1>2. InFlight' = InFlight \ {c}
  BY <1>1, IdleCall DEF InFlight
<1>3. TypeOK'
  <2>1. call' \in [Calls -> CallType]
    BY IdleCall DEF TypeOK, CallType
  <2>2. \A d \in Calls : call'[d].at = "asking" => call'[d].due /\ call'[d].copy.refresh # Unset
    BY <1>1, IdleCall DEF TypeOK
  <2> QED
    BY <2>1, <2>2 DEF TypeOK, CallType
<1>4. ScheduleInv' /\ ScheduledRefreshIsDue'
  BY <1>1, <1>2 DEF ScheduleInv, ScheduledRefreshIsDue
<1>5. ExpiryInv'
  BY <1>1, <1>2 DEF ExpiryInv, Consistent
<1>6. OneCall'
  BY <1>1, <1>2 DEF OneCall, Usable, InFlight
<1> QED
  BY <1>3, <1>4, <1>5, <1>6

(* What an exchange makes of the tokens Cursor accepts. *)
LEMMA ExchangeTokens ==
    ASSUME TypeOK, NEW c \in Calls, NEW rotates \in BOOLEAN,
           rotates => issued < MaxTokens, Exchange(c, rotates)
    PROVE  /\ issued' \in 1 .. MaxTokens /\ valid' \subseteq 1 .. issued'
           /\ rotates => issued' \in valid'
           /\ ~ rotates => valid' = valid /\ issued' = issued
           /\ call[c].at = "asking" /\ call[c].copy.refresh \in valid
<1>1. /\ issued \in 1 .. MaxTokens /\ valid \subseteq 1 .. issued /\ MaxTokens \in Nat
      /\ call[c].at = "asking" /\ call[c].copy.refresh \in valid
  BY AuthRefreshAssumption DEF Exchange, TypeOK
<1>2. CASE rotates
  <2>1. issued' = issued + 1 /\ valid' = (valid \ {call[c].copy.refresh}) \cup {issued + 1}
    BY <1>2 DEF Exchange
  <2>2. issued' \in 1 .. MaxTokens
    BY <1>1, <1>2, <2>1
  <2>3. ASSUME NEW token \in valid'
        PROVE  token \in 1 .. issued'
    <3>1. token \in 1 .. issued \/ token = issued + 1
      BY <1>1, <2>1, <2>3
    <3> QED
      BY <1>1, <2>1, <3>1
  <2>4. issued' \in valid'
    BY <2>1
  <2> QED
    BY <1>1, <1>2, <2>2, <2>3, <2>4
<1>3. CASE ~ rotates
  BY <1>1, <1>3 DEF Exchange
<1> QED
  BY <1>2, <1>3

LEMMA CursorAnswersStep ==
    ASSUME AuthInv, NEW c \in Calls, NEW access \in NewAccess, NEW rotates \in BOOLEAN,
           rotates => issued < MaxTokens, CursorAnswers(c, access, rotates)
    PROVE  AuthInv'
<1> USE DEF AuthInv
<1> DEFINE answer == [call[c].copy EXCEPT !.access = access,
                                          !.refresh = IF rotates THEN issued' ELSE @,
                                          !.expiresAt = IF access # Unset THEN access ELSE @]
<1>1. /\ issued' \in 1 .. MaxTokens /\ valid' \subseteq 1 .. issued'
      /\ rotates => issued' \in valid'
      /\ ~ rotates => valid' = valid /\ issued' = issued
      /\ call[c].at = "asking" /\ call[c].copy.refresh \in valid
  BY ExchangeTokens DEF CursorAnswers
<1>2. call[c] \in CallType /\ call[c].copy \in RecordType /\ access \in Nat /\ c \in InFlight
  <2>1. access \in Nat
    BY AuthRefreshAssumption DEF NewAccess, TypeOK, Unset
  <2> QED
    BY <1>1, <2>1 DEF TypeOK, CallType, InFlight
<1>3. /\ answer \in RecordType /\ answer.policy = call[c].copy.policy
      /\ answer.refresh \in valid' /\ Consistent(answer)
  <2> DEFINE token  == IF rotates THEN issued' ELSE call[c].copy.refresh
             expiry == IF access # Unset THEN access ELSE call[c].copy.expiresAt
  <2>1. answer = [call[c].copy EXCEPT !.access = access, !.refresh = token, !.expiresAt = expiry]
    BY <1>2 DEF RecordType
  <2>2. token \in valid' /\ token \in 0 .. MaxTokens /\ (access # Unset => expiry = access)
    BY <1>1, <1>2 DEF RecordType
  <2>3. expiry \in Nat
    BY <1>2 DEF RecordType
  <2> HIDE DEF answer, token, expiry
  <2> QED
    BY <1>2, <2>1, <2>2, <2>3 DEF RecordType, Consistent
<1>4. call' = [call EXCEPT ![c].at = "returning", ![c].copy = answer]
  BY DEF CursorAnswers, Refreshed
<1> HIDE DEF answer
<1>5. /\ call'[c].at = "returning" /\ call'[c].copy = answer
      /\ call'[c].due = call[c].due /\ call'[c].onTime = call[c].onTime
      /\ \A d \in Calls \ {c} : call'[d] = call[d]
      /\ call' \in [Calls -> CallType]
  BY <1>2, <1>3, <1>4 DEF TypeOK, CallType
<1>6. UNCHANGED <<now, record, scheduled, policy, raced>>
  BY DEF CursorAnswers
<1>7. InFlight' = InFlight
  BY <1>2, <1>5 DEF InFlight
<1>8. call[c].due
  BY <1>1 DEF TypeOK
<1>9. TypeOK'
  BY <1>1, <1>5, <1>6 DEF TypeOK, CallType
<1>10. ScheduleInv' /\ ScheduledRefreshIsDue'
  BY <1>5, <1>6, <1>7, <1>8 DEF ScheduleInv, ScheduledRefreshIsDue, InFlight
<1>11. ExpiryInv'
  BY <1>3, <1>5, <1>6, <1>7 DEF ExpiryInv, Consistent, InFlight
<1>12. OneCall'
  <2> SUFFICES ASSUME ~ raced' PROVE OneCall'
    BY DEF OneCall
  <2>1. InFlight' = {c} /\ record'.policy = policy' /\ answer.policy = policy'
    BY <1>2, <1>3, <1>6, <1>7 DEF OneCall
  <2> QED
    BY <1>3, <1>5, <2>1 DEF OneCall, Usable
<1> QED
  BY <1>9, <1>10, <1>11, <1>12

LEMMA RefreshReturnsStep ==
    ASSUME AuthInv, NEW c \in Calls, RefreshReturns(c)
    PROVE  AuthInv'
<1> USE DEF AuthInv
<1>1. call[c].at = "returning" /\ c \in InFlight /\ call[c].copy \in RecordType /\ now \in Nat \ {0}
  BY DEF RefreshReturns, TypeOK, InFlight
<1>2. /\ record' = AuthData(call[c].copy) /\ scheduled' = RefreshAfter(call[c].copy)
      /\ call' = [call EXCEPT ![c] = Idle]
      /\ UNCHANGED <<now, valid, issued, policy, raced>>
  BY DEF RefreshReturns
<1>3. Consistent(call[c].copy)
  BY <1>1 DEF ExpiryInv
<1>4. /\ record' \in RecordType /\ scheduled' \in Nat \ {0}
      /\ record'.refresh = call[c].copy.refresh /\ record'.policy = call[c].copy.policy
      /\ Consistent(record)'
      /\ record'.access # Unset => record'.access <= scheduled' + Lead
  BY <1>1, <1>2, <1>3, StoredRecord, NextSchedule DEF Consistent
<1>5. \A d \in Calls : call'[d] = IF d = c THEN Idle ELSE call[d]
  BY <1>2 DEF TypeOK
<1>6. InFlight' = InFlight \ {c}
  BY <1>5, IdleCall DEF InFlight
<1>7. TypeOK'
  <2>1. call' \in [Calls -> CallType]
    BY <1>2, IdleCall DEF TypeOK, CallType
  <2>2. \A d \in Calls : call'[d].at = "asking" => call'[d].due /\ call'[d].copy.refresh # Unset
    BY <1>5, IdleCall DEF TypeOK
  <2> QED
    BY <1>2, <1>4, <2>1, <2>2 DEF TypeOK, CallType
<1>8. ScheduleInv' /\ ScheduledRefreshIsDue'
  BY <1>4, <1>5, <1>6 DEF ScheduleInv, ScheduledRefreshIsDue, InFlight
<1>9. ExpiryInv'
  <2>1. scheduled' # 0 /\ Consistent(record)'
    BY <1>4
  <2>2. \A d \in InFlight' : call'[d] = call[d] /\ d \in InFlight
    BY <1>5, <1>6 DEF InFlight
  <2> QED
    BY <2>1, <2>2 DEF ExpiryInv, Consistent
<1>10. OneCall'
  <2> SUFFICES ASSUME ~ raced' PROVE OneCall'
    BY DEF OneCall
  <2>1. InFlight' = {}
    BY <1>1, <1>2, <1>6 DEF OneCall
  <2>2. record'.policy = policy' /\ Usable(record)'
    BY <1>1, <1>2, <1>4 DEF OneCall, Usable
  <2> QED
    BY <2>1, <2>2 DEF OneCall
<1> QED
  BY <1>7, <1>8, <1>9, <1>10

LEMMA EditPolicyStep ==
    ASSUME AuthInv, EditPolicy
    PROVE  AuthInv'
<1> USE DEF AuthInv, EditPolicy
<1>1. /\ record' \in RecordType /\ policy' \in 0 .. MaxEdits /\ record'.policy = policy'
      /\ record'.access = record.access /\ record'.refresh = record.refresh
      /\ record'.expiresAt = record.expiresAt
  BY AuthRefreshAssumption DEF TypeOK, RecordType
<1>2. InFlight' = InFlight
  BY DEF InFlight
<1>3. TypeOK'
  BY <1>1 DEF TypeOK
<1>4. ScheduleInv' /\ ScheduledRefreshIsDue' /\ ExpiryInv'
  BY <1>1, <1>2 DEF ScheduleInv, ScheduledRefreshIsDue, ExpiryInv, Consistent
<1>5. OneCall'
  <2> SUFFICES ASSUME ~ raced' PROVE OneCall'
    BY DEF OneCall
  <2>1. ~ raced /\ InFlight' = {}
    BY <1>2 DEF TypeOK
  <2>2. Usable(record)'
    BY <1>1, <1>2, <2>1 DEF OneCall, Usable
  <2> QED
    BY <1>1, <2>1, <2>2 DEF OneCall
<1> QED
  BY <1>3, <1>4, <1>5

-----------------------------------------------------------------------------
LEMMA AuthStep == AuthInv /\ [Next]_refreshVars => AuthInv'
<1> SUFFICES ASSUME AuthInv, [Next]_refreshVars PROVE AuthInv'
  OBVIOUS
<1>1. ASSUME NEW c \in Calls, NEW rotates \in BOOLEAN, rotates => issued < MaxTokens,
             AnswerLost(c, rotates)
      PROVE  AuthInv'
  <2>1. Exchange(c, rotates)
    BY <1>1 DEF AnswerLost
  <2>2. TypeOK
    BY DEF AuthInv
  <2>3. /\ issued' \in 1 .. MaxTokens /\ valid' \subseteq 1 .. issued'
        /\ ~ rotates => valid' = valid /\ issued' = issued
        /\ call[c].at = "asking"
    BY <1>1, <2>1, <2>2, ExchangeTokens
  <2> QED
    BY <1>1, <2>2, <2>3, CallFails DEF AnswerLost, TypeOK
<1>2. ASSUME NEW c \in Calls, ExchangeFails(c)
      PROVE  AuthInv'
  BY <1>2, CallFails DEF ExchangeFails, AuthInv, TypeOK
<1>3. CASE Tick
  <2>1. InFlight' = InFlight
    BY <1>3 DEF Tick, InFlight
  <2>2. TypeOK'
    BY <1>3, AuthRefreshAssumption DEF Tick, AuthInv, TypeOK
  <2> QED
    BY <1>3, <2>1, <2>2 DEF Tick, AuthInv, ScheduleInv, ExpiryInv, Consistent,
                            ScheduledRefreshIsDue, OneCall, Usable
<1>4. CASE UNCHANGED refreshVars
  BY <1>4 DEF refreshVars, AuthInv, TypeOK, ScheduleInv, ExpiryInv, Consistent, InFlight,
              ScheduledRefreshIsDue, OneCall, Usable
<1> QED
  BY <1>1, <1>2, <1>3, <1>4, ParseAuthStep, RefreshStartsStep, CursorAnswersStep,
     RefreshReturnsStep, EditPolicyStep DEF Next, RefreshStep

LEMMA AuthInvariance == Spec => []AuthInv
  BY AuthInit, AuthStep, PTL DEF Spec

(* Among others, Cursor is only asked about an account that has a refresh  *)
(* token (RefreshAuth's guard), and accepts none it has not issued.        *)
THEOREM RefreshTypeCorrect == Spec => []TypeOK
<1>1. AuthInv => TypeOK
  BY DEF AuthInv
<1> QED
  BY <1>1, AuthInvariance, PTL

(* A refresh called when the plugin itself asked for it does ask Cursor:   *)
(* refreshAfter and ShouldRefresh agree at their boundary, whatever loads, *)
(* edits and overtaking calls came between.                                *)
THEOREM ScheduleIsDue == Spec => []ScheduledRefreshIsDue
<1>1. AuthInv => ScheduledRefreshIsDue
  BY DEF AuthInv
<1> QED
  BY <1>1, AuthInvariance, PTL

(* The expiry shown for an account is that of the token stored beside it,  *)
(* although RefreshAuth and authData fill it in at different places.       *)
THEOREM ExpiryBelongsToToken == Spec => []ExpiryIsTheTokens
<1>1. AuthInv => ExpiryIsTheTokens
  BY DEF AuthInv, ExpiryInv, Consistent, ExpiryIsTheTokens
<1> QED
  BY <1>1, AuthInvariance, PTL

(* As long as no call of RefreshAuth overlaps another one or an edit and   *)
(* no answer is lost, the record stored keeps its policy, and it or the    *)
(* call about to return has a refresh token that Cursor accepts.           *)
THEOREM RecordIsKept == Spec => []RecordSurvives
<1>1. AuthInv => RecordSurvives
  BY DEF AuthInv, OneCall, Usable, RecordSurvives
<1> QED
  BY <1>1, AuthInvariance, PTL

=============================================================================
