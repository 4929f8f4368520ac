-------------------------- MODULE CursorErrorsProofs ---------------------------
(***************************************************************************)
(* cursorStatusError, for errors of any number of details with any hints,  *)
(* kinds, codes and dates: what the loop computes is what was said, and    *)
(* the result follows from it.                                             *)
(***************************************************************************)
EXTENDS CursorErrors, TLAPS, SequenceTheorems

(* The details the loop has looked at. *)
Read == {i \in 1..Len(details) : i < next}

Said(hint) == \E i \in Read : details[i].hint = hint

(* The loop's variables say what the details read so far said. *)
HintsInv ==
    /\ retryabilitySet <=> (Said("yes") \/ Said("no"))
    /\ retryable <=> (retryabilitySet /\ ~ Said("no"))

UpstreamInv ==
    /\ upstream = "none" <=> Wrapped \cap Read = {}
    /\ \/ providerStatus = 0 /\ Reported \cap Read = {}
       \/ \E i \in Reported \cap Read :
             /\ providerStatus = details[i].code
             /\ \A j \in Reported \cap Read : j <= i

(* The result is made once, when all details have been read. *)
ResultInv ==
    Done => /\ next = Len(details) + 1
            /\ result.status = Status
            /\ result.retryable = IF retryabilitySet THEN retryable ELSE IsTransientHTTPStatus(Status)

ErrorsInv ==
    /\ details \in Seq(DetailType) /\ fallback \in Fallbacks /\ resetAt \in Int
    /\ TypeOK /\ HintsInv /\ UpstreamInv /\ ResultInv

-----------------------------------------------------------------------------
LEMMA InputDetails == Init => details \in Seq(DetailType)
<1> SUFFICES ASSUME Init PROVE details \in Seq(DetailType)
  OBVIOUS
<1>1. PICK n \in 0..MaxDetails : details \in [1..n -> Details]
  BY DEF Init
<1>2. n \in Nat /\ details \in [1..n -> DetailType]
  BY <1>1, CursorErrorsAssumption
<1> QED
  BY <1>2, SeqDef

LEMMA StatusRange ==
    ASSUME TypeOK, fallback \in Fallbacks
    PROVE  Status \in (Fallbacks \cup 400..599) \ {0}
<1>1. providerStatus \in {0} \cup 400..599 /\ Fallbacks \subseteq Nat
  BY CursorErrorsAssumption DEF TypeOK
<1> QED
  BY <1>1 DEF Status

LEMMA ErrorsInit == Init => ErrorsInv
<1> SUFFICES ASSUME Init PROVE ErrorsInv
  OBVIOUS
<1>1. details \in Seq(DetailType) /\ Len(details) \in Nat
  BY InputDetails
<1>2. Read = {}
  BY <1>1 DEF Init, Read
<1>3. TypeOK
  <2>1. 1 \in 1..Len(details) + 1
    BY <1>1
  <2>2. NoResult \in [status : {0} \cup Fallbacks \cup 400..599, retryable : BOOLEAN, retryAfter : Nat]
    BY DEF NoResult
  <2> QED
    BY <2>1, <2>2 DEF Init, TypeOK
<1>4. HintsInv /\ UpstreamInv /\ ResultInv
  BY <1>2 DEF Init, HintsInv, Said, UpstreamInv, ResultInv, Done
<1> QED
  BY <1>1, <1>3, <1>4 DEF Init, ErrorsInv, NoReset

LEMMA ReadDetailStep ==
    ASSUME ErrorsInv, ReadDetail
    PROVE  ErrorsInv'
<1> USE DEF ErrorsInv
<1> DEFINE detail == details[next]
<1>1. /\ next \in 1..Len(details) /\ next' = next + 1 /\ Len(details) \in Nat
      /\ UNCHANGED <<code, details, fallback, result>>
      /\ detail \in DetailType
  BY DEF ReadDetail, TypeOK
<1>2. Read' = Read \cup {next} /\ next \notin Read /\ \A i \in Read : i < next
  BY <1>1 DEF Read
<1>3. /\ resetAt' \in Int /\ ~ Done
  <2>1. ~ Done
    BY <1>1 DEF ResultInv
  <2>2. resetAt' \in Int
    BY <1>1 DEF ReadDetail, DetailType
  <2> QED
    BY <2>1, <2>2
<1>4. /\ retryabilitySet' = (retryabilitySet \/ detail.hint # "none")
      /\ retryable' = IF detail.hint # "none" THEN RetryableAfter(detail.hint) ELSE retryable
  BY DEF ReadDetail, TypeOK
<1>5. detail.hint \in {"none", "yes", "no"}
  BY <1>1 DEF DetailType
<1>6. HintsInv' /\ retryable' \in BOOLEAN /\ retryabilitySet' \in BOOLEAN
  <2>1. \A hint : Said(hint)' <=> (Said(hint) \/ detail.hint = hint)
    BY <1>1, <1>2 DEF Said
  <2>2. retryable \in BOOLEAN /\ retryabilitySet \in BOOLEAN
    BY DEF TypeOK
  <2> HIDE DEF detail
  <2>3. CASE detail.hint = "none"
    BY <1>4, <2>1, <2>2, <2>3 DEF HintsInv
  <2>4. CASE detail.hint = "yes"
    BY <1>4, <2>1, <2>2, <2>4 DEF HintsInv, RetryableAfter
  <2>5. CASE detail.hint = "no"
    BY <1>4, <2>1, <2>2, <2>5 DEF HintsInv, RetryableAfter
  <2> QED
    BY <1>5, <2>3, <2>4, <2>5
<1>7. /\ upstream' = IF next \in Wrapped THEN detail.kind ELSE upstream
      /\ providerStatus' = IF next \in Reported THEN detail.code ELSE providerStatus
  <2>1. next \in Wrapped <=> detail.kind \in {"provider", "network"}
    BY <1>1 DEF Wrapped
  <2>2. next \in Reported <=> next \in Wrapped /\ detail.code \in 400..599
    BY <1>1 DEF Reported, Wrapped
  <2>3. ParseProviderStatus(detail.code) = IF detail.code \in 400..599 THEN detail.code ELSE 0
    BY DEF ParseProviderStatus
  <2>4. /\ upstream' = IF detail.kind \in {"provider", "network"} THEN detail.kind ELSE upstream
        /\ providerStatus' = IF /\ detail.kind \in {"provider", "network"}
                                /\ ParseProviderStatus(detail.code) # 0
                             THEN ParseProviderStatus(detail.code) ELSE providerStatus
    BY DEF ReadDetail
  <2>5. \A k \in 400..599 : k # 0
    OBVIOUS
  <2> HIDE DEF detail
  <2> QED
    BY <2>1, <2>2, <2>3, <2>4, <2>5
<1>8. Wrapped' = Wrapped /\ Reported' = Reported
  BY <1>1 DEF Wrapped, Reported
<1>9. UpstreamInv'
  <2>1. (upstream = "none" <=> Wrapped \cap Read = {})'
    BY <1>2, <1>7, <1>8 DEF UpstreamInv, Wrapped
  <2>2. CASE next \in Reported
    BY <1>1, <1>2, <1>7, <1>8, <2>1, <2>2 DEF UpstreamInv, Read
  <2>3. CASE next \notin Reported
    <3>1. (Reported \cap Read)' = Reported \cap Read
      BY <1>2, <1>8, <2>3
    <3> QED
      BY <1>1, <1>7, <2>1, <2>3, <3>1 DEF UpstreamInv
  <2> QED
    BY <2>2, <2>3
<1>10. TypeOK'
  <2>1. upstream' \in {"none", "provider", "network"} /\ providerStatus' \in {0} \cup 400..599
    BY <1>7 DEF TypeOK, Wrapped, Reported
  <2>2. next' \in 1..Len(details)' + 1
    BY <1>1
  <2> QED
    BY <1>1, <1>6, <2>1, <2>2 DEF TypeOK
<1>11. ResultInv'
  BY <1>1, <1>3 DEF ResultInv, Done
<1> QED
  BY <1>1, <1>3, <1>6, <1>9, <1>10, <1>11

LEMMA ClassifyStep ==
    ASSUME ErrorsInv, Classify
    PROVE  ErrorsInv'
<1> USE DEF ErrorsInv
<1>1. /\ UNCHANGED <<code, details, fallback, next, retryable, retryabilitySet, upstream,
                     providerStatus, resetAt>>
      /\ next > Len(details)
      /\ result' = [status     |-> Status,
                    retryable  |-> IF retryabilitySet THEN retryable ELSE IsTransientHTTPStatus(Status),
                    retryAfter |-> IF Status = 429 /\ resetAt > 0 THEN resetAt ELSE 0]
  BY DEF Classify
<1>2. HintsInv' /\ UpstreamInv' /\ Status' = Status
  BY <1>1 DEF HintsInv, Said, UpstreamInv, Read, Wrapped, Reported, Status
<1>3. Status \in (Fallbacks \cup 400..599) \ {0}
  BY StatusRange
<1>4. TypeOK'
  <2>1. IsTransientHTTPStatus(Status) \in BOOLEAN
    BY DEF IsTransientHTTPStatus
  <2>2. (IF Status = 429 /\ resetAt > 0 THEN resetAt ELSE 0) \in Nat
    OBVIOUS
  <2> QED
    BY <1>1, <1>3, <2>1, <2>2 DEF TypeOK
<1>5. ResultInv'
  <2>1. next = Len(details) + 1
    BY <1>1 DEF TypeOK
  <2> QED
    BY <1>1, <1>2, <2>1 DEF ResultInv
<1> QED
  BY <1>1, <1>2, <1>4, <1>5

LEMMA ErrorsStep == ErrorsInv /\ [Next]_errorVars => ErrorsInv'
<1> SUFFICES ASSUME ErrorsInv, [Next]_errorVars PROVE ErrorsInv'
  OBVIOUS
<1>1. CASE UNCHANGED errorVars
  <2>1. TypeOK' /\ (details \in Seq(DetailType) /\ fallback \in Fallbacks /\ resetAt \in Int)'
    BY <1>1 DEF errorVars, ErrorsInv, TypeOK
  <2>2. HintsInv'
    BY <1>1 DEF errorVars, ErrorsInv, HintsInv, Said, Read
  <2>4. UpstreamInv'
    <3>1. Read' = Read /\ Wrapped' = Wrapped /\ Reported' = Reported
      BY <1>1 DEF errorVars, Read, Wrapped, Reported
    <3> QED
      BY <1>1, <3>1 DEF errorVars, ErrorsInv, UpstreamInv
  <2>3. ResultInv'
    BY <1>1 DEF errorVars, ErrorsInv, ResultInv, Done, Status
  <2> QED
    BY <2>1, <2>2, <2>3, <2>4 DEF ErrorsInv
<1> QED
  BY <1>1, ReadDetailStep, ClassifyStep DEF Next

LEMMA ErrorsInvariance == Spec => []ErrorsInv
  BY ErrorsInit, ErrorsStep, PTL DEF Spec

-----------------------------------------------------------------------------
(* The status is an HTTP error or the one the error arrived with, whatever *)
(* numbers a provider put into the details (parseProviderStatus).          *)
THEOREM ErrorTypeCorrect == Spec => []TypeOK
<1>1. ErrorsInv => TypeOK
  BY DEF ErrorsInv
<1> QED
  BY <1>1, ErrorsInvariance, PTL

(* One refusal of retries among any number of details settles it, wherever *)
(* it stands (the isRetryable hints of cursorStatusError).                 *)
THEOREM RefusalAlwaysWins == Spec => []RefusalWins
<1>1. ASSUME ErrorsInv PROVE RefusalWins
  <2> SUFFICES ASSUME Done PROVE
        Retried <=> /\ ~ (\E i \in 1..Len(details) : details[i].hint = "no")
                    /\ IsTransientHTTPStatus(result.status)
    BY DEF RefusalWins
  <2>1. Read = 1..Len(details)
    BY <1>1 DEF ErrorsInv, ResultInv, Read
  <2>2. /\ result.status = Status
        /\ result.retryable = IF retryabilitySet THEN retryable ELSE IsTransientHTTPStatus(Status)
    BY <1>1 DEF ErrorsInv, ResultInv
  <2>3. /\ retryable <=> (retryabilitySet /\ ~ Said("no"))
        /\ Said("no") => retryabilitySet
    BY <1>1 DEF ErrorsInv, HintsInv
  <2>4. Said("no") <=> \E i \in 1..Len(details) : details[i].hint = "no"
    BY <2>1 DEF Said
  <2> QED
    BY <2>2, <2>3, <2>4 DEF Retried
<1> QED
  BY <1>1, ErrorsInvariance, PTL

(* The host's quota cooldown starts for a 429 that somebody did report and *)
(* for no failure that Cursor merely wrapped in resource_exhausted; and    *)
(* such an error is not retried (cursorStatusError's status).              *)
THEOREM QuotaIsGenuine == Spec => []QuotaOnlyWhenGenuine
<1>1. ASSUME ErrorsInv PROVE QuotaOnlyWhenGenuine
  <2> SUFFICES ASSUME Done PROVE
        /\ result.status = 429 <=> IF Wrapped # {} THEN ProviderSaid = 429
                                   ELSE code = "resource_exhausted" \/ fallback = 429
        /\ result.status = 429 => ~ Retried
    BY DEF QuotaOnlyWhenGenuine
  <2>1. Read = 1..Len(details)
    BY <1>1 DEF ErrorsInv, ResultInv, Read
  <2>2. Wrapped \cap Read = Wrapped /\ Reported \cap Read = Reported /\ Reported \subseteq Int
    BY <2>1 DEF Wrapped, Reported
  <2>3. (upstream = "none" <=> Wrapped = {}) /\ providerStatus = ProviderSaid
    <3>1. upstream = "none" <=> Wrapped = {}
      BY <1>1, <2>2 DEF ErrorsInv, UpstreamInv
    <3>2. CASE providerStatus = 0 /\ Reported = {}
      BY <3>1, <3>2 DEF ProviderSaid
    <3>3. CASE \E i \in Reported : /\ providerStatus = details[i].code
                                   /\ \A j \in Reported : j <= i
      <4>1. PICK i \in Reported : providerStatus = details[i].code /\ \A j \in Reported : j <= i
        BY <3>3
      <4>2. LastOf(Reported) = i
        <5>1. \A k \in Reported : (\A j \in Reported : j <= k) => k = i
          BY <2>2, <4>1
        <5> QED
          BY <4>1, <5>1 DEF LastOf
      <4> QED
        BY <3>1, <4>1, <4>2 DEF ProviderSaid
    <3> QED
      BY <1>1, <2>2, <3>2, <3>3 DEF ErrorsInv, UpstreamInv
  <2>4. result.status = Status
    BY <1>1 DEF ErrorsInv, ResultInv
  <2>5. Status = 429 <=> IF Wrapped # {} THEN ProviderSaid = 429
                         ELSE code = "resource_exhausted" \/ fallback = 429
    BY <2>3 DEF Status
  <2>6. result.status = 429 => ~ Retried
    BY DEF Retried, IsTransientHTTPStatus
  <2> QED
    BY <2>4, <2>5, <2>6
<1> QED
  BY <1>1, ErrorsInvariance, PTL

=============================================================================
