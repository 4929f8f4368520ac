---------------------------- MODULE CursorErrors -----------------------------
(***************************************************************************)
(* cursorStatusError of internal/provider/errors.go: the classification of *)
(* an error body, or of a Connect end-of-stream error, into the HTTP       *)
(* status and the retryability that retryTransient and the host act on.    *)
(* The loop over the error's details is taken one detail per step.         *)
(*                                                                         *)
(* Messages and their texts are left out; the code is one of the few that  *)
(* decide anything, and a detail keeps its retry hint, what kind of error  *)
(* it names, the provider status it carries and the reset date in its      *)
(* text, in days from now.                                                 *)
(***************************************************************************)
EXTENDS Integers, Sequences

CONSTANTS
    Codes,          \* Connect error codes the upstream uses
    Details,        \* the details an error may carry
    MaxDetails,     \* model bound: details of one error
    Fallbacks       \* HTTP statuses the error arrives with

NoReset == 0

DetailType == [hint    : {"none", "yes", "no"},
               kind    : {"provider", "network", "other"},
               code    : Int,    \* providerStatusCode, 0 when absent or not a number
               reset   : Int]    \* days to the reset date in the text, NoReset when none

ASSUME CursorErrorsAssumption ==
    /\ Details \subseteq DetailType
    /\ Codes \subseteq STRING
    /\ MaxDetails \in Nat
    /\ Fallbacks \subseteq Nat

VARIABLES
    code, details, fallback,            \* the input
    next,                               \* the detail the loop looks at
    retryable, retryabilitySet, upstream, providerStatus, resetAt,
    result                              \* the StatusError, or NoResult

errorVars == <<code, details, fallback, next, retryable, retryabilitySet, upstream,
               providerStatus, resetAt, result>>

NoResult == [status |-> 0, retryable |-> FALSE, retryAfter |-> 0]

-----------------------------------------------------------------------------
(* isTransientHTTPStatus *)
IsTransientHTTPStatus(status) == status \in {408, 500, 502, 503, 504}

(* Mutated form: any number is taken. *)
ParseAnyStatus(raw) == raw

(* parseProviderStatus: anything outside the error range counts as absent. *)
ParseProviderStatus(raw) == IF raw \in 400..599 THEN raw ELSE 0

Init ==
    /\ code \in Codes /\ fallback \in Fallbacks
    /\ details \in UNION {[1..n -> Details] : n \in 0..MaxDetails}
    /\ next = 1
    /\ retryable = FALSE /\ retryabilitySet = FALSE
    /\ upstream = "none" /\ providerStatus = 0 /\ resetAt = NoReset
    /\ result = NoResult

(* Mutated form: the last hint wins. *)
LastHintWins(hint) == hint = "yes"

(* The retryability after one more hint: a refusal overrides what was said *)
(* before and is not overridden by what comes after.                       *)
RetryableAfter(hint) ==
    IF ~retryabilitySet \/ hint = "no" THEN hint = "yes" ELSE retryable

(* One turn of the loop.  A refusal of retries wins over any other hint;   *)
(* the last provider error, its last valid status and the last date stay.  *)
ReadDetail ==
    /\ next <= Len(details)
    /\ next' = next + 1
    /\ LET detail == details[next] IN
       /\ IF detail.hint # "none"
          THEN /\ retryabilitySet' = TRUE
               /\ retryable' = RetryableAfter(detail.hint)
          ELSE UNCHANGED <<retryable, retryabilitySet>>
       /\ IF detail.kind \in {"provider", "network"}
          THEN /\ upstream' = detail.kind
               /\ providerStatus' = IF ParseProviderStatus(detail.code) # 0
                                    THEN ParseProviderStatus(detail.code) ELSE providerStatus
          ELSE UNCHANGED <<upstream, providerStatus>>
       /\ resetAt' = IF detail.reset # NoReset THEN detail.reset ELSE resetAt
    /\ UNCHANGED <<code, details, fallback, result>>

(* Mutated form: the code decides before the provider error does. *)
StatusByCodeFirst ==
    IF code = "resource_exhausted" THEN 429
    ELSE IF upstream # "none"
    THEN IF providerStatus = 429 \/ providerStatus >= 500 THEN providerStatus ELSE 502
    ELSE fallback

(* The status: the fallback, unless the code or a provider error decides.  *)
Status ==
    IF upstream # "none"
    THEN IF providerStatus = 429 \/ providerStatus >= 500 THEN providerStatus ELSE 502
    ELSE IF code = "resource_exhausted" THEN 429
    ELSE IF fallback = 0 THEN 502 ELSE fallback

Classify ==
    /\ next > Len(details) /\ result = NoResult
    /\ result' = [status     |-> Status,
                  retryable  |-> IF retryabilitySet THEN retryable ELSE IsTransientHTTPStatus(Status),
                  retryAfter |-> IF Status = 429 /\ resetAt > 0 THEN resetAt ELSE 0]
    /\ UNCHANGED <<code, details, fallback, next, retryable, retryabilitySet, upstream,
                   providerStatus, resetAt>>

Next == ReadDetail \/ Classify

Spec == Init /\ [][Next]_errorVars

(* isTransientCursorError on the result: whether the attempt is repeated. *)
Retried == result.retryable /\ IsTransientHTTPStatus(result.status)

Done == result # NoResult

-----------------------------------------------------------------------------
Wrapped  == {i \in 1..Len(details) : details[i].kind \in {"provider", "network"}}
Reported == {i \in Wrapped : details[i].code \in 400..599}
LastOf(S) == CHOOSE i \in S : \A j \in S : j <= i
ProviderSaid == IF Reported = {} THEN 0 ELSE details[LastOf(Reported)].code

(* Type invariant: the status is the one the error arrived with or one of  *)
(* an HTTP error, whatever number a provider reported.                     *)
TypeOK ==
    /\ next \in 1..Len(details) + 1
    /\ retryable \in BOOLEAN /\ retryabilitySet \in BOOLEAN
    /\ upstream \in {"none", "provider", "network"}
    /\ providerStatus \in {0} \cup 400..599
    /\ result \in [status : {0} \cup Fallbacks \cup 400..599, retryable : BOOLEAN, retryAfter : Nat]

(* An explicit refusal anywhere among the details means no retry, in       *)
(* whatever order the hints come; with no refusal, an explicit permission  *)
(* retries a gateway status; with no hint at all the status decides.       *)
RefusalWins ==
    Done =>
        LET said(hint) == \E i \in 1..Len(details) : details[i].hint = hint
        IN  Retried <=> /\ ~said("no") /\ IsTransientHTTPStatus(result.status)

(* The host's quota cooldown is triggered by a genuine 429 only: a         *)
(* provider or network failure wrapped in resource_exhausted is a gateway  *)
(* error unless the last status the provider reported is 429, and an error *)
(* that is not wrapped is a quota error by its code or its own status.     *)
(* And it is never retried, so that the cooldown does start.               *)
QuotaOnlyWhenGenuine ==
    Done => /\ (result.status = 429 <=>
                   IF Wrapped # {} THEN ProviderSaid = 429
                   ELSE code = "resource_exhausted" \/ fallback = 429)
            /\ result.status = 429 => ~Retried

(* README: "Authentication, permission, model-support, and quota failures  *)
(* are never retried by this mechanism".                                   *)
AuthFailuresAreNotRetried ==
    Done /\ code \in {"unauthenticated", "permission_denied"} /\ Wrapped = {} => ~Retried

=============================================================================
