# Verification of the Cursor provider plugin

TLA+ models, TLC configurations and TLAPS proofs for the CLIProxyAPI plugin in
this repository: a shared library that lets a proxy (the *host*) serve OpenAI-
and Claude-style requests from Cursor subscriptions. Everything here is
translated from the Go code; paths are relative to `src/`.

## The system

The host calls the plugin through a C function (`cmd/.../main.go`), one call per
method; `dispatch.go` decodes it and calls the `Service` of `internal/provider`.
The plugin calls back into the host to emit and close streams, to log, and to
read auth files. Calls run concurrently; the `Service` is shared by all of them.

| component | state it keeps | operations | interacts by |
|---|---|---|---|
| Cursor turn (`session.go`) | per turn: context, request pipe, response, channel of 32 events, blobs | `runTurn`, its transport goroutine, its reader goroutine | HTTP/2 with Cursor; the channel with the executor |
| executor (`executor.go`, `dispatch.go`) | per request: attempt, buffered events, stream state | `Execute`, `PrepareStream`, `Pump`, `retryTransient` | turns; the host's stream callbacks from a goroutine |
| error classification (`errors.go`) | none | `cursorStatusError`, `isTransientHTTPStatus` | called by turns and the catalog; read by the retry loop and the host |
| catalog cache (`models.go`, `service.go`) | `modelCache` under `modelMu`, `config` under `configMu` | `discoverModels`, `Configure`, `Shutdown` | Cursor's catalog; account storage from the host |
| browser login (`login.go`, `auth.go`) | `logins` under `loginMu` | `StartLogin`, `PollLogin`, `Shutdown` | Cursor's poll endpoint; auth files written by the host |
| auth records (`auth.go`) | none; the host stores the record | `ParseAuth`, `RefreshAuth` | Cursor's token endpoint |
| model resolution (`models.go`, `model_catalog.go`) | none | `parameterizedModels`, `normalizedFamilies`, `resolveModel` | the catalog cache |
| translation (`translate.go`) | none; the caller keeps the transcript | `parseExecutorRequest`, `turnInput`, history | the executor; the caller's next request |
| tools and call IDs (`tools.go`, `tool_call_id.go`) | none | `parseTools`, `resolveToolIdentity`, the ID codec | translation; turns |
| stream frames, usage (`executor.go`, `usage.go`) | per stream: `streamState` | `frames`, `observe` | `Pump` |
| quota, management, host bridge (`quota.go`, `dispatch.go`, `main.go`) | the host's function table | reports, policy pages, the C ABI | the host |

What is hard in this code, with the line where it bites, is the list `hazards`
of `PROJECT.json`. In short: three goroutines per streamed request that share a
bounded channel, two contexts and a pipe; a decision (retry, refuse or commit)
that must be taken before anything reaches the client; errors classified far
from where they arise; a cache whose lock is not held during the fetch; a login
polled concurrently with its expiry; a conversation whose only memory is what the
caller sends back.

What makes each component correct:

* turn: one terminal event, last; every exit cancels and closes; it always ends;
* executor: nothing is delivered before the decision, everything after it, in
  order and once; success means complete; retries are justified and exclusive;
* errors: a refusal of retries wins; quota cooldown only for genuine 429s;
* cache: no entry older than the TTL in force, never empty, permitted models;
* login: an ended login stays ended; one file per account, one account per file;
* auth records: a refresh called on schedule is due; the refresh token kept is
  the valid one; expiry belongs to the token; edits survive;
* resolution: a slug keeps its default variant; what is listed can be had; a
  family serves the effort asked for, unless a model has its name, which then is
  what is served (disagreement 4);
* frames: a Responses client can follow the items; a stream adds up to the answer
  `Execute` would give, but for the empty message a Responses stream may begin with;
  the usage is the last report;
* translation: Cursor is told what was said, all of it, once and in order, however
  often the transcript goes back and forth, its arguments as far as the conversions of
  the formats carry them; results follow their calls; the newest
  instruction is the one to be answered;
* tools: a wire name stands for one tool; an ID comes back as Cursor gave it.

## Modules

**`Session`** (`session.go`) is the life of a turn. `caller` is where `runTurn`
is, `conn` the transport goroutine, `pipe`, `cancelled`, `reader` the reader
goroutine with the events it has yet to push (`outbox`); `sent` and `taken` are
the channel: all events ever pushed and how many were received, so its contents
are the difference. One action stands for each point at which another goroutine
can get between: writing the request, the response, each frame, each push, each
reply on the pipe, the deferred calls. A frame is its kind (`FrameKinds`); what
`handleServerMessage` and the reader loop make of it is `Produces`. A whole frame may
hold a broken gzip payload: `gunzipPayload` returns `io.EOF` or `io.ErrUnexpectedEOF`
for one that is empty or stops early (`cut_gzip`), which is retried like a body that
stops early, and errors of its own for a corrupt one (`bad_gzip`), which is final.
The library
(HTTP/2 client) is `Connect`, `DoFails`, `DoResponds`, `TransportClosesPipe`; it
may answer anything at any time. Of it we use one contract: when `Do` returns an
error the request body has been closed (`net/http.RoundTripper`). Without it the
write of the run request could block past the timeout.

**`Executor`** (`executor.go`, `dispatch.go`) extends it: turn *k* is attempt *k*
of one request. `phase` is the dispatch call, `pump` the goroutine of `Pump`, and
`reply` what the host got for the call. `mode` is `collect` for `Execute`, and
for `ExecuteStream` it tells the Responses format, in which thinking is
invisible, from Chat and Claude, in which it is not. `delivered` are the events
whose frames the host accepted. Retrying only adds a turn; nothing is shared
with earlier ones.

**`StreamPromise`** is what a request promises the host: one decision, then for a
stream ordered events, at most one of them terminal, then one end, which always
comes and is a success only after a terminal event. `Executor!ImplementsPromise`
is the refinement.

**`CursorErrors`** (`errors.go`) runs `cursorStatusError` one detail per step; its
properties define the outcome again without the loop.

**`ModelCache`** (`models.go`, `service.go`) has calls of `discoverModels` at each
point where they hold no lock. An entry carries a ghost field beside its
expiry: when Cursor answered.

**`Login`** (`login.go`, `auth.go`) has overlapping polls, a clock, an account per
approved login and the host's auth files as a function from names.

**`AuthRefresh`** (`auth.go`, `http_client.go`) is one account's record: calls of
`RefreshAuth` on copies of it, reloads, edits and Cursor's rotation of refresh
tokens. The host is external: it may call at any time, twice at once, and stores
the record it gets back. `raced` marks behaviours in which calls overlapped each
other or an edit, or an answer was lost after a rotation.

**`ModelCatalog`** (`model_catalog.go`, `models.go`) reads Cursor's catalog variant
by variant, sorts it and answers one request; IDs are sequences of words. What
`normalizedFamilies` builds is `Members`, `Levels` and `Variant`, what
`modelInfos` lists is `Listed`.

**`StreamFrames`** (`executor.go`, `usage.go`) is `streamState` under `Pump`: a
frame is its name, output index and content. `Payload` is what `collectTurn` and
`nonStreamingPayload` make of the same events. The two differ in one place, which
`StreamAndPayloadAgree` names: a stream of the Responses format announces its message
before anything was said, so that a turn of calls alone has them from index 1 on
(`tools_test.go:163`), while the answer in one piece drops a message without text and
thinking (`executor.go:301`) and has them from index 0 on (`tools_test.go:134`). Events are a superset of those of
`Session`: as in `executor_usage_test.go`, usage may follow a tool call or a report.
A varint that stops early is not among the fields of a report: `proto.Unmarshal` has
walked the message before `usageFromTurnEnded` reads it again.

**`CallerTools`** (`tools.go`, `tool_call_id.go`) holds no state: flattening the
caller's tree of tools, finding a tool again, and the codec for call IDs. A name is
the sequence of its parts between `__`, so that names that hold the separator
collide as they do in the code; an ID is the shape the regular expressions tell
apart (blank, plain, the pair with a newline, the legacy pair, prefixed).

**`Conversation`** (`translate.go`, with `handleServerMessage` and
`nonStreamingPayload` for the way back) carries a transcript through any number of
requests. The caller adds messages, agent tasks and results to `transcript` in the
form of its API; `Request` is `parseExecutorRequest`, whose outcome is a refusal or
`input`; Cursor speaks, calls a tool or calls one wrongly, and the answer becomes
items of the transcript. `spoken` is a history variable: who said what, in Cursor's
terms. Texts are sequences of numbered pieces; trimming is abstracted to pieces of
white space. Arguments of calls have a form (`Args`): `ParseArgumentValue` decodes JSON
into `any`, which rounds wide integers and wraps what does not parse, `StringValue`
trims the input of a custom tool, and `ItemArguments` keeps of a custom call only the
input. `Carried` sums these up as what a transcript can carry; nothing else may be lost.
An arguments field that is missing or blank is not among the forms. Codex names and namespaces, parallel calls another provider made, and
IDs of earlier versions come in through `ToolLists`, `ForeignCalls` and `CallIDs`.

Operators marked "Mutated form" are not part of any specification: each is a
plausible mistake in the operator that follows it, used to see that the property
named in `PROJECT.json` notices it.

`MC*` modules hold sets that a configuration file cannot express. The modules named
`*Proofs` hold theorems only, see below.

## Runs

| run | module | distinct states | what it shows |
|---|---|---|---|
| `executor` | Executor | 3.5 million | one retry, three modes, channel of 1, all 14 kinds of frame: the order and release of every attempt, and the safety of a request |
| `executor_live` | Executor | 119 thousand | two attempts, a stream longer than the channel, a caller that may give up: every request is answered, the stream is closed, its reader ends, `StreamPromise` is implemented |
| `cursor_errors` | MCCursorErrors | 86 thousand | every error of up to two details over the boundary statuses |
| `model_cache` | MCModelCache | 2.9 million | two calls of one account, a TTL of 2 and one of 0 (which caches nothing), a clock to 3 |
| `login` | MCLogin | 208 thousand | two logins, two polls, two accounts with subjects |
| `model_catalog` | MCModelCatalog | 62 thousand | every catalog of up to three variants of seven slugs, every request in every mode |
| `auth_refresh` | AuthRefresh | 1.4 million | two overlapping refreshes, three token lifetimes around the boundary, rotations, one edit |
| `stream_frames` | MCStreamFrames | 138 thousand | every sequence of up to four events in three formats, any frame refused |
| `conversation` | MCConversation | 1.3 million | transcripts of up to five items in three formats, four lists of tools, arguments of every form, IDs of five shapes: what Cursor is told against what was said |
| `truncated_collect`, `auth_failure`, `claude_history` | | | the disagreements 1 to 3 below |

`Session.cfg` checks a turn alone, with turns of up to four frames, a channel of 2 and
`TurnEnds`; it is not among the runs, since `executor` checks its invariants over
turns that are started, read and abandoned by a request.

Bounds. `MaxFrames` bounds a turn: the reader treats each frame alike, four frames
fill a channel of two and leave two blocked, and one frame may produce two events.
`ChanCap` is 32 in the code; with 1 or 2 the full channel, the only thing capacity
can change, is reached. `RetryCount` is 0 to 3 in the code; two attempts show a
retry and its predecessor, and two retries were checked once for `Answered`.
`MaxDetails` 2 gives every order of two hints. `MaxTime` exceeds the largest TTL
and login lifetime. In `AuthRefresh` the lead is 2 and the lifetimes 1, 3 and 4, so
that a token is due at once, at the boundary and past it; three refresh tokens give
two rotations. Three variants are a slug, its repetition and one more; the seven
slugs have a level before and behind `fast`, a level inside a base, a base that is
a slug and a slug in two cases. Four events are opening, two of a kind and the end.
In `Conversation` five items are a system message,
an instruction, a call, its result and one more; seven speeches bound what is said;
a request of more than `MaxRequestItems` items stands for a body that is too large
(the system prompt of Claude is the sixth), and a merged message of more than
`MaxMessageParts` parts for one that is. The four lists of tools are a plain and a
custom tool, one name in two nested namespaces, two names that collide over `__`, and
a namespace without a name. Deadlock is not checked: a request, a login, a
classification and a bounded conversation end.

Cursor's own IDs there are blank, a pair with a newline or one that looks encoded; a
plain one is what a blank one becomes, and the underscore pair comes with
`ForeignCalls`.

`Conversation` restricts its callers where real ones do: namespaces are declared in
the Responses format only, and the results of all calls are given before the next
request. `toolName` of a result is always overwritten by `cursorToolHistory`, so
`callNames` is left out.

Two configurations bind more than a bound does. `Login.cfg` gives every account a
subject; what happens without one is disagreement 7.
`Executor.cfg` leaves the caller's own cancellation to `ExecutorLive.cfg`, since
every turn's context may end at any time anyway.

Fairness. Goroutines that can run do; timers fire (`context.WithTimeout`, the
retry delay); once a context is done the library returns from `Do`, fails body
reads and closes the request body; the host's callbacks return. Nothing is assumed
of Cursor, of the user, of the host's requests, or of the host accepting frames.

Where the code falls short of a property, the property says so: `ReadersEnd`
excepts the reader whose consumer, `Pump`, gave up on a host that refused a frame
(`executor.go:216`) while the channel was full: it blocks for good.

### Disagreements with the documentation

1. `CollectedTurnIsComplete`: `collectTurn` answers a cut or timed-out turn with
   success; README line 17 promises a retry.
2. `AuthFailuresAreNotRetried`: an error in an end-of-stream frame falls back to 502
   whatever its code, and 502 is retried; README line 20.
3. `ClaudeToolsAreRemembered`: `contentText` drops the `tool_use` blocks of a Claude
   assistant message, and a `tool_result` becomes user text, or nothing if it holds
   blocks; README lines 9 and 10, and the comment at `tools.go:133`.

Seven more properties state what a document or a test says and do not hold. They have a
configuration each (`tlc -config X.cfg M`), but are not among the runs, since they
rest on the library or are of less weight:

4. `NormalizedFamiliesSelectTheEffort` (`ShadowedFamily.cfg`, `MCModelCatalog`): a
   model with the name of a family hides it, so the configured effort is never
   selected, or the listed family is refused; README line 40.
5. `TransportFailureIsRetried` (`TransportFailure.cfg`, `Executor`): a transport
   failure during the first write is reported as a closed pipe, which is not
   transient; README line 17, and the contract that `Do` closes the body.
6. `ServedModelsArePermitted` (`StalePolicy.cfg`, `MCModelCache`): the cache keeps a
   catalog filtered with rules the account no longer has; README line 38.
7. `SeparateAuthFiles` for opaque tokens (`OpaqueAccounts.cfg`, `MCLogin`): equal or
   missing labels make two accounts share a file; `docs/deploy-linux.md` line 96.
8. `ThinkingIsInTheTerminalEvent` (`DroppedThinking.cfg`, `MCStreamFrames`): the
   thinking kept for the terminal event of a Responses stream is never read; the
   comment at `executor.go:409`.
9. `OpaqueTasksAreRejected` (`OpaqueTask.cfg`, `MCConversation`): an encrypted task
   that is not the newest instruction is dropped; the comment at `translate.go:224`.
10. `RawInputIsKept` (`RawInput.cfg`, `MCConversation`): the input of a custom call is
   trimmed on its way to Cursor (`translate.go:146`, `:345`); the name of
   `TestResponsesToolHistoryKeepsNamespaceAndRawInput`, `tools_test.go:173`.

## Proofs

The theorems hold for every value of the constants that meets the assumption beside
them in the module: for turns and requests a positive channel capacity, a natural
frame bound and number of retries, one turn per attempt, known frame kinds; for the
cache and logins that there is an account, or a login; for the others that bounds,
times and counts are natural numbers, that an ID is a list of known words
(`ModelCatalogAssumption`), that a detail of an error has the fields of one, that a
report of usage is a list of fields, and of conversations (`ConversationAssumption`) that
lists of tools are lists and a tool's name a sequence of its parts, that callers send
IDs their API accepts, and that a call made before the plugin came in has one of the IDs
`restoreToolCallID` is written for (`HeldFor`): as it was made, by Cursor or by another
provider, unless it looks encoded or like a pair; encoded; or the underscore pair of
versions through 0.1.12.

**Turns** (`ExecutorProofs`, first part). That a terminal event is last depends
on what the reader still holds: `OutboxOK` says it holds events exactly while it
pushes and that only the last of them is terminal (`ProducesWellFormed` shows that
each frame yields such a list). It also needs `TurnOpens` not to restart a reader,
which is `ReaderAfterOpen`. `SessionInv` is the conjunction; actions that touch
neither the outbox nor the channel share `QuietStep`. `CallInv` says where the
terminal event of a tool call is: in the channel behind it, or alone in the outbox.

**Attempts are turns** (`ExecutorProofs`). `StepOfSession`: every step of a
request is a step of `SessionNext` or leaves the turns alone. So `Spec => SessionSpec`
(`AttemptsAreTurns`), and what is proved of turns holds of attempts.

**What a request delivers** (`ExecutorProofs`). `BoundaryInv` relates `phase`, `reply`
and `pump`, and gives `FailoverIsSafe`. `LetGo` says of every
earlier attempt that its context is cancelled or its reader about to cancel it, which
no later step undoes (`OneTurnAtATime`). `DeliveryInv` is the argument of the seam: while
anybody consumes an attempt, `delivered` followed by `pending` are the first
`taken[attempt]` of its events. It is inductive because a turn only ever appends
(`SentGrows`); with `SuccessInv` and the turn's own order it gives `EventsArriveInOrder`
and `SuccessfulStreamsAreWhole`.

**Why** (`ExecutorProofs`). `JustifiedInv` says why each earlier attempt ended, in terms
that stay true (`JustifiedForGood`): the error it failed with, its terminal event, or
a reader that is gone for good without one. What may be repeated includes a payload
that stopped early inside gzip, because the code cannot tell its `io.ErrUnexpectedEOF`
from that of a cut body. `TurnErrors` says that no turn makes the
error `prepareEventStream` makes of a silent one. `CommitInv` says of a committed
stream that it has shown something, or is about to from the buffer, or is about to
end well: this gives `LateErrorsAreLate`.

**The promise** (`ExecutorProofs`). `PromiseIsKept`: under the mapping of
`Executor!Promise` the initial states map to the initial state of `StreamPromise` and
each step to one of its steps or to a stutter. `HostInv` adds that a call is answered
once and that a stream that goes on has delivered no terminal event.

**Errors** (`CursorErrorsProofs`). The loop of `cursorStatusError` is summed up over the
details read so far: `HintsInv` says what the two retry flags say of them, `UpstreamInv`
that the provider status is the last one reported and that a wrapper without one shows
in `upstream`; `ResultInv` carries both past the end of the loop.

**The cache** (`ModelCacheProofs`). `TTLInForce` needs to know of a fetch under way
only that its clock was read before Cursor answered (`FetchesTakeTime`): then the
entry it stores keeps to the TTL it finds, and `Configure`, which sets the TTL before
it clears, leaves no entry of the old one.

**Logins** (`LoginProofs`). `SessionsEnd` says that only a login that was started and
has not ended has a session; `PollOK` that a poll which has asked Cursor came in time,
and that the approval it was told of still stands. The two theorems about files have a
hypothesis: every account has a subject (`EveryAccountNamed`), as Cursor's JWTs give it,
and, for the second, one of its own (`SubjectsDiffer`). Then each file holds the account
it is named after (`FilesNamed`). Without a subject both properties fail, which is
disagreement 7; that is why the hypotheses are part of the theorems.

**Auth records** (`AuthRefreshProofs`). `ScheduleInv`: the host is never told to come
back before the stored token is due, whichever call stored it last. `ExpiryInv`: not
only the record but every copy in flight states the expiry of its own token. `OneCall`
is what holds as long as nothing raced: one call at a time, a copy with the newest
policy, and a usable refresh token in the record or in the hands of the one call that
is about to return. `AuthInv` is the conjunction.

**Model families** (`ModelCatalogProofs`). `CatalogInv` says of the catalog as far as it
is read that every slug offered is one model (`SlugsUnique`, `SlugsKept`) with the
parameters of a variant of that slug, a default one if there was one
(`SelectionKept`). What a request gets is settled by the step that resolves it: a family
has one variant for each of its levels (`VariantHasEffort`), its default effort is one
of them, because `defaultEffortOrder` names every level there is
(`DefaultEffortIsALevel`), and names that differ in case only have the same suffix
(`SameFold`). `EffortIsHonoured` speaks of both kinds of names: one that a model has is
served by that model, whatever the effort, even if a family of the same name was listed
(disagreement 4); any other is served by the variant of its family with the effort asked
for, or the configured one, or the first of the default order.

**Frames** (`StreamFramesProofs`). `LifeInv`: what a Responses client has got is in order
(`Ordered`) and, if it ends with the final event, complete (`Completed`); and while the
stream is open it is `Underway`: the message was added at index 0 and is not done, each
call kept so far is an item that is done at its own index, and the text kept is what the
deltas said. The last is what makes it inductive: the final event is made of what was
kept, its promise is about what was sent. `EmitGrows` splits what
`Emit` sends into a stream under way, the opening if it is still due, and the frames of
the event; one lemma for each kind of event says what these add (`TextGrows`,
`CallGrows`, `DoneGrows`), and `BeginningOfLife` that a host which stops accepting is
left with a beginning of such a stream. `LifeInv` was checked by TLC with up to five
events before it was proved.

`UsageInv` gives `UsageIsFinal`: the usage kept is that of the last report among the
events and, as long as there is none, zeroes with the sum of the deltas as the output
(`Kept`), and a stream that ended has said what was kept (`LastEmitted`: the terminal
frame is the last of those sent). `KeptObserves` is the step of `tokenUsage.observe`; a
report without a known field counts as none. `ReportCounts` is the induction over the
fields of a report, `SumGrows` that over the events summed; both start from `Recursion`,
that a recursive function exists whatever its steps. TLC checked `UsageInv` with the
constants of `StreamFrames.cfg` before it was proved.

`AgreeInv` gives `StreamAndPayloadAgree`: up to each event, and as long as the host
accepts all, the text and thinking that were sent are those of the events, each call was
sent at its index, and the usage kept is what `collectTurn` would have observed. For a
Responses stream the output items are compared, those sent one by one and those of the
final event, with the items of `Payload`, an empty message put first where it is due. `At` takes the
elements of a sequence at given positions, on both sides, and `AtGrows` says what a
longer sequence adds to it; `EmitsPieces` that what `Emit` adds under a name is only the
last frame of the event, whatever else the opening and the event send. `AgreeInv` was
checked by TLC with up to five events before it was proved.

**Conversations** (`ConversationProofs`). For every list of tools that is accepted, wire
names are unique and the identity found under one is the declared tool's; every ID that
is not empty comes back from the caller as it was, and is safe while it is there.
`CallsInv` carries this through a conversation of any length: while Cursor speaks the
list has been accepted, and every call an item holds, a `tool_use` block of Claude
included, is named after a forwarded tool.
It speaks of sequences of items of several shapes, which TLC cannot enumerate, so it was
not checked by a run. `TalkInv` and `HistoryHoldsSomething` give `TypeOK`: no record of an
item is empty (`ItemRecords`), and flattening and merging keep it so.

`ResultsFollowCalls` is about the history, which is merged anew from the whole transcript
each turn. `Owing(history, owed)` says that every message of results answers the message
of calls before it, and every message of calls is followed by its results, but for
`owed`, the calls of the last message. `OwingAppends` and `OwingJoins` say what one more record
does to such a history, whether it stays apart or is merged into the last one; `OwedInv` is
`Owing` for the transcript with the calls the caller has not answered, which makes it
inductive: an answer may come in several items, one call at a time, and each leaves fewer
owed. Cursor is asked when nothing is owed (`NothingOwed`), and a prompt taken off the end
leaves it so (`ActiveOwesNothing`). The calls of Claude callers never reach the
history, so that nothing is owed there. `OwedInv` was checked by TLC with the
constants of `Conversation.cfg` before it was proved.

`HistoryIsFaithful` and `NewestInstructionIsTold` compare what the merged history says
with all that was said. The history is made anew from the transcript for each request, so
what is inductive is a statement about the transcript. `FaithInv`: the items of the
conversation, translated, would say what was said (`Agrees`, which leaves open only what
the property leaves open: white space, what `Carried` says of arguments, and the places
of a remark and the calls beside it); the newest instruction in the transcript, if it can be read, is the last that was
told (`Heeded`); no instruction reads like the request to continue (`Worded`); and the
calls a caller has to answer hold IDs that `restoreToolCallID` turns back into Cursor's
(`Restored`). Two things then carry the argument. `TurnTellsAll`: an accepted turn tells
all its items say, whether the newest instruction is taken off the history as the prompt
or the continuation prompt is put in. `Tells`, for items of each kind: what an item adds
to the history does not depend on what stands before it, because merging joins parts of
one role in order (`VoiceAppend`); so one lemma for each item a caller's format has
(`ChatTells`, `ResponseTells`, `ClaudeTells`, `ToolItemTells`, `SystemCarries`,
`UserCarries`, `TaskCarries`, `SealedCarries`, `ResultCarries`) and one for each action
(the lemmas named `...IsFaithful`) suffice. `Carried` is reached in two ways, by
`ParsedIsCarried` for the calls of a chat message and by `ItemIsCarried` for an item of
the Responses format, which is converted both ways. A Claude conversation that holds a call is
left out of the invariant as it is left out of the properties (`NoToolsInClaude`): that
is the disagreement `ClaudeToolsAreRemembered` shows. TLC checked `FaithInv` with the
constants of `Conversation.cfg` before it was proved. The filters of both properties are
written with `Kept`, the members of a sequence at given positions, because the prover
cannot unfold `SelectSeq`.

`merge` and `flatten` are recursive functions. Induction over them is done with sets:
`LeastNumber`, from the library's well-foundedness of the naturals, gives a least
counterexample, and `Positions` the induction over the positions of a sequence; the
function itself exists up to each position for the same reason (`Reached` in
`MergeFold`).

Every invariant and every action property of the passing runs, and the safety part of
the promise, is thus a theorem (those about login files under the hypotheses named
above). Model-checked only is liveness under fairness
(`Answered`, `StreamCloses`, `ReadersEnd`, `TurnEnds`, and with it that the promised end
comes), which is out of the prover's reach; so are the runs that show a disagreement,
each of which is a counterexample.

## Not modelled

Wording and layout of frames and payloads, message texts, header fields and
blob contents are data no property speaks of. In `Conversation` that includes JSON
itself, apart from what its conversions do to arguments, and how an encrypted task is told
from a plain one, a heuristic about characters (`looksLikePlaintextTask`); a sealed
task is a kind of piece. `ParseConfig` is a sequence of range checks on one value. The
quota report and the management pages keep no state and combine answers of the host.
The host bridge (`main.go`) is the C ABI: what may run beside
`cliproxyPluginShutdown` is decided by the host's contract, which is not in the
repository, so a model of it would be a model of a guess. The protobuf code
(`internal/pb`, most of the repository's lines) is generated: nothing in it is a
decision of this program, and what the plugin uses of it are the kinds of messages,
which `Session` has. Scripts are one-shot tools.

## Plan

1. Composition: `Executor` over `StreamFrames`, so that the frames of a request that
   was retried are those of one stream; `AuthRefresh` with `Login` on one set of files.
2. The base URL as a second field of `ModelCache`'s configuration.
