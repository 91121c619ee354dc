# duckdb-ext-common in TLA+

TLA+ models of the parts of duckdb-ext-common that threads, timeouts, load orders and
operating systems make hard to test, with TLC runs on small instances and TLAPS proofs for
every instance. Paths below are relative to the repository's source, `src/` in `PROJECT.json`.

## 1. Inventory

The repository holds header-only contracts and duckdb-free modules that DuckDB extensions
(acl, tresor and others) compile into themselves.

| Component | State | Operations | Interacts with |
| --- | --- | --- | --- |
| `hooks/ext_hooks.hpp` Delivery | bounded queue, `stopping`, worker thread, drop count | Push, Run, Tally, Stop, destructor | producers, the registry's sinks (foreign code called on the worker) |
| Registry | list of sinks, stamp | AddSink, RemoveSink, Sinks, Reach | the instance's object cache, Delivery |
| Gauges, `contracts/acl_audit.hpp` AuditGauges | list of readers under a lock | Register, Remove, Snapshot | readers, called under the lock |
| Counters, AuditCounters | map from an encoded key to a count | Add, Get, Snapshot | producers, scrapers |
| contracts (audit, session, lineage, tresor) | one stamped object per key of the cache | Reach, MarkPublisher, Publish, Withdraw, Name | extensions of different revisions |
| `oidc` browser login | loopback server, expected state, one result | Start, handler, Expect, Wait, Stop | browser, other local requests, caller's callbacks |
| `oidc` device flow | interval, deadline | DeviceBegin, DevicePoll | token endpoint, `cancelled` |
| `oidc` token cache | tokens with an expiry | Get, Set, Invalidate, Clear | the two parsers that set the expiry |
| `oidc` transport, CA bundle | process default, per-thread scope | Set, scope enter and leave, HttpSend | consumer's transports, which may call back |
| `oidc` grants, exchanges, discovery, client auth, platform identities | none | one request each | transport |
| `keychain` | the operating system's store; on Linux a cached probe and a watchdog per call | Store, Load, Remove, Available | macOS, Windows, libsecret |

What is hard in it:

* **Concurrency**: Push and Stop unlock before they notify; sinks come and go while the worker
  iterates a copy; Stop may be called by a sink on the worker itself; snapshots call foreign code
  under a lock; a browser's request races with deadline and cancellation; a watchdog races with
  the answer it waits for.
* **Failure**: sinks, readers, the sinks function and the caller's callbacks may throw.
* **Time**: a token's margin, a device code's lifetime, slow requests, deadlines.
* **Independent builds**: extensions compiled from different revisions share one object.
* **Nesting**: a transport may call back into the module, open scopes of its own and throw.
* **Foreign answers**: discovery documents, token answers and environment variables decide where
  the next credential goes and what counts as a token.
* **Encodings**: a key joined from several texts must not make two keys one.

`PROJECT.json` lists each hazard at its line, with the properties that would show it.

## 2. Modules

| Module | Models | Depends on |
| --- | --- | --- |
| `Delivery` | Delivery and the registry's sinks | `EventStream` (INSTANCE, refinement) |
| `EventStream` | what Delivery promises a producer: the abstract specification | |
| `DeliveryProofs` | theorems about `Delivery` | `Delivery`, TLAPS |
| `GaugeRegistry` | Gauges and AuditGauges, told apart by `flavour` | |
| `ContractReach` | the stamped objects of the cache and who may use them | |
| `Counters` | Counters and AuditCounters with the texts of their keys | |
| `LineageSources` | the registry of lineage providers and Name | |
| `AclSession` | the publisher mark and one connection's AclConnection | `ContractReach` |
| `ContractUse` | composition: extensions reach a contract's object and then use it | the four above |
| `LoopbackLogin` | AuthorizationCodeLogin and LoopbackRedirect | |
| `DeviceFlow` | DeviceBegin, its parser, DevicePoll | |
| `Grants` | discovery, grants, exchanges, revocation, client authentication, platform identities | |
| `TokenAcquisition` | composition: a consumer obtains its token by one of these ways | the three above |
| `TokenCache` | the cache and the expiry the parsers put on a token | |
| `Transport` | default and scoped transports and CA bundles, HttpSend, the built-in client | |
| `OidcShared` | composition: what the threads of a process share, the transport or the cache | the two above |
| `Keychain` | store, load and remove on three platforms | |
| `Induction` | induction over the natural numbers for sets, least and largest elements: lemmas only | TLAPS |
| `GaugeRegistryProofs`, `ContractUseProofs`, `TokenAcquisitionProofs`, `TokenCacheProofs`, `TransportProofs`, `KeychainProofs` | theorems about the specification each is named after, its parts included | that module, `Induction` where a list, a loop or a stack needs it |

`MC*` modules give the constants values for TLC. Definitions named `Mut_...` are plausible
mistakes in the definition below them. No specification uses them; each shows that a property
notices the mistake.

### How they correspond to the code

**Delivery.** One step is one section under `State::lock`, or one thing that happens outside it and
that another thread can see. Push is `Push` (the section), then `PushNotify` or `PushTally`. Run is
`Wait`, `Pop`, `TakeCopy`, `OnEvent` per sink, `Handed`, and after the loop `Leave`, `Flush` per
sink, `Exit`. Stop is `OwnerStop` (or the branch of `OnEvent` in which a sink stops), `StopNotify`,
`StopReap`; the destructor ends in `Destroy`. A detached thread outlives the object with its own share
of `State`; a sink is assumed not to call Stop on an object already destroyed. Events are numbers in push order. The variables
`accepted`, `taken` and the per-sink histories are for the properties only.

**GaugeRegistry.** Register and Remove are one step each when the lock is free. Snapshot is `Lock`,
then `Call` and `Return` or `Throw` per reader, then `Unlock` or `Leave`. An owner frees its state
after Remove. The hooks registry replaces a gauge with the same name and attributes and leaves out
readers that throw; acl's appends, has dynamic gauges, and gives the lock back when a reader throws.

**ContractReach.** A build is a revision (contract version, hooks version, stamp or none). `Reach`
is the Reach of each of the four contracts, `GetOrCreate` is DuckDB's object cache, `Pressure` its
eviction.

**ContractUse.** `contract` says which object it is, and with it what an extension that reached it
does there. *Counters*: Add, Get and Snapshot are one critical section each; a text is a sequence of
characters, because what is at stake is whether two tuples share a key. The hooks prefix lengths
(`Decimal` is `std::to_string`: no `:` in it, and no two lengths alike); acl joins by `=` and a unit
separator, which is safe as long as no text holds the separator that ends it (`Plain`; "attributes
only from bounded sets"), so acl's counters are checked for such texts. *LineageSources*: `Name` takes
the copy, `Call` is one turn of its loop with a provider that answers, passes or throws, `NoAnswer`
its end; AddProvider and RemoveProvider come between any two, and a provider may be registered twice. *AclSession*: `QueryBegin` and
`QueryEnd` are acl's (external, as `acl_connection.hpp` says it publishes and withdraws), `Act` is a
consumer inside a statement that checks both objects and the mark before it reads Current. The two
objects are reached separately, so one may be refused where the other is not.

**LoopbackLogin.** The login's thread goes through checks, Start, Expect, presenting the URL, Wait
and Stop; requests arrive with any parameters, their handlers run on the server's pool; deadline
and cancellation may come between any two steps.

**DeviceFlow.** A clock in seconds, requests that take time, sleep in slices of one second, answers
`authorization_pending`, `slow_down`, error, token. The answer's interval is capped by the parser; one
the caller passes itself is not, and is taken as it is. Numbers are not bounded, so the overflow of
`interval + 5` within five of the largest `int64` is not in the model.

**Grants.** A call is made with the endpoints of the last discovery: `StartCall` holds all that a flow
checks before it sends and the request it sends, `AnswerGrant`, `Revoked` and `Unanswered` what it
makes of the answer. Endpoints are known by their scheme, URLs of a platform by the class of their
host, tokens by what they are. The issuer is external: it may put a refresh or ID token into
`access_token` but then says so, in one of the ways FinishExchange looks at.

**TokenAcquisition.** The three ways share no state; a behaviour takes one of them.

**TokenCache.** Issuers decide when a token dies; the answer states it in one of three forms or not
at all; the parser computes `expires_at`; Get serves with a margin. As history, a token carries how often
its key had been dropped (Invalidate, Clear) when it was last on its way to the cache.

**Transport.** `frames` is each thread's call stack: scopes are locals, so they end in order, by
return or by exception. A consumer's transport is foreign code inside HttpSend: it may open scopes,
send requests and throw. Shared pointers are counted, so a call through a destroyed transport would
show. CA files change at any time and are read when a request starts.

**OidcShared.** Transport and cache share no state; a behaviour exercises one of them.

**Keychain.** Texts are short sequences of characters, because the key is what is at stake: Windows
joins the names by `/` and compares without case, Windows and libsecret read C strings. The Linux calls go through
KeychainAvailable's mutex and one probe, and each request has a Deadline whose watchdog cancels it;
on macOS a store is an update and then an add.

## 3. Runs

| Run | Instance | Shows |
| --- | --- | --- |
| `delivery_safety` | 2 producers, 2 sinks, capacity 2, 3 pushes, sinks that throw and stop, a sinks function that may throw | order, nothing missed or repeated, a removed sink sees at most the event in hand, flush last, drops counted, no terminate, every step is a step of `EventStream` |
| `delivery_live` | 2 producers, 1 sink, capacity 1, 3 pushes | Stop returns, `EventStream` with its liveness: accepted events are delivered, a stopped delivery leaves its loop |
| `delivery_terminate` | 1 producer, 1 sink, any destructor | **violation**, finding 1 |
| `gauges` | 2 owners, 2 names, 2 scrapers, either flavour | no reader of freed state, snapshots of one moment, one row for each gauge that did not throw, snapshots end |
| `contracts` | acl and 2 extensions, 2 x 2 versions, stamped or not; 7 counters that spell each other, 2 additions; 2 sessions; lists of up to 3 registrations, 2 questions | one layout per object, Reach keeps its answer, a consumer acts for the session of its statement or not at all, each counter counts its own tuple, no registered provider is skipped |
| `acquire` | browser: 3 requests with any parameters; device: two request times, raw, absent and excessive numbers, a caller's own interval beyond the cap; grants: every flow with the inputs its decisions depend on, every discovery document | page and result agree, our callback alone counts and is not lost, nothing outlives the login, the first end is final; polls are spaced and capped, past the deadline by less than one request, cancelled promptly; credentials go where they may and what comes back is what was asked for; both waits end |
| `device_deadline` | the device flow with instant and slow requests | **violation**, finding 2 |
| `revoke_downgrade` | the same grants | **violation**, finding 5 |
| `shared` | 2 threads (stacks of 4 and 1), 2 transports, 1 bundle, three builds; 2 consumers of one key, all forms of answers, margins 0 and 2, 2 drops | each request is carried and trusted as its thread's stack says, transports live as long as they are needed and no longer; a token with an expiry on it is never served within the margin of its death (less the time its answer took), nor for more than a year; of the tokens issued before a drop only those on their way then are served after it |
| `cache_forever` | 1 consumer, short lives | **violation**, finding 3 |
| `keychain` | 2 callers, 3 calls, 7 kinds of request, 3 platforms, deadline of 2 ticks | an entry per name, loads, stores and removes report what happened, the watchdog does not outlive its cancellable, at most two deadlines, calls return |
| `keychain_names` | names with a NUL, names that differ in case | **violation**, finding 4 |

Each run instantiates its specification in a module `MC...` that defines the small sets its
.cfg names. The properties, by their names in the modules:

* `delivery_safety`: `TypeOK`, `Fifo`, `SinkOrder`, `NoneMissed`, `OnceMoreAfterRemove`,
  `FlushAfterLast`, `JoinedMeansDelivered`, `DropsCounted`, `NeverTerminates`,
  `ImplementsStreamSafety`; `delivery_live`: `StopReturns`, `ImplementsStream`;
  `delivery_terminate`: `NeverTerminates` without the assumption on the destructor.
* `gauges`: `NoDanglingReader`, `SnapshotOfOneMoment`, `OneRowPerGauge`, `SnapshotEnds`.
* `contracts`: `OneObjectOneLayout`, `ReachIsStable`, `ActsForItsSession`, `CountPerTuple`,
  `FirstAnswerWins`.
* `acquire`: `PageAgreesWithLogin`, `ResultIsOurCallback`, `NoHandlerOutlivesLogin`, `EndIsFinal`
  (browser); `OutlivesByOneRequestAtMost`, `PollsAreSpaced`, `CancelIsPrompt` (device);
  `CredentialsGoWhereAllowed`, `GrantedAsAsked` (grants); `PersonIsNotAwaitedForEver` (both waits);
  `device_deadline`: `NeverOutlivesDeadline`; `revoke_downgrade`: `NeverWeakerThanDiscovery`.
* `shared`: `InnermostScopeCarries`, `AliveWhileNeeded` (transport); `ServedWithMargin`,
  `OnlyLateAnswersPassDrop` (cache); `cache_forever`: `ServedAlive`.
* `keychain`: `EntryPerName`, `ReportIsTrue`, `WatchdogOutlived`, `TwoDeadlinesAtMost`, `CallEnds`;
  `keychain_names`: `EntryPerName` with such names.

### Bounds, and why they are enough

* Two producers and three pushes fill a queue of one or two, refuse a push while another producer
  is between unlock and notify, and leave one event behind a stop. Two sinks make "the next one in
  the copy" different from "the same one". `MaxCopies` lets a sink be registered once; the list's
  erase is still tested, by removing either sink.
* Gauges: three entries, so that removing one of an owner's leaves others before and after it.
* Login: three requests are a stranger's, ours, and a late one.
* Device, cache and keychain use small numbers for the code's constants (5 s, 900 s, 3600 s, a year,
  15 s, 2560 bytes) and keep their order; the values tried lie below, at and above each.
* Keychain: two callers suffice for every race (probe, add, watchdog), and three calls let one of
  them come back with a string that holds an earlier secret.
* Contracts: two versions give every pair "same" and "other"; three extensions a creator, acl and a
  consumer; two sessions and statements without one in any order. The counters are chosen so that
  each plausible encoding without lengths makes two of them one. Two questions, so that a provider
  can leave and come back between them; three registrations, so that one provider can be listed
  before and behind another. 1.5 million states.
* Grants: all 108 discovery documents in the model's terms, proofs alone and together, URLs of every
  class; nothing in these flows counts.
* Transport: a stack of four holds a scope, a transport under way, a scope inside it and a request
  from there; the second thread replaces defaults and sends meanwhile.
* Cache: two drops, so that a token can be on its way at one and dropped by the next. With the
  transport's, 1.3 million states.
* ContractReach counts created objects (`MaxCreated`) because eviction could repeat for ever.

### Fairness

* Delivery: the worker, a Push that has unlocked, a Stop that has begun and a destructor are running
  threads, so they go on (weak fairness); sinks are assumed to return. Nobody has to push or stop.
  Spurious wake-ups happen but are not needed.
* Gauges: a thread inside Snapshot runs; readers return or throw.
* Login: the login's thread and the server's pool run, time passes. The browser need not come back.
  An accepted connection without a request is closed by the server's read timeout of 2 s.
* Device: the polling thread runs and requests are answered or time out. In the run with liveness
  a request takes at least a second: with an interval of 0 and instant requests the loop could
  poll for ever within one second of the clock, which `DevicePoll` does not prevent.
* Keychain: callers, watchdogs and time go on, and libsecret returns from a cancelled call. The
  Secret Service need not answer. On macOS and Windows the code has no deadline, so no call is
  claimed to return there.

## 4. Findings

1. **Terminate** (`delivery_terminate`, `ext_hooks.hpp:316`). A sink calls Stop: `stopping` is set,
   the thread not yet detached. The owner's destructor now runs, its Stop returns at once because
   `stopping` is set, and the joinable thread is destroyed. `test_hooks.cpp` says that Stop from a
   sink does not terminate. `SafeStopFromSink` proves that it does not if the destructor waits.
2. **Deadline** (`device_deadline`, `oidc_core.cpp:1497`). DevicePoll compares the deadline before it
   sleeps, never before or during a request, so a poll may run past it, where the header says it
   never does. `OutlivesByOneRequestAtMost` bounds by how much.
3. **Dead for ever** (`cache_forever`, `oidc_core.cpp:965`). ParsePlatformToken ignores an
   `expires_on` or `exp` that is not later than now and leaves 0, which the cache takes for "no
   expiry": a token that was dead on arrival is served until somebody invalidates it.
4. **Names a platform reads as one** (`keychain_names`, `keychain.cpp:97`). NamesOk takes a NUL, and
   the C interfaces of Windows and libsecret cut the name there; it takes names that differ in case
   only, and the Credential Manager compares targets without it. Either way two accounts share an
   entry, against the comment on ValidUtf8. macOS keeps both pairs apart, Linux the second.
5. **Revoke after a refused discovery** (`revoke_downgrade`, `oidc_core.cpp:1372`). Revoke asks only for
   a `revocation_endpoint`, not for `Endpoints::Ok()`, and a refused discovery leaves the endpoints
   filled in: a caller that goes on posts its token and the client's secret over http to an issuer it
   discovered over https. The comment at `:767` and `specs/011-oidc-revocation-scope` say that a
   cleartext endpoint is refused. Every other flow stops: `CredentialsGoWhereAllowed`.

Behaviours to know of that contradict no document, or that a property states as they are:

* On macOS a store of an absent entry fails with a duplicate item if another process adds it between
  update and add; `DuplicateOnlyByRace` (in `ReportIsTrue`) shows that nothing else makes it fail so.
* A remove that finds the Secret Service's collection locked finds nothing to remove and reports ok,
  with the entry still there (`OkMeansDone`, in `ReportIsTrue`, allows just that).
* DevicePoll does not cap an interval the caller passes; the first slow_down then shortens it to 3600 s.
* acl's counter keys, unlike the hooks', can meet when a counter's name or a value holds the unit
  separator, or an attribute's name an `=`.
* A sinks function that throws loses the event for every sink, uncounted (`NoneMissed`: never for
  some of them only).
* A token that is on its way when its key is invalidated is cached and served afterwards; the cache
  keeps no generations (`OnlyLateAnswersPassDrop`: nothing else issued before comes back).

## 5. Proofs

Every invariant and every safety property of the passing runs is also a theorem: the run shows it on
a small instance, the theorem for every value of the constants. The proofs need what the constants
are (the `ASSUME` of the module that declares them, evaluated by TLC in the runs): sets of numbers
where the code has numbers, a longest request in `DeviceFlow`, what `Decimal` is in `Counters`, that
folding the case changes no `/`, NUL or malformed byte in `Keychain`, and that a model's own markers ("none", "free", "idle", `NoOne`,
`NoEntry`) are not also the name of an owner, scraper, session, provider, transport, caller or secret.
Hypotheses that are not about every state of the program stand in the theorem itself and are named
in the tables.

An invariant is seldom inductive as it stands. Under each table: the strengthening, and why it is
needed.

### Delivery (`DeliveryProofs`)

For any producers, sinks, capacity and number of pushes:

| Theorem | States |
| --- | --- |
| `TypeCorrect` | `TypeOK`, with the bound on the queue |
| `FifoHolds` | what was popped and what is queued is what was accepted, in order |
| `FlushIsLast` | no flush before the last accepted event was handed out |
| `JoinDelivers` | a Stop that joined has delivered everything |
| `SafeStopFromSink` | no terminate, if `DtorWaits`: the owner does not destroy while a sink is inside Stop (without it, finding 1) |
| `DropsAreCounted` | every refused push is counted, for finitely many producers |
| `RefinesStream` | `Delivery` implements the safety half of `EventStream` |
| `OnceMoreAtMost` | `OnceMoreAfterRemove`: a removed sink gets one more event for each registration, at most |
| `EachSinkInOrder` | `SinkOrder`: every sink gets events in stamp order, none twice if it may be registered only once |
| `NobodyMisses` | `NoneMissed`: a registered sink gets every event popped since, unless the sinks function threw, and then nobody does |

* `Typed` is `TypeOK` and `HoldsEvent`: a thread with an event in hand has taken one. Without it
  `OnEvent` could hand out the last element of an empty sequence. `Fifo` is inductive given `Typed`.
* `Ends`: a thread past its loop was stopped and found the queue empty; only such a thread flushes;
  only an ended thread is joined. It carries `FlushAfterLast` and `JoinedMeansDelivered`, which say
  nothing of the moment the loop is left.
* `FirstStopReaps`: whoever set `stopping` is the one that will join or detach, and the thread is
  joinable only until then.
* For the drops, the refusals are the counted ones and the producers between unlock and Tally.
* `Counted`: the registry's list holds a sink as often as it is registered, and the calls since its
  removal together with its places in the copy in hand stay within `MaxCopies`. `Copies` counts
  places in a list; five lemmas say what append, erase and tail do to it.
* `Stamped` (stamps rise, because producers stamp under a lock) gives that `taken` rises, and
  `Heard` that no sink got an event later than the last one taken, nor that one while the thread has
  it still ahead: the ordering of a sink's next event against those it has.
* `AllReached` is `NoneMissed` with one thing more: an event nobody got because the sinks function
  threw will be got by nobody, the copy being empty. Without it the next `OnEvent` could give the
  event to some sinks only.

### Gauges (`GaugeRegistryProofs`)

For any owners, names, scrapers and either registry: `FreedIsUnread` (`NoDanglingReader`), `OneMoment`
(`SnapshotOfOneMoment`), `RowPerGauge` (`OneRowPerGauge`). The invariant: `OwnersInv` (a listed gauge
is one its owner still has to remove; who freed has none), `NamesInv` (the hooks' list has no name
twice), `LockInv` (inside Snapshot exactly while holding the lock, and in the reader of its place) and
`RowsInv` (the rows so far are the readers behind the cursor that did not throw, in order). Remove is
a loop over the list; what it leaves is proved by `SetInduction` over its turns.

### Contracts (`ContractUseProofs`)

| Theorem | States |
| --- | --- |
| `ReachedLayout`, `ReachedForGood` | `OneObjectOneLayout`, `ReachIsStable`, for any extensions and revisions |
| `ActsForNobodyElse` | `ActsForItsSession`, for any sessions |
| `NameSkipsNobody` | `FirstAnswerWins`, for any providers, registered as often as they like, and questions |
| `OneValuePerTuple` | `CountPerTuple`, for any names, attributes and values (of acl's, `Plain` ones) |

* `Answered`: after the first Reach the object is the one everybody was answered about, so that a
  second answer cannot differ. It needs that the cache never evicts the object
  (GetEstimatedCacheMemory answers nothing).
* `Shown`: whatever acl, not having been refused, can read of a connection is the session of the
  running statement. `ActsForItsSession` alone speaks only of the moment a consumer acts.
* `Copied` and `Ended`: the providers asked are the first ones of Name's copy, in its order.
* `CounterInv`: the map's keys are the keys of the tuples that were added to.

`OneValuePerTuple` rests on `HooksKeysApart` and `AuditKeysApart`: no two tuples have the same key. A
code is `Readable` if what was coded and what follows can be told from the text; that of an attribute
is, by its lengths (`PrefixedRead`) or its separators (`GlueMarked`). A key is a fold over the
attributes (`FlattenSeq`): its stages are `IsRun`, they exist and end in the fold by `SetInduction`, and
two lists with the same code agree element by element (`SameSoFar`) and in length (`ShorterRead`,
because no code is empty).

### Obtaining a token (`TokenAcquisitionProofs`)

| Theorem | States |
| --- | --- |
| `PageIsTrue`, `OnlyOurCallbackEnds`, `NoLateHandler` | `PageAgreesWithLogin`, `ResultIsOurCallback`, `NoHandlerOutlivesLogin`, for any number of requests |
| `EndStands` | `EndIsFinal`, an action property |
| `DeadlineHonoured`, `SpacedAsAsked`, `CancelHonoured` | `OutlivesByOneRequestAtMost`, `PollsAreSpaced`, `CancelIsPrompt`, for any numbers a server or a caller may give |
| `CredentialsStay`, `NothingElseGranted` | `CredentialsGoWhereAllowed` (every flow; how Revoke's request travels is finding 5), `GrantedAsAsked`, for any calls and URLs |

* Browser: `ServerFollows` (the server is up while the login waits and no handler runs when it is
  down), `ExpectedFirst` (nobody can send our state before it is expected: FlowOrder), `PagesTrue`
  (the login has ended by the callback whose page says so, or by Wait), `ReturnsEnd` (what Wait
  returned is that end).
* Device: `Timed` follows the sleep: it starts at an answer, lasts the interval in force and ends
  before the deadline, so a request starts no later than that. `Noticed` says how far an unnoticed
  cancellation can be behind.
* Grants: `Asked`: the request under way is that of an accepted call with the endpoints of the last
  document.

### Token cache (`TokenCacheProofs`)

`NeverServedDying` (`ServedWithMargin`) and `DropsAreFelt` (`OnlyLateAnswersPassDrop`), for any consumers,
keys, lives and latency. Every token, cached or in a consumer's hands, is `Dated`: the expiry on it is
at most the latency of its answer after its death and at most a year from now; `Underway` bounds the
latency of an answer that is not parsed yet; `Current`: what is cached or on its way was issued since
the last drop of its key, or was on its way then.

### Transport (`TransportProofs`)

`StackDecides` (`InnermostScopeCarries`) and `OwnedWhileNeeded` (`AliveWhileNeeded`), for any threads,
transports, bundles and depth of nesting. `Stacked`: the thread-local variables are what the
thread's stack of frames says, and each frame saved what the frames under it say, so that leaving it
restores that; `OwnersCounted`: a transport's count is the number of frames that own it, plus one for
the default.

### Keychain (`KeychainProofs`)

| Theorem | States |
| --- | --- |
| `CancellableOutlives` | `WatchdogOutlived` |
| `QueueCostsOneDeadline` | `TwoDeadlinesAtMost`, for any number of callers |
| `EveryNameItsEntry`, `ReportsStandUp` | `EntryPerName`, `ReportIsTrue`, for names without a NUL (`NulFree`) and, on Windows, no two of which differ in case only (`Apart`); without either, finding 4 |

* `Waited`: who waits for the mutex has waited no longer than who holds it; before the first probe
  nobody has waited. `TwoDeadlinesAtMost` alone would let the waits of a queue add up.
* `CallInv`: a call under way is acceptable and, on macOS, an entry found at the add came from a race.
  `EntryPerName` for Windows rests on NamesOk refusing a `/` in the service, so that the joined target
  has one first `/`.

### What stays with TLC

* Liveness, with the fairness it needs: `StopReturns`, `ImplementsStream`, `SnapshotEnds`,
  `PersonIsNotAwaitedForEver`, `CallEnds`. They are out of the prover's reach.
* The violations of section 4.

Three definitions were rewritten when their proofs asked for it, to say what the code does in a form
that can be reasoned about: RemoveProvider and Remove are the code's loops and erasures instead of a
library filter, `Proof` in `Grants` is the code's chain of conditions, and `OneRowPerGauge` names the
rows themselves.

## 6. Not modelled

* `RenderPrometheus`, event structs, error texts, logging: layout.
* SHA-256, PKCE, JWT signing (signs or fails in `Grants`), OpenSSL's reading of a CA bundle: cryptography.
* yyjson, httplib, DuckDB's object cache, the credential stores: external, modelled as far as the
  code relies on them.
* The list of session observers: only acl, which is not in this repository, calls them.
* The redaction of credentials from error texts (`Redact`, `HideIn`, `HideRequest`) and the wiping of
  memory.
* ParseUrl, Ipv4Literal, Base64UrlDecode, ValidUtf8 byte by byte: the models use their verdicts on
  classes of inputs; the functions keep no state and have unit tests and a fuzz target.
* HasSinks, HasObservers, KeychainAvailable on macOS and Windows asked on its own: they read and
  change nothing.
* Tests, fuzz target, scripts.

## 7. Plan

Done: every component that keeps state or decides where a credential goes is modelled; every safety
property a passing run checks is proved.

Left, should the code grow there: the list of session observers, once a caller of it is in this
repository, and bounded integers in `DeviceFlow`, if a caller's interval near the largest `int64`
should be looked at.
