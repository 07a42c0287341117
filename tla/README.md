# A verification project for UsefulKey

UsefulKey (`src/src`) is a TypeScript library that issues, verifies and
manages API keys. One `UsefulKey` object is configured with a keystore, a
rate-limit store, an analytics sink and plugins; several objects, in one
process or in many, may share the same database. Nothing in the library takes
a lock or opens a transaction: every method is `async`, and between two of its
awaits any other call may run. This project models the library's own logic in
TLA+, checks it with TLC and proves part of it with TLAPS.

Contents: [Inventory](#inventory) · [Modules](#modules-and-how-they-correspond-to-the-code) ·
[Runs](#what-each-run-checks-and-shows) · [Fairness](#fairness) · [Proofs](#proofs) ·
[Disagreements](#where-code-and-documentation-disagree) · [Not modelled](#what-is-not-modelled) ·
[Plan](#plan)

## Inventory

| Component | State it keeps | Operations | What is hard about it | What makes it correct |
| --- | --- | --- | --- | --- |
| Key lifecycle, `core/usefulkey.ts` | none of its own; local copies of records across awaits | `createKey` `getKey` `getKeyById` `verifyKey` `extendKeyExpiry` `revokeKey` `hardRemoveKey` `sweepExpired` | every change is read, modify, write-back of a whole record; auto-deletion and sweeps judge a record and delete it later by id; failing statements are ignored, answered or skipped depending on the method | revoked and removed keys stay so; only expired keys are removed; reasons are true; every call answers |
| Plugins that write keys: `usage-limits-per-key`, `enable-disable`, `permissions-scopes` | fields of the record: `usesRemaining`, `metadata.disabled`, `metadata.scopes` | hooks of `verifyKey`; set, top up and clear uses; enable and disable; grant, revoke and set scopes | they write the whole record, so each may undo the others; hook errors are swallowed | uses come back only through a refill, enabling only through `enableKey`; no verification is charged twice |
| SQL keystores: `postgres.ts`, `sqlite.ts`, `cloudflare-d1.ts` | a table with primary key `id` and unique `key_hash` | one statement per method | `updateKey` writes every column, `key_hash` included, by id; ids may be reused | one row per plaintext |
| Redis keystore | a hash and an index entry per key | the same methods | several commands per method; a write-back recreates a removed hash | no record without its plaintext; removal leaves nothing behind |
| Memory keystore | two maps to record objects | the same methods, synchronously | `updateKey` upserts; callers share the objects, and a revocation changes them in place | both maps lead to one record; a revocation is not undone by whoever holds the record |
| HTTP keystore | none; a remote API keeps the keys | the same methods, each as one to three requests | requests that time out are executed late, are repeated, or fail after they took effect; bodies are awaited without a timeout; an absent key is told from a failure by text | what a read or a write reports is true |
| Rate-limit stores: memory, SQLite, Postgres, Redis, Cloudflare KV | per identifier a fixed-window counter and a token bucket | `incrementAndCheck` `consumeTokenBucket` `check` `reset` | read and write are separate except in memory, SQLite and Lua; expiry set after the increment; fractions of tokens are doubles; stale clocks | the limit is exact, and the rate up to roundings; so is the reset time told; no counter lives forever |
| Rate-limit plugin | none | `beforeVerify` | chooses identifier and limit; a failing store lets the call pass | as its store |
| IP access control: static, memory, keystore | allow and deny lists; the keystore variant also in the metadata of a reserved record | `setup`, `beforeVerify`, add, remove and clear, `refresh` | setup runs beside the first calls; refresh against pending saves; several instances save over each other; `createKey` fails or replaces, by keystore; a hook that throws lets the call pass | an address denied stays denied; instances verify with the lists of the record |
| ClickHouse analytics | queue, `isFlushing`, timer | `track` `flush` `close` | size-triggered, timed and closing flushes; failed and timed-out inserts go back to the front | nothing lost, reordered or, without failures, duplicated; `close` flushes |
| Example servers, `examples/*` | the plugins' stores, a list of dogs | public routes that verify, admin routes that create and change keys | a key is created first and granted its scopes by a second call; handlers hold records across the reading of a body | keys come with their scopes |
| Construction and plugin pipeline, `core-helpers.ts` | merged extensions, the hook list, `ready` | constructor, hook execution | order of hooks; hooks that throw are skipped | first rejection wins |
| Key generation, hashing, durations | the module-wide crypto provider | `createKey`, `hashKeyWithConfig`, `parseDuration` | provider replaced at run time | distinct plaintexts have distinct hashes |

How they interact: `verifyKey` runs the plugins' `beforeVerify` hooks (rate
limit, IP lists), hashes the plaintext, reads the record from the keystore,
runs the `onKeyRecordLoaded` hooks (limits, disabled, scopes), judges expiry,
and runs the `onVerifySuccess` hooks, where the limit plugin writes the
decremented counter back before the caller is answered. The other methods read
a record by id and write it back, or are one statement. Events go to the
analytics sink without affecting an answer.

`PROJECT.json` lists, under `hazards`, every place where this design can go
wrong in a way that a test would hardly reach, and the properties aimed at it.

## Modules and how they correspond to the code

**`SqlKeyStore`** – the table behind the three SQL keystores, which issue the
same statement for each method. `FindKeyById`, `FindKeyByHash`,
`FindExpiredIds` are the SELECTs (sets of possible results: there is no ORDER
BY), `InsertKey`, `UpdateKey`, `RevokeKeyById`, `HardRemoveKeyById` the writes.
A record keeps what decides whether a key may be used: id, hash, expiry, uses,
whether it is revoked or disabled, scopes.

**`UsefulKey`** – every method of the class that touches a key, and the three
plugins that write keys, for any set of concurrent callers. An async method
runs uninterrupted between awaits, so a call is a chain of phases `find`
(SELECT on its way), `found` (the code resumes with the record), `update` or
`remove` (the write on its way), or `sweep`; `record[c]` is the local variable
the code carries from one to the next. `createKey`, `revokeKey` and
`hardRemoveKey` carry nothing across an await before their one statement and
are single actions. A statement may reject, applied or not (`Writes`), and each
method treats that as the code does: `verifyKey` answers valid when
`onVerifySuccess` failed, removals on access are ignored, sweeps skip the id.
The order of plugins is the constant `Plugins`. `BeforeVerifyRejects` stands
for the plugins that reject before the record is read.

**`KeyService`** – what a caller who waits for each answer sees: each call takes
effect in one atomic step on the current key, and the key determines its
answer. A verification has one `Verdict` (revoked; else what the first
objecting plugin says; else expired; else exhausted; else valid), a change of an
absent key fails or answers null by its method, and a sweep answers "more"
exactly when its batch was full. What is left open is which keys a full batch
removes, and the plugins that block a verification whatever the key. In three
points the code departs from the documentation, and the service, which is what
the code does, with it; each is marked there and listed
[below](#where-code-and-documentation-disagree). **`SerialUsefulKey`** maps
`UsefulKey` to it and states `IsKeyService`, the refinement, for callers that
wait for each other: a write counts from the moment the code decides on it, a
sweep from the answer to its SELECT.

**`UsageLedger`** – `UsefulKey` with the uses each key was sold and the
verifications it granted, for `NeverOvercharged`.

**`RedisKeyStore`** – the Redis adapter, command by command, under the methods
of the class that use it. A key is a hash with its record and an index entry
from its key hash to its id; `pc` names the command a call waits for. `HSet`
writes every field, also of a record that is gone, `RevokeKey` one field,
`HGetAll` turns missing fields into the text "undefined" as `deserialize` does.
`ExtendKeyExpiry` stands for every method that reads by id and writes back,
`LoadValid` for verifications with and without a counter to write. `Reject` is
a command that fails or a process that dies; a behaviour without any is
`reliable`.

**`UsefulKeyClaims`** – a statement of the documentation that concurrent
calls break.

**`MemoryKeyStore`** – the in-memory adapter's two maps. A record is modelled by
its value and by `shared`, the callers whose record *is* the object in the
maps: `RevokeKeyById` changes the object under all of them, `CreateKey` and
`UpdateKey` put a new object in place and leave the others with the old one.
Its methods have no await, so each is one step of its caller.

**`DogApi`** – the Bun example server over that keystore, with the plugins
rate limit, enable-disable, usage limits and scopes: one action for each route
that reads or writes state, and one for each stretch between awaits after it
(`lookup`, `judge`, `charge` of a verification; `find`, `write`, `reread` of a
plugin method; `body` while the request is still being read). A body that
cannot be parsed ends its request. `handed` and `gone` record which
scopes a key was handed out with, and which keys were revoked while nobody held
an outdated object.

**`HttpKeyStore`** – the HTTP adapter, request by request: `Call` sends the
first attempt, `Receive` and `Read` take the answer and its body, `AttemptFails`
sends the next attempt or throws. The expected statuses of each method are
sequences named after it. `GivenUp` is a fetch that rejects or times out: its
request stays in `late` and the API may still execute it, at any time. Every
failure has a text, which a server, a rejecting fetch or a broken body chooses;
the text `"500 404"` stands for those with the word 404 in them, by which
`findKeyById` and `findKeyByHash` recognise an absent key. `misled` records a
call that was taken in by one. The API
is external and modelled as the adapter expects it to be, with its choices as a
constant (`Servers`): which success status it answers, and whether it refuses a
second POST or DELETE.

**`IpAccessControl`** – the three IP plugins, for several `UsefulKey` objects
over one record: the lists of each instance, the chain of SELECTs and writes of
each method (`load`, `save`, `exist`, `create`, `update`, each SELECT followed by
its own resumption), the `setup` that the constructor starts without waiting,
crashes and restarts, and the hook, followed by that of the rate-limit plugin.
The constant `Stores` is the kind of keystore: `createKey` of a record that is
there fails in the SQL adapters (`"insert"`) and replaces it in memory and in
Redis (`"replace"`). `stale` records the instances whose lists need not be those
of the record: another instance has written it since, or a call of their own
failed or met another; a load without overlap takes an instance out of it.

**`FixedWindow`**, **`TokenBucket`** – `incrementAndCheck`, `consumeTokenBucket`
and `reset` of the five rate-limit stores for one identifier. A behaviour picks
its adapter in `Init`; each adapter's steps are those of its code between
awaits: Redis with `eval` and without, and then with `PTTL`, with `TTL` only and
with neither; SQLite within one process and between processes that share the
file. Redis and KV expire keys themselves: an expired key reads as none, and
where a client or an option counts in seconds (`Ttl`, `ExpirationTtl`) so does
the model. `Abort` is a process that dies, or a client that rejects, in which
case the hook is skipped. Tokens are fractions in the code, doubles or the text
of doubles. The model counts them in shares, `Interval * Grain` to a token, and
each refill, and each wait told, may come out one share more or less (`Rounded`);
a share is thus the most that one computation is off by, and a larger `Grain`
means finer numbers.
**`RateLimit`** composes them: the plugin dispatches on the kind of the limit,
and the two algorithms share nothing but the clock and the callers.

**`ClickHouseAnalytics`** – the event buffer: `Track`, the flush loop (`Start`,
`InsertSucceeds`, `InsertFails`, `InsertTimesOut`), the timer and `close`. A
timed-out insert may still be executed later (`AbandonedArrives`, the one
external definition).

**`UsefulKeyProofs`**, **`KeyServiceProofs`**, **`DogApiProofs`**,
**`HttpKeyStoreProofs`**, **`RedisKeyStoreProofs`**, **`RateLimitProofs`**,
**`ClickHouseAnalyticsProofs`**, **`IpAccessControlProofs`** – the theorems. **`MCUsefulKey`**, **`MCKeyRaces`**,
**`MCSerial`**, **`MCRedis`**, **`MCDog`**, **`MCHttp`**, **`MCIpAccess`**,
**`MCRateLimit`**, **`MCClickHouse`** – instances for TLC, each with its `.cfg`
files.

Definitions named *Mutant* in a comment are variants that a plausible bug would
produce; they are never part of a specification and serve to show that a
property can fail.

## What each run checks and shows

Run one with `tlc -config <run>.cfg <module>`.

| Run (module) | Instance | Properties | Shows |
| --- | --- | --- | --- |
| `MCKeyRaces` (`MCKeyRaces`, over `UsageLedger`) | 2 callers, 1 id, 2 plaintexts; create, verify, extend, revoke, disable, set scopes; 2 uses or unlimited, expiry 2, clock to 2, up to 3 grants, failing statements | `TypeOK`, `NeverOvercharged`, `DeadStaysDead`, `SpentStaysSpent`, `DisabledStaysDisabled` | once no unrevoked copy of a key is left, stored or in flight, nothing revives it and it never verifies; spent keys get uses back only from a refill, disabled ones are enabled only by `enableKey`; races favour the holder of a key only, which is good for at least as many verifications as were sold |
| `MCSweeps` (`MCUsefulKey`) | 2 callers, 2 ids, 2 plaintexts, no plugin, failing statements, sweeps in batches of 2 | `OneKeyPerHash`, `CallsComplete` | a stale write-back onto a reused id never gives a plaintext two ids, so the unique index never refuses an UPDATE; every call answers |
| `MCSerial` (`MCSerial`) | 1 caller, 2 ids, 2 plaintexts, every method, three plugins, batches of 1 and 2, expiries never, 0 and 2, cutoffs before, at and after now | `IsKeyService` | calls that do not overlap implement `KeyService`: one reason, the first in the order of the code; one use; exactly the expired keys |
| `MCRedis` (`MCRedis`) | 3 callers, 1 key and what "undefined" names, expiry 1 or none, clock to 2, sweeps in batches of 2, with and without failing commands | `TypeOK`, `Findable`, `NothingLeftBehind`, `DeadStaysDead` | the order of commands never leaves a record no plaintext finds; calls that do not overlap leave nothing of a removed key; orphaned index entries, partial records and crashes revive no dead key |
| `MCDog` (`MCDog`) | 2 requests in progress, any sequence of routes; 1 key, 1 address, 1 request per window, bodies good and bad | `TypeOK`, `MapsAgree`, `RevokedStaysRevoked`, `KeysComeWithTheirScopes` | the two maps never come apart; a deletion that nobody holding an outdated record precedes is final, also for the requests that found the key before; a premium or admin key is answered only with its scopes in place |
| `MCHttp` (`MCHttp`) | 2 callers, 1 key, an API that answers 204 to every write and minds no repetition, failures with and without a 404 in their text, before or after the effect, lost and late requests (1 pending), a timeout | `TypeOK`, `ReadsAreTrue`, `ResolvedIsWritten`, `RejectedIsNotWritten`, `CallsComplete` | a read is true unless the text of a failure has a 404 in it, and then it is `findKey` that takes the key for absent; a write that resolves took effect during the call, one that rejects while calls wait for each other and nothing fails changed nothing; with a timeout a call that never ends waits for one body |
| `MCIpAccess` (`MCIpAccess`) | 2 instances of any of the three plugins, either kind of keystore, 2 calls, 1 address and a stranger, failing statements, crashes and restarts | `TypeOK`, `ListsAreCurrent`, `DeniedStaysDenied` | an address denied in the record, in all loaded instances and in what calls carry stays denied until it is removed; an instance at rest has the lists of the record unless it is in `stale` |
| `MCRateLimit` (`MCRateLimit`) | 2 callers, both kinds of limit, windows of all nine adapters, buckets of one adapter of each kind (memory, script, read and write), limits 0 to 2, windows of 2 ticks, seconds of 3, capacities and costs 1 and 2 changing between calls, 2/3 token per tick with 9 shares to a token, clock to 5 | `TypeOK`, `ExactLimit`, `BurstAndRateBounded`, `ResetIsKept`, `NoEndlessWindow` | the limit is exact where the increment is atomic, also across crashes, and elsewhere while calls do not overlap; no stretch of time grants more than burst plus refill, up to roundings; a refused caller is served once what flowed in after its reset time makes up for them |
| `MCClickHouse` (`MCClickHouse`) | 5 events, batches of 2, 2 failed or timed-out inserts, timer, close | `TypeOK`, `BufferIsSuffix`, `StoredInOrder`, `DuplicatesNeedFailures`, `EventuallyStored` | nothing is lost or reordered; duplicates need a failure; an open adapter stores everything once inserts stop failing |
| `ClaimRevoked`, `ClaimCloseFlushes` (`MCUsefulKey`, `MCClickHouse`), `ClaimHttp` (`MCHttp`) | small | one each | the disagreements below |

Why the bounds are enough. Two callers are the least that race, and every
hazard found needs one stale copy and one newer write (in Redis three callers,
for two removals around an update); two plaintexts allow the
reuse of an id, two ids a plaintext that might move between rows. One or two
uses are the least at which a lost decrement shows. The clock passes the
created, extended and swept expiries and equals each at some moment. Windows of
two ticks with a clock to 5 let two windows end after the first. Five events in
batches of two leave a partial batch behind two full ones. Two requests of the
server are a holder and a changer of a record, and one key is all they can
disagree about; one late request of the HTTP adapter is the least that arrives
after a newer write. Two instances are the least whose lists differ, and one
address on the lists with a stranger reaches both answers of both lists. A
second of three ticks is longer than a window of two, so that `TTL` rounds down
to none and `expirationTtl` up. Three shares to a third of a token leave room
for a rounding to refuse a request at its reset time, which the run reaches, and
for what `ResetIsKept` still promises. What
the bounds cannot show, the theorems below show for every value.
`MaxTime`, `MaxUses`, `MaxExpiry` (in the guard `WithinBounds`), `MaxGranted`,
`MaxCount`, `MaxEvents`, `MaxFailures` and `MaxLate` are the only limits not
found in the code. Symmetry is used over callers, instances, hashes and ids, which nothing orders, and
only with safety properties. `CHECK_DEADLOCK FALSE` stands where the clock or
the events of an instance run out.

## Fairness

`FairSpec` of `UsefulKey` assumes weak fairness of each caller's `Step`: the
event loop resumes a call whose await settled, and a database driver settles
each statement, by an answer or a rejection. Nobody is obliged to begin a call
and time need not pass. `FairSpec` of `ClickHouseAnalytics` assumes it for the
start of the adapter's timer, its firing, and the end of an insert; the number
of failures is finite (`MaxFailures`), because nothing is promised of an insert
that fails forever. `FairSpec` of `HttpKeyStore` assumes for each caller that a
call whose fetch has settled is resumed or the timer of `withTimeout` fires.
Nothing makes the API execute or answer a request, nor a body end, since the
code reads bodies outside the timeout: `CallsComplete` therefore says that a
call that never ends waits for one body for ever. The
other specifications state safety only.

## Proofs

`UsefulKeyProofs` proves, for every set of callers, ids, hashes and scopes,
every order of plugins and every value of the other constants:

| Theorem | States |
| --- | --- |
| `TypeCorrect` | `Spec => []TypeOK` |
| `KeyIdentity` | `Spec => []OneKeyPerHash` |
| `RevocationLasts` | `Spec => DeadStaysDead` |
| `LimitsLast` | `Spec => SpentStaysSpent` |
| `DisablingLasts` | `Spec => DisabledStaysDisabled` |

Assumptions: `ParametersAssumption` (the constants have their types),
`NullIsNotAValue` and `NullIsNotARequest` (null is no number, record or
request). They are evaluated by TLC in every run of the module.

The argument. `TypeOK` alone is not inductive enough: what a call holds depends
on its phase, so it carries `CallOK`, the relation between phase, request and
record (a write-back carries the hash that was looked up, a verification about
to write found its key neither revoked nor disabled). The other four theorems
rest on one fact about *copies*, the rows of the table together with the
records in flight: **every copy after a step descends from a copy before it**,
with the same id and hash, unless the step created a key whose hash was never
issued before. Reads copy a row, write-backs put a copy in place of a row,
rejections and removals only drop copies; this is proved once, action by
action, and says for each method which fields the descendant may differ in.
`KeyIdentity` then needs that a fresh hash has no copy; `RevocationLasts` that
no method clears `revoked`; `LimitsLast` that only the three refills raise
`usesRemaining` from 0; `DisablingLasts` that only `enableKey` clears
`disabled`. The invariants are also checked by TLC (`MCKeyRaces`,
`MCSweeps`), and the action properties in the same instances.

`DogApiProofs` proves, for every set of requests, keys, addresses and bodies:

| Theorem | States |
| --- | --- |
| `TypeCorrect` | `Spec => []TypeOK` |
| `MapsStayOne` | `Spec => []MapsAgree` |
| `RevocationLasts` | `Spec => RevokedStaysRevoked` |
| `ScopesComeAlong` | `Spec => KeysComeWithTheirScopes` |

Assumptions: `DogAssumption`, `MemoryAssumption`, `NullIsNoRoute` (types; a key
names its own id and hash, since the server never reuses either). The inductive
invariant adds to the types what a request carries in each phase of each route
(`RequestOK`), that both maps lead to one object whose sharers hold exactly its
value (`Objects`), and that of a key in `gone` every copy is revoked (`Gone`).
Three lemmas say what the keystore's writes keep: the caller alone changes, other
holders lose sharing when an object is replaced and see a revocation when it is
not. `ScopesComeAlong` needs that a record is never removed, so that the second
call of a creation finds it.

`HttpKeyStoreProofs` proves, for every set of calls, keys and APIs, with and
without timeout:

| Theorem | States |
| --- | --- |
| `TypeCorrect` | `Spec => []TypeOK` |
| `ReadsAreCorrect` | `Spec => ReadsAreTrue` |
| `ResolvedWritesHappened` | `Spec => ResolvedIsWritten` |
| `RejectedWritesDidNot` | `Spec => RejectedIsNotWritten` |

Assumptions: `HttpAssumption` (what an API may answer) and `NullIsNothing`. The
invariant says of each answer on its way what it proves about some table of its
call (`AnswerOK`, kept because `during` only grows; a failing answer proves
nothing, and only one with a 404 in its text can end a `findKey` well, misled)
and, while calls wait for
each other and nothing fails, what each attempt has shown about the next
(`CalmAttempt`): an API that answered a first attempt with another status than
200 answers the last with the one it expects.

`IpAccessControlProofs` proves, for every set of instances, plugins, calls and
addresses:

| Theorem | States |
| --- | --- |
| `TypeCorrect` | `Spec => []TypeOK` |
| `DenialLasts` | `Spec => DeniedStaysDenied` |
| `ListsCurrent` | `Spec => []ListsAreCurrent` |

Assumption: `IpAssumption` (types). The invariant is what a call carries in each
phase (`CallOK`: whoever changes, saves or judges does so on a loaded instance)
and that only running instances are loaded. `DenialLasts` then follows in three
lemmas, for the lists, for the record and for the calls: only a removal shortens
a list, every SELECT reads the denied record, every save stores denied lists, and
a `createKey` that may carry lists without the denial fails. Where it replaces the
record instead, `Denied` asks more of the calls in flight: those about to create,
also those that have found no record and have yet to build theirs, must know the
denial. Without that the property is false of such stores: two setups that both
found no record lose a denial stored between them. `ListsCurrent` needs an
invariant of its own, `CurrentOK`: at an instance that is not in `stale` at most
one call is between two steps, what that call has read is the record
(`CarryOK`), and the instance has the lists of the record unless that call is
about to load or to save them (`Peace`).

`RedisKeyStoreProofs` proves, for every set of clients, ids and hashes, in
behaviours with and without failing commands:

| Theorem | States |
| --- | --- |
| `TypeCorrect` | `Spec => []TypeOK` |
| `RecordsAreFindable` | `Spec => []Findable` |
| `RemovalIsComplete` | `Spec => []NothingLeftBehind` |
| `RevocationLasts` | `Spec => DeadStaysDead` |

Assumptions: the types of the constants and `NullIsNoRecord`. None of the three
properties is inductive: they speak of the moment when every call has ended, and
a `createKey` or `hardRemoveKeyById` half done leaves record and index apart. The
invariant says who will put them together again. `LostAreMended`: a record whose
hash does not lead to it is only there while a call is on its way to write the
missing entry or to delete the record; `Tidy`: without overlap every entry leads
to a record of its hash, and the call in flight will keep it so; `Matched`: ids
and hashes that an entry, a record or a call pairs are paired one to one. `RevocationLasts` follows the
copies of a record through `HGETALL` and `HSET`, as for the SQL stores.

`ClickHouseAnalyticsProofs` proves, for every batch size, any number of events
and failures, with and without interval and timeout:

| Theorem | States |
| --- | --- |
| `TypeCorrect` | `Spec => []TypeOK` |
| `NothingIsLost` | `Spec => []BufferIsSuffix` |
| `TableInOrder` | `Spec => []StoredInOrder` |
| `OnceWithoutFailures` | `Spec => []DuplicatesNeedFailures` |

Assumption: `ParametersAssumption`. `StoredInOrder` alone is not inductive: an
insert that timed out may arrive at any later moment. The invariant (`Accounted`)
says that the pending events are a run of consecutive numbers up to `tracked`,
that each abandoned batch is a run that starts no later than one past what the
table has, and that each prefix of the table is closed downwards; appending such
a run keeps it so. While no insert has failed, the table is exactly the run
below the pending one, hence without repetition.

`RateLimitProofs` proves, for every number of callers, all limits, window
lengths, capacities, costs and refill rates, and every adapter:

| Theorem | States |
| --- | --- |
| `TypeCorrect` | `Spec => []TypeOK` |
| `LimitIsExact` | `Spec => []ExactLimit` |
| `BurstIsBounded` | `Spec => []BurstAndRateBounded` |
| `ResetTimesAreKept` | `Spec => []ResetIsKept` |
| `WindowsEnd` | `Spec => NoEndlessWindow` |

Assumptions: `WindowAssumption` and `BucketAssumption` (types, positive duration,
interval and refill; null is no number, counter or answer; among the capacities
in use there is a largest). For windows the invariant ties the counter to the
history (`Admissions`): while a window is open, `admitted` is the count, or where
refused calls are counted too, the smaller of count and allowance; in the adapters
that read and write in two commands this holds while calls do not overlap, and then
what the call in flight has read still holds (`ReadHolds`). For buckets it is an
account (`Spending`): what was granted from a moment on, together with what the
bucket holds, is at most a full bucket and the refill since then, with a share
for every refill that rounded up. `Promised` says that a refused caller's missing
tokens will have flowed in by its reset time, short of one share for each moment
at which a later refusal refilled the bucket and rounded down, unless the cap is
reached first. `ResetIsKept` is that with the shortfall written out (`Drift`);
without it the statement is false, as the code refuses a request at its promised
time after ten refills of a tenth of a token. The products in these bounds are nonlinear; three
lemmas about multiplication and `CeilDiv` carry them. The history `spent` is
cumulative (what was granted up to each moment), which states the same bound
without a sum over an interval.

`KeyServiceProofs` proves what a caller may rely on, for every set of keys and
every configuration:

| Theorem | States |
| --- | --- |
| `NobodyOvercharged` | if `Ops` has no refill, `LedgerSpec => []NeverOvercharged` |
| `ImplementsKeyService` | if `Serial`, `Spec => IsKeyService` |

The hypothesis of the first is the one `UsageLedger` is for: topping up a key is
not part of its ledger. The number of callers and the budgets are free. With the
descent of copies from `UsefulKeyProofs`, each copy of a key has either as many
uses as its ancestor, or one less because this step granted a verification,
which the history counts; a new key has what it was sold. That no step decides
two verifications (`GrantsCounted`) makes the count exact.

The second is the refinement that `MCSerial` checks on two ids. `Serial` says
that there is one caller, which the model makes wait for each answer, and that
the statements of the store succeed. Both are what distinguishes the service
from what overlapping or failing calls see (the races of `MCKeyRaces`). Ids,
plaintexts, expiries (0 included), plugins in any order, clock and cutoffs of
sweeps stay free.

The service changes when the code decides, the table when the statement lands.
So the state shown is the table with the decided writes applied (`View`), and a
landing is a stutter (`LandingServes`); so is a read of the table. A sweep is
decided when its SELECT is answered: all it listed shows as removed from then
on, and its DELETEs are stutters. What makes the step at the end of a read a step
of the service on its *current* key is `SerialInv`: what the one call has read
still is the row it looked for, a record is stored under its own id, no two rows
have one hash (`IdentityInv`, from `UsefulKeyProofs`), and what a sweep listed is
still there. Each method has two lemmas: the step it is to the service
(`CreateServes`, `VerifyServes`, `ChangeServes`, `SweepFindServes`, ...) and that
it keeps the invariant (`CreateKeeps`, `GoingOnKeeps`, ...). The plugins' hooks
are matched by `ObjectsAlike`: a hook refuses exactly when the service has its
plugin object, and `ObjectedVerdict` that the first to refuse gives the reason,
in whichever order the plugins run.

All inductive invariants were first checked by TLC in the instances of the runs.

Model-checked only: liveness (`CallsComplete`, `EventuallyStored`), which is
beyond the prover together with ENABLED. Every other property of a passing run
is a theorem. No module declares a RECURSIVE operator.

## Where code and documentation disagree

Each with a run that exhibits it; `PROJECT.json` quotes the lines.

* `ClaimRevoked` – *a revoked key is always invalid*: a `verifyKey`, top-up or
  extension that read the record before `revokeKey` writes it back afterwards
  and undoes the revocation. `DeadStaysDead` is what remains of the promise.
* `ClaimCloseFlushes` – *close flushes remaining events*: `flush` returns at
  once while another flush is in progress, so `close()` resolves with events
  unsent.
* `ClaimHttp` – *createKey accepts 201 or retries 200/204*: the retry sends the
  POST again. An API that answers 200 and refuses duplicates answers the
  repetition with a conflict, so that `createKey` rejects although the key was
  created; likewise an API that answers 204 to a DELETE and 404 to the next.

Seen while modelling, without a run of their own: two overlapping verifications
that read the same counter write the same value, although "Each successful
verification reduces the count by 1", and there is no bound on how often a key
is overspent, since each stale write-back restores an old counter (a counter
write that fails also leaves the key valid, by the way `executePluginHooks`
treats errors); the Postgres limiter reads its counter and then writes it, so
that overlapping requests pass together beyond the "Maximum number of requests
allowed in the time window"; the HTTP adapter takes any failure whose message
contains 404, in the URL or in the text of the answer, for an absent key
(`ReadsAreTrue` states that nothing else misleads it); its per-request timeout
ends with the headers, so that a body that stalls is waited for without limit;
in the memory store a handler that holds an object another write has replaced
writes the key back unrevoked after a deletion; an `addDeny` between its change
and its save is lost to a concurrent `refresh`, or to the save of an instance
that does not know it, or, where `createKey` replaces a record (memory, Redis),
to a second `setup` that had found none; a sweep deletes by id what it
listed before, and an extension in between is lost with the key (auto-deletion
on access has the same race); in Redis a write-back in flight brings a removed
key back, although removal "cannot be undone", revoking a removed id creates a
record with `revokedAt` alone that no sweep finds, an id given twice leaves the
first plaintext valid for the second key, and `findExpiredIds` calls the
client's `keys` detached from the client, which a client that uses `this` does
not survive (the model takes it to work); with the limit plugin an expired and
spent key is refused as `usage_exceeded`, before its expiry is judged, against
the documented order "revoked, expired, usage_exceeded", and so is not removed
on that access either; `revokeKey` and `hardRemoveKey` of an unknown id answer
ok although the comments above them say that they fail; an `expiresAt` of 0
never expires in `verifyKey` but is swept (these three are the points marked in
`KeyService`); `olderThan` is taken as given, so that a cutoff in the future
sweeps keys that are still valid; a refused caller that polls a token bucket may
be refused once more at the reset time it was told, because the fractions it
accumulates are rounded; a removed key's plaintext may find a row again
when its id was reused while a call was in flight; a limit of 0 admits the first
request of each window except in Redis without `eval`; a rate-limit cost above
the capacity is refused forever with a finite reset time.

## What is not modelled

* The memory keystore's `hardRemoveKeyById` and `findExpiredIds`, which the
  modelled server does not reach.
* The choice of the crypto provider, the content of hashes and prefixes, the
  syntax of durations, table creation, tracing of analytics events, error
  wording: data without control.
* The merging of plugin extensions and the promise `ready`, which callers may
  but need not await: the models take the case that they do not.
* The rate-limit plugin's `identify` and per-call limits: each behaviour has one
  identifier with one limit.
* `check` and the getters of plugins, which only read.
* Rate limits in Redis through clients without `pexpire` (a GET and a SET with
  PX instead, `redis.ts:52`), KV bindings without `delete`, the minimum of 60
  seconds that Cloudflare sets for `expirationTtl`, the lag of KV's replicas,
  and clocks that differ between processes.
* An event that cannot be serialised: `JSON.stringify` (`clickhouse.ts:167`)
  would throw after the batch has left the queue.
* Writes of the HTTP keystore that arrive late, under the IP plugin's record.
* The Hono, Cloudflare and other example servers, whose routes are those of the
  Bun server over other adapters.
* Console and no-op analytics, type declarations, the documentation site.

## Plan

Done, in this order, the most important behaviour first: `SqlKeyStore` and
`UsefulKey` with their races; `KeyService` and the refinement; `UsageLedger`;
the proofs about `UsefulKey`; `ClickHouseAnalytics`; `FixedWindow`,
`TokenBucket` and `RateLimit`; `RedisKeyStore`; `MemoryKeyStore` under `DogApi`;
`HttpKeyStore`; `IpAccessControl`; the proofs about the last three, then about
`RedisKeyStore`, `ClickHouseAnalytics`, `RateLimit` and `UsageLedger`, and the
refinement of `KeyService`.

Next: the refinement proved for overlapping calls as far as it holds there, that
is, against a service whose steps may act on an older record, which would put
`DeadStaysDead` and `NeverOvercharged` under one abstract specification.
