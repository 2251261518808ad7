# nbox in TLA+

`nbox` keeps configuration entries and secrets for other services. Three
binaries share the code under `src/`:

- `nbox`, the HTTP API: entries, templates ("boxes"), storage routing, tokens;
- `entrypushd`, a gRPC server that pushes entry changes to agents;
- `nbox-cli`, the tool that edits the dynamic-config table.

DynamoDB, the SSM Parameter Store, S3 and NATS are outside. They appear here
only as the code uses them.

## Inventory

| Part | Code | State it keeps | Operations |
| --- | --- | --- | --- |
| Entry index | `internal/entry/store/dynamodb.go`, `entry/processor.go`, `platform/aws/dynamodb_kit.go` | one DynamoDB table: a row per entry and a marker row per folder | Upsert, Delete, List (level, leaves), Retrieve, RetrieveMany |
| Gateway | `entry/store/gateway.go` | nothing of its own; routes between the index and SSM | Upsert, Delete, Resolve, Retrieve, List |
| Parameter store | `entry/store/ssm.go`, `ssm_secure.go` | SSM parameters | Upsert, Retrieve, Resolve, Delete |
| Recorder, publisher | `tracking/recorder.go`, `tracking/store`, `event/publisher` | tracking records; one goroutine per Upsert | Upsert, Delete, async track and publish |
| Push server | `entrypushd/**` | subscriptions and their channels, streams, shared resolves | Handle, Publish, Subscribe, Unsubscribe, Watch |
| Prefix routing | `prefix/**` | the routing table, in a config snapshot | ByPrefix, List |
| Dynamic config | `config/**`, `cmd/cli/commands` | config table, per-process snapshot | nbox-cli commands; Upsert, Delete, Get, List; Start, Run, Current |
| Resilience | `pkg/resiliency/guard.go` | a semaphore and a circuit breaker | Execute |
| Boxes: specs and uploads | `box/handler.go`, `box/store/**` | S3 objects, a DynamoDB row per stage; the registry of specs and the caches of the CUE engine | Upsert, Validate, Reload, ResolveSpec, Retrieve, List |
| Boxes: builds | `box/renderer.go`, `box/processor.go` | none | Build |
| Tracking store | `tracking/handler.go`, `tracking/store` | the records of what was written | CreateBatch, History |
| Export | `export/**` | none | Export |
| Authentication | `auth/**`, `entrypushd/grpc/auth_interceptor.go`, `transport/http/middleware` | stores parsed from the config; short-lived tokens | Authenticate, Token, Mint |
| HTTP transport, wiring, health | `transport/**`, `cmd/**` | none | handlers |

How the parts interact. A request reaches `entry.Manager`, which is the Recorder
around the Gateway. The Gateway asks the routing table where a key lives, writes
SSM parameters first and the index after, and answers. The Recorder answers too,
and starts a goroutine that stores a tracking record and publishes an event on
NATS. `entrypushd` receives it, offers it to the channel of every matching
subscription and, in the goroutine of each `Watch` call, sends it to the agent;
for a vault key it asks `nbox` for the plaintext first. When an agent connects
`Watch` subscribes, asks `nbox` for the entries under the prefixes it wants, and
only then reads its channel.

What is hard:

- *No operation of the index is atomic.* An Upsert writes entry rows and folder
  markers in batches that can fail in part. A Delete is a breadth-first walk
  that finds what to delete by reading markers it deletes on the way. Both can
  be interrupted, retried or run at the same time.
- *Nothing orders events.* Each Upsert publishes from its own goroutine, the
  broker drops when a channel is full, and the snapshot races the deltas.
- *Streams share work.* `singleflight` makes several streams wait for one
  request that runs in the context of one of them.
- *Two stores, one entry.* The Gateway writes SSM and the index one after the
  other, and reads them one after the other, without a transaction.
- *Read-modify-write on the config table* without a condition, and readers that
  serve what they loaded last.
- *A guard that outlives its calls.* Permits must come back and results must be
  counted by the state of the breaker that admitted them, whatever ends a call.
- *Specs that are replaced under their readers.* A Reload reads files outside the
  lock, and a schema is compiled from a definition that may be gone.
- *Readers of entries that change.* Builds, exports and histories read page by page.

What makes each part correct: for the index, that a Delete removes its subtree
and nothing else, that every entry can be browsed to, that results say what was
written. For the push pipeline, that agents end with what is stored, that a
vault value is never older than the event that announced it, and that one
stream's failure does not end the others. For the Gateway, that an entry that was
reported written resolves to its value. For the config, that an update that was
reported is not lost, that readers converge and that who may log in is who the
table says. For the guard, that its permits are returned and that it opens and
closes as it says. For boxes, that a template is judged by the spec that is
served and that what is listed can be built. For readers, that nobody is shown
a value that is only in the Parameter Store and that answers are made of what was there.

## Modules

| Module | What it is |
| --- | --- |
| `EntryIndex` | the index table, Upsert, Delete, the batch writer |
| `MCEntryIndex` | its instances for TLC |
| `EntryIndex_proofs` | its theorems |
| `EntryMap` | the abstract specification of the entry API: a map from keys to values |
| `Gateway` | the two stores behind it: routing, Upsert, Delete, Resolve; implements `EntryMap` |
| `MCGateway` | its instances for TLC |
| `Gateway_proofs` | its theorems |
| `Watch` | the pipeline from a write to what an agent holds |
| `MCWatch` | its instances for TLC |
| `Watch_proofs` | its theorems |
| `Guard`, `MCGuard` | semaphore, breaker and retries around AWS requests, and the batch read |
| `Guard_proofs` | its theorems |
| `Boxes`, `MCBoxes` | specs, their reloads and caches, uploads of templates |
| `Boxes_proofs` | its theorems |
| `Login` | what a payload of config, a login and a token lead to, as operators |
| `Login_proofs` | theorems about them |
| `Access`, `MCAccess` | the config table, nbox-cli, snapshots, logins and tokens over time; extends `Login` |
| `Access_proofs` | its theorems |
| `Routes` | how a routing table is made and what it says of a key, as operators; `Gateway` extends it |
| `Views`, `MCViews` | what readers of templates, exports and histories are shown |
| `Views_proofs` | its theorems |

### EntryIndex

`table` is the set of rows `[path, name, dir]`; a marker is a row with `dir`. A
key is the sequence of its segments, the empty sequence standing for the root
(`EmptyPath`, a blank). A segment is a sequence of letters only because Upsert
keys its map of requests by a concatenation of path and name. `replica` is what
an eventually consistent read may see.

Each element of `Calls` is one goroutine at a time in `DynamoDB.Upsert` or
`DynamoDB.Delete`. `phase` is its program counter: `put` is the batch of an
Upsert; `root`, `page` and `level` are Delete's first batch, the Query of one
page and the batch of its rows. `requests`, `unprocessed` and `failed` are the
variables of `BatchWrite` (the chunks to come, the chunk in hand, `totalFailed`).
`frontier`, `current` and `unread` are Delete's queue, the folder of its
paginator and the part of the folder beyond the paginator's cursor. `written` and
`disturbed` are history. `frontier` keeps the folder that is being read until its
last page is gone, which the code's queue does not; it is a set, because the
order in which folders are visited is a choice of the walk and nothing relies
on it.

`BatchWriteItem` does any part of the chunk. The answer may name the rest or may
not arrive, and then everything is sent again. `GiveUp` is the end of the 15 s
back-off. `Crash` is the process that dies, in any phase of `Failing`.

Left out: values and metadata, the empty-value and lock-entry filters of
`listLeaves`, marshalling errors, and keys that cleaning changes (`dev/./db`): a key is a
sequence of segments as it is stored, so that the spelling of a result and of a failure
is the same here. What becomes of other spellings is in `Views`. `RetrieveMany` is in `Guard` (its chunks and
partial answers) and `Views` (what a reader makes of it).

### Gateway and EntryMap

`rows` is the index and `params` the Parameter Store, by key; `routes` is the
routing table of the current config snapshot, which `SwapRoutes` replaces under
the calls. A value is the number of the Upsert that brought it. `Backend` is
`resolveBackend` over the longest-prefix match of `Routes`; `""` is its error.

A call of Upsert routes its entries (`Upsert`), writes the parameters in any
order (`PutParameter`, one goroutine per entry in the code), waits for all of
them (`backendsDone`), writes the rows (`PutRow`) and returns. A Delete goes
through `param`, `root` and `walk`: the parameter of its key if the key is routed
to the Parameter Store, the row of the key, the rows below it. `Resolve` reads the
row and `ResolveReturn` the parameter it names. SSM, as the code uses it,
refuses to turn a String into a SecureString or back, and returns the ciphertext
of a SecureString to whoever does not ask for decryption (`Ciphertext`).

The index appears at the grain at which `EntryIndex` is checked: rows are written
and removed one at a time, results are honest, an undisturbed Delete removes
its subtree. Markers are left out, keys are sanitized already, and the empty key
is left out because `ByPrefix` refuses it, so that a Delete of it fails before it
touches a store. Also left out: tags, tiers and versions. The guard is in `Guard`.

A request may be sent again after its answer was lost: `BatchWrite` puts the whole chunk
again (`dynamodb_kit.go:64`), the SDK a parameter (`ssm.go:182`). So `PutRow` and
`PutParameter` may take effect and stay to be taken again, any number of times, also
after another Upsert of the same key has overwritten what they wrote. DeleteParameter
sent again would find nothing to remove, since calls of one key do not overlap a
Delete, and DeleteRow may be repeated.

`EntryMap` says what a client may rely on. A call wants some keys to have a value;
each change takes effect at one instant while the call is open, and, because of the
repeated requests, maybe at others; a change that is reported done has taken
effect, or has been overwritten at once by another that was under
way, and does not take effect again; nothing else changes the map. A change that its
call does not report done may still come about later (a parameter whose row was not
written shows when another call writes the row). `ImplementsMap` is this specification with
`entries` replaced by what an uninterrupted `Resolve` would answer. `pending`,
`owed` and `reported` are history variables: the changes that may take effect, those of
them that must be seen before the call may report them, and what the call that has just
returned reports. `claims` (also history) is
where each call takes its keys; `Orderly` uses it to keep apart calls of one key that
would go to different places. `seen` is, for each `Resolve`, what its key had, was being
given or, under a Delete, could lose since it began (`Prospects`).

### Watch

A value is the number of the write that stored it. `store` is what `nbox` would
answer, `prior` what a lagging replica may still hold for each key, `tasks` the
events of Recorder goroutines that are not out yet, `bus` the NATS subject.
Per stream there is the phase of its `Watch` call, its request, the prefixes
still to fetch (`todo`), the rows the Scan has not read yet (`scan`), the rows
not sent yet (`burst`), its channel (`buf`) and the event it is resolving
(`delta`). `flights` is the `singleflight` group, `view` what the agent was told
by subject. `missed` is history: the writes whose event was lost or dropped.

A key is a sequence of characters here, since the broker compares with a raw
`strings.HasPrefix` and the snapshot on a segment boundary; the prefix `a`
filters deltas of `a/b` and of `aa/b` but scopes the snapshot to `a/b`. The empty
prefix lists only the entries of the root level. Folder markers are left out.

An Upsert of several entries is several Upserts: each has its own event, and the
order in which the goroutine publishes them is arbitrary. A waiter that
`singleflight` wakes only seals and sends, so `ResolveDone` moves all of them in
one step. Left out: keep-alives, sealing itself, HTTP retries (a request
succeeds or fails in the end). Tracking records are in `Views`, the token of a
stream is in `Access`.

### Guard

Each element of `Calls` is a goroutine that uses one guard: `BatchGet` (of the `Readers`), whose
chunks are calls of the guard one after the other, or a request of the Parameter
Store (`SSMRequest`). `phase` is where it is in `Execute`: waiting for the
semaphore, holding a permit, in its request, or backing off before it asks for
what came back unprocessed. `breaker`, `failures` and `probing` are gobreaker;
instead of its generation numbers `fresh` says of each call whether the present
generation has admitted it. The service may go down, callers may leave and Deletes may miss their
parameter any number of times. `blame` is history: of the requests that the present
generation had admitted, how many have failed in a row, so that a breaker that counts
the late results of an earlier one opens without it. `BreakerRecovers` has three
premises: that the service works and answers in full from some time on; that from some
time on nobody leaves in the middle of a request and no Delete misses its
parameter (`Disturbs`), for each of these counts as a failure and, if it goes on, can keep the
breaker open; and that calls keep coming.

### Boxes

A spec is a file with successive contents; its edit number stands for it in the
registry (`specs`), in the engine's two caches and in the definition (`def`) that
a call has resolved. `Reload`, `LoadFile` and `Install` are the three parts of a
reload: only the last is under the lock. A call of UpsertBox takes its templates
one by one through `Process`, `Validate`, `PutObject` and `PutRecord`. What a schema
accepts is a constant; how a body is parsed goes by the extension of its name, text
if there is no strategy for it (`Format`). `raced` and `overtaken` are history and name the two
exemptions: a spec whose replaced edit a call still held, and a reload that saw
another one install.

### Access and Login

`table` has an item per entity (role, user, ARN, prefix) with its data and
version; a secret stands for its hash. Operators run commands of nbox-cli: `Begin`,
`GetCurrent` (the command's own read), `GetVersion` (AdminStore's) and `PutItem` or
`DeleteItem`. A kind has a snapshot per process: `BeginRefresh`, a `ReadPage` per
item, then `Swap` or `QueryFails`; the first refresh is `Start`, and `up` says that it
has succeeded. Clients log in by the current snapshot, hold a token of `TTL` ticks
and need values now and then. What they need (`wants`) either takes the token - a vault
value, the snapshot of a new stream, a request of a user - and is answered by `Serve` or
refused by `Expire`; or it is the delta of a plain entry, which the loop of `Watch` sends
with its value for as long as the stream is open, and never looks at the token
(`Deliver`). `AccessRunsOut` is about the former only. History: `dirty` (operators whose item is no longer
what they read), `had` (what could be read of an item since its refresh
began) and `since` (how long ago a snapshot accepted the client).

`Login` has no variables. A payload is a sequence of entities; `Chain` chooses its
source, `ParseRoles`, `ParseARNs` and `ParseUsers` make stores of it, `authenticate`
and `tryBasicAuth` answer a login, `Mint` and `Token` make a token and `tryJwt` reads it.
IDs, ARNs and hosts are sequences of words, what is malformed in a request is
named in its field `bad`, what AWS replies in `reply`. `decodeWire` and
`parseSTSResponse` read the request that a client signed and what AWS answers to it.
`Exact`, `Alike` and `Carries` compare
these with a reference over all payloads and all requests; TLC takes those of up to
two parts (`LoginAssumption`: a document is a sequence of entities). Left out: bcrypt and signatures, OPA policies, the
switch that turns authentication off, the headers of a refused HTTP request.

### Routes

A text is the sequence of what is between its slashes, so that the code's trimming
has something to trim. `CanonicalizeKey` is what the middleware makes of a request's key and
`NormalizeKey` the name of its parameter, both by way of `path.Clean` (`Clean`).
`written` runs commands of nbox-cli one after the other, `ParseIndex` and `ByPrefix` are
the index of a snapshot, which compares the lengths of texts (`Length`). What the code does in a
loop (cleaning, the commands) is a recursive function over the word or the commands.
`Specific` compares the outcome with the longest path. `Gateway`'s routing tables are
made by `written`. `ConfigBacked.Upsert`, which stores a prefix as it is given, is not
modelled: only tests call it.

### Views

Writers are one step per batch, which may fail in part; how an entry gets into the
stores is the matter of `Gateway` and `EntryIndex`. `Routings` says which backend each
entry is routed to, and an Upsert may meet any of them: a secure entry may be routed to
the index, for want of a configuration of its prefix (`gateway.go:57`) or by one
(`prefix.go:87`), and then its row has the value. `shown`, `registered` and `record` are what
the Recorder makes of a batch, `CreateBatch` its goroutine. An Upsert reports an entry of the
index under its sanitized key and files a failure under the cleaned one, so that an entry
spelled `dev/./db` is recorded though it failed (`misfiled`). An Upsert also puts the markers
of the folders above its entries (`markers`), which the listing of a level returns as
entries without a value (`Marker`), while it leaves out keys that begin with `_` (`Locks`). There is one reader
(readers share nothing): it builds a template (`Build`, a `BatchGet` per variable,
`BuildDone`), exports a level (`Export`, `ListPage`, `ExportDone`) or asks for a history
(`History`, whose bounds `parseTimeParam` reads, `HistoryPage`, `HistoryDone`), while
entries change. A text is a sequence
of items, each a sequence of words or a variable; `Begins` says which placeholders
begin with the name of another. `rank` is the order of the texts of times, which
is not that of times. `had`, `before`, `given` and `written` are history. Left out: escaping and
layout of formats.

## Runs

| Run | Shows | Bounds |
| --- | --- | --- |
| `index_faults` | `TypeOK`, `ResultsHonest`, `UpsertHeals`, `DeleteConfined` with every failure, crash and interleaving | 2 calls, 2 keys that share folders and differ in case, chunks of 2 |
| `index_walk` | `DeleteRemovesSubtree`, `OrphansAreOwned` when nothing fails and Upserts do not overlap Deletes | 2 calls, tree of depth 4 in two branches, pages of any size |
| `index_live` | `CallsReturn` with every failure and stale reads | 1 call, a three-level key |
| `gateway` | `TypeOK`, `ResolveRegular`, `NoDanglingRows`, `RoutesSpecific`, `ImplementsMap` with failing requests, requests that are sent again, crashes and changes of routing | 2 calls, 1 Resolve, a key and its parent, 2 Upserts, 2 routing tables, 2 changes; tables made by up to 3 of 10 commands |
| `gateway_half` | `UpsertRestores` when, besides, the index fails after a backend has done its part | the same without the Resolve, 1 change |
| `gateway_delete` | violation: `DeleteLeavesNothing` | 1 call, no failure |
| `watch_plain` | `TypeOK`, `PlainKeysConverge` when writers of one key wait for its earlier event to be out | 1 stream, 2 keys, 3 writes, a channel of 1 |
| `watch_vault` | `VaultKeysConverge`, `VaultDeltaFresh`, `FailuresContained`, `DeltasDrain` | 2 streams, 1 key, 2 writes, a channel of 1 |
| `access` | `TypeOK`, `LoginExact`, `FailuresAlike`, `CommandsKeep`, `RefreshHonest`, `AccessRunsOut`, `SnapshotsConverge`, `ClientsServed` | 2 operators, 2 commands, 2 roles and a user, 1 client, 1 fault, a token of 1 tick; payloads of up to 2 of 8 entities, 26 requests |
| `boxes` | `SchemasCurrent`, `RecordsStored`, `ReloadForward` | 2 calls, 2 reloads, a spec of 3 edits, 2 stages, 2 names, 3 bodies, 2 uploads |
| `guard` | `TypeOK`, `LookupComplete`, `OpensOnFailures`, `BreakerRecovers`, `CallsAnswered` | 3 calls, one of them of lookups, 2 permits, 4 keys in chunks of 3, 1 retry, a breaker of 2; outages, callers who leave and missing parameters without bound |
| `views` | `SecretsHidden`, `HistoryHonest`, `HistoryNewest`, `BuildFilled`, `ExportHonest` | 2 Upserts, 3 keys in several spellings, a level with a folder and a lock, 2 routings, 3 templates, histories of 2, a clock of 2 seconds |

Why the bounds are enough. Two calls are the smallest number that interleave,
and every property of the index is about one call against the rest. The tree of
`index_walk` has a folder at each distance from the targets that Delete treats
differently: the target's own level, a child folder and a grandchild. A chunk
size of 2 makes an Upsert of a deep key span several batches. In
`gateway` the two routing tables differ in every way `Backend` can see: which of
two prefixes matches, plain and secure entries in either store, no place for
secrets; the change between them is what makes an entry be written by one table and
read or deleted by another, and two Upserts are enough to write it again after.
Streams interact
only through a shared resolve, for which two are enough; a channel of 1 is full
as soon as an agent lags one event behind. Two writes give an older and a newer
event, and a third a write that both the snapshot and a delta carry.
`guard` has two permits for three callers, so that a half-open breaker meets a second
request while one probes and another waits, and results come late for a generation that is
over; four keys make two chunks, of which the first can come back in part, and only one
caller looks keys up, which in the code has a guard apart from that of requests. In `boxes` the middle edit of the spec does not compile, so that a
reload can drop the spec and one can bring it back. In `access` one fault is
enough, because nothing in the code counts them, and two commands are the
smallest number that overlap. In `views` one
routing has everything in the index, secure entries too, and the other only the locks; one key is
written with a dot and one in upper case; there are three records of a key, one more than
the limit, and one of each kind that the listing of a level tells apart. The tracking
store does not fail (`"track"`) to keep the run small; the theorems hold with it.

Environment switches are CONSTANTS, so that a run says which assumption a
property needs: `Failing`, `StaleReads`, `Overlap`, `Paged` in `EntryIndex`;
`Failing` and `Racing` in `Gateway`; `Failing`, `Editable` and `Lagging` in `Access`; `Failing` in
`Boxes` and `Views`;
`Spaced`, `Deletes`, `TraceReuse`, `Lossy`, `StaleScan`, `Drops` in `Watch`. `Guard` has none.
Except for `"track"`, every one is off in some passing run only because a violation is known with it
on; the next section lists them.

Deadlock is not checked where a run ends with all writes done and all calls
returned, which is where the system rests.

Fairness. `EntryIndex`: a goroutine keeps running and the back-off of a batch is
bounded (15 s), so `Step` and `GiveUp` of each call are weakly fair. `Watch`: the
Recorder's goroutine has 5 s, requests to `nbox` 10 s, so publishing (or losing),
handling, each stream's step and each resolve are weakly fair. `Guard`: requests have
time-outs and the semaphore is first come, first served, so the steps of a call are
weakly and `Acquire` strongly fair, and the breaker's time-out passes. `Access`:
commands and refreshes go on (`Run` is a loop with a ticker), replicas catch up,
clients try again to log in, and a request is not outrun by the end of its token
each time (strong fairness of `LogIn` and `Serve`: a token lives for minutes,
a request for seconds). New calls, writes, faults, disconnects and crashes are
never required.

## What the code does that its documentation does not say

- *What Delete leaves* (`gateway_delete`). Delete is routed as a plain entry and
  deletes one parameter. The parameter of a secure entry stays when plain entries
  of its prefix live in the index, and so do the parameters of all entries below
  the key. Their rows are gone, so nothing lists them any more; a plain Upsert of
  the key is then refused by SSM where it should replace a SecureString.

Seen in the same models, by changing the constants of a run:

- `index_walk` with one call, `Failing = {"root", "page", "level"}` and the batch `a/a/b/a` breaks
  `DeleteRemovesSubtree`: Delete (`dynamodb.go:422`, "the target item and its entire
  subtree") removes a page of rows, markers included, before it visits the folders they
  name. If it fails in between, a second Delete does not find the marker, reports
  success and leaves the entries below, which `List` with `leaves=true` still returns.
- The same with segments `a`, `b`, `ab`, `bb` and batches `a/bb/b`, `ab/b/b`: Upsert keys
  markers by `parentPath` and `parentKey` without a separator (`dynamodb.go:215`), so in one
  batch `a/bb/` and `ab/b/` are the same string and the second marker is never
  written.
- `watch_plain` with `Spaced = FALSE` and two writes breaks `PlainKeysConverge`: two quick writes
  of one key may be published in the other order (`recorder.go:164`), and an agent
  that does "last-write-wins by `subject`" (`examples/grpc-client/README.md:145`)
  keeps the older one until the next write or reconnection. The same happens to
  a key whose newest event is lost while an older one is on its way. Vault keys do
  not suffer from it, because their value is read on delivery.
- In `watch_plain` an agent keeps a deleted entry: `Recorder.Delete` (`recorder.go:184`)
  publishes nothing, although `SUMMARY.md:402` lists `nbox.entry.deleted`. Convergence is
  therefore stated for entries that are stored.

- `watch_plain` with a request for `/a` instead of `a` breaks it too: the snapshot trims
  slashes (`dynamodb.go:380`) and the broker compares what was sent, so the agent gets the
  entries below `a` and never a delta, although `SUMMARY.md:404` promises "no gap".
- `watch_plain` with `StaleScan = TRUE` breaks `PlainKeysConverge`: the Scan of the
  snapshot may miss a write whose event went by before the subscription.
- `watch_plain` with keys in mixed case does too: the subject is the key as the
  writer spelled it, the row is stored lower-cased.
- `watch_vault` with `HasClient = FALSE` breaks `FailuresContained`: a vault event
  for an agent with a public key calls a method of a nil `Snapshotter`.
- `watch_vault` with `TraceReuse = TRUE` breaks `VaultDeltaFresh`: the event id is the
  trace id of the request, so two writes in one trace share it, and `resolveOnce`
  can hand the second event the value that was read for the first.
- `gateway` with `"between"` in `Failing` breaks `ImplementsMap`: an index that fails
  after SSM has answered is logged and success is reported, although no row
  points to the parameter; likewise a Delete reports success with its rows in
  place. `gateway_half` shows that repeating the Upsert repairs the entry.
- `gateway` with `Racing = TRUE` breaks `NoDanglingRows`: a Delete between the two
  writes of an Upsert removes the parameter, and the Upsert then writes its row.
- `ResolveRegular` has one exception that cannot be removed: a Resolve that read the
  row of a plain parameter, and was overtaken by a Delete and a secure Upsert,
  returns the text of the SecureString undecrypted.
- `index_walk` with `StaleReads = TRUE` or `Overlap = TRUE` breaks
  `DeleteRemovesSubtree`: the walk misses a marker it cannot see yet.
- `guard` breaks `BreakerRecovers` without its premise that Deletes find their parameters and
  that callers stay: `ParameterNotFound` of a Delete is turned into success outside the guard
  (`ssm.go:169`), which has counted a failure, as it counts a caller that leaves; enough of either
  open the breaker while the service works, and more of them keep it so.
- `access` without the exemption of `dirty` breaks `CommandsKeep`: a rotation
  ("zero-downtime", `config.go:361`) that overlaps another or a removal loses a secret
  or brings a role back.
- `boxes` without the exemption of `raced` breaks `SchemasCurrent`: a call that resolved a
  spec before a reload compiles the old definition into the fresh cache under the
  same ID, where it stays until the next reload (`cue_engine.go:155`). Without that of
  `overtaken` it breaks `ReloadForward`: the slower of two reloads installs older files.

Met while reading, and modelled as the code does it:

- Access: a stream sends the deltas of plain entries, values included, for as long as it is
  open, also when its token is long over and its credential gone from the table
  (`stream_server.go:122-142`); only vault values and snapshots take the token.
- Push: an agent that asks for everything with an empty prefix is sent deltas of
  every entry, but a snapshot of the root level only.
- Gateway: `README.md:144` says "Si secure es true, el
  valor se almacena en AWS Parameter Store." A secure entry whose key has no prefix
  configuration falls back to the index (`gateway.go:57`), and `TypeSecure` may name `dynamodb`
  (`prefix.go:87`); then its value is in its row, in plain text. Builds and exports show
  it, and so does the history, where `res.Output` replaces the mask `*****`
  (`recorder.go:130-136`). `SecretsHidden` is therefore stated for values that
  were only ever sent to the Parameter Store.
- Access: a credential that is not JSON is answered as an internal error
  (`approle/authenticator.go:51`); the status of a user is not looked at
  (`auth/store/inmemory.go:63`); an ARN that is stored with the path of its role or
  as a session never matches (`arn_normalize.go:16`); a variable of the environment
  shadows the table, so that nbox-cli reports success without effect (`source.go:71`); versions
  start again at 1 after a failed read (`admin.go:27`); a stream's token is minted at
  login only, although `m2m.go:10` speaks of minting on demand.
- Routing: `GET /api/prefix/resolve` answers 400 for a key without a prefix, where its
  documentation says 404.
- Boxes: of several specs that match a name any is taken (`registry.go:79`); a spec that
  does not compile is skipped with a warning (`fs_store.go:53`); a template whose object
  could not be stored is answered as valid (`s3.go:94`), and a record that could not be
  is only logged (`s3.go:192`); two uploads of one template can leave the hash of one with
  the object of the other.
- Builds: placeholders that begin with the name of another are replaced in part, in
  the order of a map (`renderer.go:103`); a variable that is not spelled as its key is
  missing, and two spellings of one key are refused by DynamoDB (`dynamodb.go:97`); a
  value that ends in a quote loses it in JSON (`json_strategy.go:18`); every failure to read a
  template is reported as 404.
- Exports and histories: the export handler answers 400 to every error, where its
  documentation says 404 and 500; an export has a line without a value for each folder of its level
  and is not refused when there is nothing but folders (`dynamodb.go:345`); a failed entry of the index that
  was spelled with `.` or `//` is reported and recorded as written (`dynamodb.go:210`, `:264`); the bounds of a history are to the second, and a
  record on the second sorts after those half a second later; an entry
  of the index that was written in upper case, or with blanks or slashes around its key, is not recorded
  (`recorder.go:115`), and Deletes are not recorded at all.

## Proofs

Every safety property of the runs is a theorem. A theorem holds for every value of the constants that the named assumptions of the module
allow, so for any number of calls, streams, keys, retries and failures; a run shows the
same property on one small instance. Where a theorem has a hypothesis, it names the
switches that the run has off too, and the section above tells what happens with
them on.

`EntryIndex_proofs`:

- `IndexTypeCorrect`: `Spec => []TypeOK`.
- `IndexDeleteConfined`: `Spec => DeleteConfined`. The invariant that makes it
  inductive, `WalkInv`, says that everything a Delete has on its lists is under
  its target: the folders of its frontier, the folder it reads, and the rows
  it has yet to delete. The walk only ever adds the key of a row it has read in a
  folder under the target (`childFolders`), which is one segment longer, hence
  still under it.
- `IndexResultsHonest`, `IndexUpsertHeals`: `Unambiguous => ...`, that no two markers of
  one batch share the string by which Upsert keys its map (`parentRecordKey`). `PutInv`:
  each row a call owes its keys is still to be sent, in hand, given up or written.
  `HealInv`: what it has written is in the table until a Delete disturbs it.
- `IndexOrphansOwned`: `Calm => Spec => []OrphansAreOwned`, where `Calm` is no failure, no
  stale read, no Upsert under a Delete, and `Unambiguous`. `Owned` strengthens the
  property to all markers above an entry, not only the lowest that is missing:
  each is about to be put, or a folder at or below it waits in some frontier and its own
  marker is gone as well. For that, `Folders` says that a Delete has in its frontier
  each folder whose marker it is about to remove, and has read or is about to read
  every row of the folder it is in; `PutTree` that an Upsert brings the markers with
  the entry.
- `IndexDeleteRemoves`: `Calm => Spec => []DeleteRemovesSubtree`. `Reached` says of a leaf
  still under the target that a folder above it waits in this Delete's frontier, or that a
  marker above it is gone, and then by `Owned` some call still has that on its list.

`Gateway_proofs`:

- `GatewayTypes`: `Spec => []TypeOK`, racing calls included.
- `RepeatRepairs`: `~Racing => Spec => UpsertRestores`. `ClaimsInv` says that what calls
  have at hand is what they claimed (`ClaimsHeld`) and `RowsNamed` that a row which
  waits to be written names a parameter that is there and of its kind.
- `RowsResolve`, `ResolveAnswers`, `GatewayImplementsMap`: with `~Racing` and no failure
  between the stores, `NoDanglingRows`, `ResolveRegular` and the refinement `ImplementsMap`.
  `QuietInv` adds `RowsKept`: every row that names a parameter has it, but for the row whose
  parameter a Delete has just removed and which it removes next. The refinement needs the
  bookkeeping of promises (`CallsInv`): a value that is on its way is new and
  promised (`StoresFresh`, `WorkNew`, `WorkDistinct`), a parameter that no row names yet is
  promised by whoever wrote it (`HiddenPromised`), what a call will report done is so or
  waits for its row (`UpsertsHonest`, `DeletesHonest`). With that each step of the
  Gateway is a `Begin`, a `Take`, a `Return` or a stutter of `EntryMap`; a change stays pending, and may be
  taken again, until its call has reported it. `ReadingInv` says what a
  Resolve under way has seen.
- `RoutesStaySpecific`: `Spec => []RoutesSpecific`, from `EveryKeyResolves`, which says the same of
  any number of commands one after the other (the property has at most three). Each part of
  `Routes` has its lemma: a table stays one in which each config is filed under the ID of a
  canonical prefix, whatever the commands (`UpsertedUsable`, `WrittenMade`); the index of a snapshot then
  is that table (`IndexIsTable`); cleaning leaves a key with no empty, `.` or `..` segment, and a
  clean key as it is (`CleanRuns`, `CleanKeeps`); of the configs at or above a key one is above the other, so that the
  deepest is the one with the longest text, which the code picks (`LengthDeeper`, `ByPrefixDeepest`).
  The prover cannot use an induction theorem that takes a predicate, so `Climb` and
  `Recursion` do the induction over a set of numbers, by the well-foundedness of `<`.

`Watch_proofs`:

- `WatchTypeCorrect`: `Spec => []TypeOK`, in particular that no channel ever holds
  more than its buffer. One lemma per group of actions says what they do to the
  types of the variables they write.
- `WatchVaultDeltaFresh`: `~TraceReuse => (Spec => VaultDeltaFresh)`. In `FreshInv` ids are
  write numbers, so two events with one flight key are
  the same event, and a flight reads the store after the event's write.
- `WatchFailuresContained`: `HasClient => (Spec => FailuresContained)`. `SharedInv`: a flight
  is led by a stream that waits for it, and no two flights have one key.
- `WatchWaitsAttended`: with a Snapshotter, who waits for a plaintext waits for a flight
  that is in progress, and its leader does too. It is the safety half of `DeltasDrain`: no wait
  outlives its flight, and that flights end is what `Fairness` says.
- `WatchVaultStreamsConverge`: `~TraceReuse /\ InStep => (Spec => []VaultStreamsConverge)` and
  `WatchPlainStreamsConverge`: `Spaced /\ InStep => (Spec => []PlainStreamsConverge)`. `InStep` is
  that there is a Snapshotter and that Scans are not behind.
  Each is about one agent and one key, which writers spell as it is stored (`Spelled`) and which
  the prefixes the agent asks for match for the broker too (`Asks`), whatever other agents ask for
  and other keys are like. When all keys and requests are such (`AsStored`,
  `PrefixesMatch`), `VaultKeysConverge` and `PlainKeysConverge` follow
  (`WatchVaultKeysConverge`, `WatchPlainKeysConverge`). The
  properties speak of pipelines that are at rest; the invariant, `VaultPlaced` and
  `PlainPlaced`, says where the newest value of a key is at any time, for each agent that is
  owed it: its event is out or in the channel or awaits its plaintext, or the snapshot
  has the key ahead of it, or the agent has the value. What threatens that is an older
  event that arrives last. For vault keys it is harmless unless a shared resolve has read
  too early: `LagsRepaired` says that behind each event such a flight will answer comes the
  newest one, and `PublishedOnce` that an event is in one place. For plain keys `OrderInv`
  says that events of one key are in order from task to channel, and `OldOnBus` and
  `OldQueued` that behind an old one on the bus or in a channel comes the newest.

`Boxes_proofs`:

- `BoxesRecordsStored`: `Spec => []RecordsStored`. Its invariant `StoreInv` says that a
  template past `Process` parses if it is not text (`InHand`), that before a record is
  written the object is there with the body among its past ones (`ObjectFirst`), and that
  all objects parse: a record is then only ever written over something that can be built.
- `BoxesSchemasCurrent`: `Spec => []SchemasCurrent`. Caches are filled from the definition a
  call holds, so the invariant adds `HeldCurrent`: that definition is the one in the
  registry unless a Reload has replaced it since, which is what `raced` records.
- `BoxesReloadForward`: `Spec => ReloadForward`. The invariant `Reading` follows a Reload:
  what it has read of a file was on disk since it began, and the registry was no newer
  then, unless another Reload has been installed.

`Guard_proofs`:

- `GuardTypes`: `Spec => []TypeOK`, which includes that the free permits and the
  calls that hold one add up. `Counting` relates their number to the cardinality of the
  set of holders.
- `GuardOpensOnFailures`: `Spec => OpensOnFailures`. Its invariant `Counted` says that
  the breaker never counts more failures than there were, of requests it had admitted in this
  generation, since the last of these that succeeded.
- `ProbesUnderWay`: `Spec => []OneProbe`, the safety half of `BreakerRecovers`: a half-open breaker
  refuses only while one request of its generation is under way (`ProbeInv`), so
  it never waits for a result that a late or cancelled call would have had to bring.
- `LookupsComplete`: `Spec => []LookupComplete`. `LookupInv`: the chunk in hand and those to
  come are disjoint (`ChunksPartition`), and what has been read is what is
  wanted without them.

`Login_proofs` proves `Exact`, `Alike` and `Carries` (`LoginsExact`, `FailuresCollapse`,
`TokensCarry`) for payloads of any length and all requests, from `LoginAssumption`; in
`Access_proofs` they become `LoginsStayExact` and `FailuresStayAlike`, and besides:

- `AccessTypes`: `Spec => []TypeOK`. `Numbered` says that the version of an item is no more
  than the commands that are over, and one.
- `RefreshesHonest`: `Spec => RefreshHonest`, by `Loaded`: what a refresh has read of an item
  could be read since it began.
- `AccessEnds`: `Spec => AccessRunsOut`, by `Recent`: while a token is valid its client was accepted
  no longer ago than the token's age. It says nothing of the deltas of an open stream, which
  take no token.
- `CommandsKeepAccess`: `Spec => CommandsKeep`, by `Drafted`: a command whose item is still
  what it read is about to write what it makes of the present item; and by a lemma that
  merging takes no secret away unless the command means it (`MergedKeeps`).

`Views_proofs`:

- `RecordsHonest`, `NoSecretShown`: `HistoryHonest` and `SecretsHidden`. `StoreInv`: each row
  and each record comes from an entry that was given, as `Row` makes it by the backend it was
  routed to, so that one in the Parameter Store shows its address; and each record from one that was
  written, or is `misfiled`.
- `ExportsHonest`, `BuildsFilled`: `RequestInv` says that what has been read is a row its key
  had since the request began, `AnswerInv` that the answer is made of that, and `BuildInv`
  that the body of a build is its template with the placeholders replaced, in whatever
  order the arguments came.
- `NewestListed`: `HistoryNewest`. `ListInv` says that the list is in order of the texts of
  times, without duplicates and within its bounds, and that a record it lacks comes after
  its last; lemmas on `rank` and `bound` carry that over to times, to the second.

These proofs rest on the named assumptions of the constants and nothing else. They
are about types and about inputs the program can be given (`IndexAssumption`,
`WatchAssumption`, `GuardAssumption` and so on; that of
`Boxes` includes that `"none"` is not the name of a file, of a template, or a body;
`KeysAssumption` of `Views` that keys of the index are clean). TLC evaluates each of them
for the instances of the runs.

Not proved, only model-checked: liveness (`CallsReturn`, `DeltasDrain`, `BreakerRecovers`,
`CallsAnswered`, `SnapshotsConverge`, `ClientsServed`), which is out of the prover's reach.
`WatchWaitsAttended`, `ProbesUnderWay` and the permits in `GuardTypes` are what those properties
need of the states: that whoever waits, waits for something that is under way.

## Plan

1. *Done*: `EntryIndex`, `Watch`, `Gateway` and the map it implements.
2. *Done*: `Guard`, `Boxes`, `Access` with `Login`, `Routes`, `Views`.
3. *Done*: the theorems about all their safety properties, about routes for any number of
   commands, and about convergence agent by agent and key by key.
4. Left: the liveness properties, should the prover learn to.

## Not modelled

Of the HTTP transport only the cleaning of keys is modelled (`Routes`); decoding, encoding
and status texts, and the wiring, keep no state and
decide nothing that other modules do not have: what a handler decides is in the module
of its component. The OpenAPI text (`docs/docs.go`) and the generated gRPC code are data.
Escaping and layout of exports, CUE and OPA evaluation, bcrypt, JWT signatures
and sealing are libraries or formatting. Tags and tiers of parameters, keep-alives
of streams, audit logs, metrics and health checks have no effect on what is
stored or answered.
