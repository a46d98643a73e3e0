# A formal model of the Aithos protocol implementation

This directory holds TLA+ modules that are translated from the TypeScript code
of this repository, the TLC configurations that check them on small instances,
and theorems about them that TLAPS checks for every value of their constants.
The code is the reference throughout. Where a document or a comment says
something else, a run or the section *Known divergences* says so.

## 1. The system

Aithos gives a person (the *subject*) a signed, versioned, partly encrypted
document, the *ethos*, and lets applications and agents act for the person under
signed *mandates*. The repository has these parts.

| Part | Where | State it keeps | Operations |
|---|---|---|---|
| Data PDS | `packages/data-backend` | DynamoDB tables: collections, records, gamma entries, schemas, revocations, nonces, DID cache | `insert_record`, `update_record`, `delete_record`, `create_collection`, `authorize_app`, `revoke_app`, `rotate_cmk`, `register_schema`, gamma reads and verification |
| Assets PDS | `packages/assets-backend` | DynamoDB items and pending uploads, S3 objects, one quota item per subject, a gamma log | `init_upload`, `complete_upload`, `abort_upload`, `ref_asset`, `unref_asset`, `delete_asset`, owner wrap rotation, reads |
| Request authentication | `packages/protocol-core/src/envelope.ts`, `packages/pds-auth`, `*/lambda/auth` | nonce table, DID cache of an instance, revocation lookups | build a signed envelope; check one, spend its nonce |
| Ethos document | `packages/protocol-core` | a directory per identity: manifest, zone or section files, history, gamma log; mandates and revocations beside it | add, modify and delete a section, batches, migration v0.2 to v0.3, grant, revoke, rotate, verify, pack, install |
| Signed documents | `packages/protocol-core/src/mandate.ts`, `ethos-authz.ts`, `sponsorship.ts` | none: decisions about one document | mint, verify, revoke; sign and counter-sign an action; eligibility, receipts |
| CLI | `packages/cli` | the same directory | one process per command |
| MCP server and gateway | `packages/mcp` | sessions, the open transaction of each, downstream clients, audit log | section tools, `ethos_commit`, `ethos_discard`, federated tools, actions, inferences |
| Client cryptography | `packages/data-crypto`, `packages/assets-crypto` | none | wrapping and rotation of keys |
| Mission harness | `deploy/container/harness` | the mailbox it polls, an agent process | poll, claim, run, report, stop; revocation watcher |
| Agent tools, infrastructure | `packages/agent-tools`, `*/cdk`, scripts | none in this repository | tables, deployment |

**How they interact.** The PDSs are Lambda functions: every request is an
invocation of its own, requests of several clients run at the same time, and a
handler is a sequence of DynamoDB and S3 calls without a transaction. Two
requests meet in the tables only. Reads are eventually consistent, because no
`GetCommand` or `QueryCommand` of the modelled handlers asks for
`ConsistentRead`. Each data or asset handler ends in an append to the gamma log
of the subject. `authenticate` consults the revocation table that `revoke_app`
fills. Clients make the keys: `data-crypto` reads the collection, prepares
wraps and sends them to `authorize_app` and `rotate_cmk`. The CLI and the MCP
server call `protocol-core`, which reads and writes the identity's directory
file by file, without a lock. Bundles carry an edition from one keystore to
another. The host of an agent runs one MCP server per session, and opens clients
to the downstream servers that its mandate grants. The harness calls the
gateway's section tools, behind which the mailbox is a set of sections.

**What is hard.**

- Two requests between any two calls of each other: a read before an `await`
  and a write after it (records, references, wraps, heads of the log, quotas).
- An invocation or a process that dies between two writes: half of an upload, of
  a rotation, of an edition; and the retry that must mend it.
- Reads that lag, caches of a Lambda instance, answers that get lost.
- Clocks: `modified_at` is the version of a record, ULIDs are the order of the
  log, the freshness of an envelope is judged by the clock of a Lambda instance
  against that of the client, and none of these clocks is shared.
- Consent that ends (a revocation, a rotation, an expiry) while requests, commits
  and downstream calls that it had let in are under way.
- Calls of one agent that overlap: each `await` of a tool lets another call change
  the transaction that the first has in hand.
- Editions that were made elsewhere and come back.
- A directory in one of two formats, with commands that know only one.

## 2. Modules

One module per component; `MC*` modules and their configurations instantiate
them for TLC; `*Proofs` modules hold the theorems.

| Module | Models | Composed with |
|---|---|---|
| `RecordStore` | `handlers/records.ts` of the data PDS, with the scope check of `router.ts` | refines `RecordLifecycle` |
| `RecordLifecycle` | abstract specification: the life cycle of a record | |
| `GammaChain` | `gamma/store.ts`: `getHead`, `appendGammaEntry`, `verifyChain` | |
| `CollectionKeys` | `handlers/authorization.ts`, the revocation table and its lookup in `authenticate`, client key wraps | records appear with the CMK of their DEK |
| `SchemaRegistry` | `schemas/store.ts`, `handlers/schemas.ts`, the lookup that writes make | |
| `AssetStore` | `uploads.ts`, `references.ts`, `lifecycle.ts`, `quota.ts` of the assets PDS, over S3, the tables and the log | |
| `Mandates` | `mandate.ts`, `ethos-authz.ts`: what a scope covers, what is minted, what verifies at an instant | used by `RequestGate`, `Sponsorship`, `EthosBundle` |
| `RequestGate` | `envelope.ts`, `pds-auth`, `authenticate.ts` of both PDSs: from the client that signs to the handler that runs | extends `Mandates` |
| `Sponsorship` | `sponsorship.ts`: sponsorships, eligibility, receipts | extends `Mandates` |
| `SealedKeys` | `data-crypto`, `assets-crypto` over ideal ciphers | used by `EthosBundle` |
| `EthosBundle` | one edition as a bundle: `bundle-v03.ts`, `bundle-v04.ts`, `identity.ts`, wraps and recipients of `ethos.ts` | extends `SealedKeys`, `Mandates` |
| `GammaLog` | `gamma.ts`: an entry from its input to its reader | extends `EthosBundle` |
| `EthosKeystore` | `keystore-v3.ts`, `bundle-edit.ts`, `bundle-v03.ts`, `bundle-migrate.ts`, the v0.2 persistence of `ethos.ts`, CLI `grant` and `revoke` | the two formats meet in one directory |
| `EthosEditions` | v0.2 editions with their gamma log, in the keystores of the owner and of its delegates; pack, install, verify, grant, revoke, rotate | several keystores and the bundles between them |
| `EditSession` | the write tools, `ethos_commit` and `ethos_discard` of `server.ts` over `filesystem-storage.ts` and `bundle-edit.ts` | |
| `AgentHost` | `http.ts`, `gateway.ts`, `action-federation.ts`, `llm-proxy.ts`, the wiring of `bin.ts` | extends `EditSession`: one of its sessions is the one that edits |
| `MissionHarness` | `harness.ts`, `mailbox.ts`, `mission.ts`, `bin/harness.ts` | several harnesses on one mailbox |

`PROJECT.json` maps every definition to the lines it stands for. The general
correspondence:

- An **action** is one call that other actors can see the effect of: a DynamoDB
  or S3 call, one file written, one call on the mailbox. What a handler computes
  between two such calls belongs to the action before or after. The variable
  `at` or `pc` holds which call is next, `snap` or `head` holds what a read
  returned, so that state read before an `await` is used after it as in the code.
- A **stale read** is a choice between the table and `replica` (or `lagging`,
  `visible`), which `Replicate` brings up to date. The model lets a replica lag
  for as long as it likes.
- A **crash** is an action that ends a request wherever it is; its client is not
  answered. A **retry** is another request that asks for the same.
- **Payloads** are the request or the edition that wrote them. Ciphertexts and
  keys are the number of the key or edition that opens them: a reader opens what
  it has a wrap for.
- **History variables** say what happened and have no counterpart in the
  code; each is commented as such where it is declared.

### RecordStore

`Submit` is the client (who may have read the record before, through a replica,
to learn `modified_at`), then `GetCollection` (insert) or `GetRow`, `Stamp`
(`new Date()` and the local checks), one of `PutInsert`, `PutUpdate`,
`SoftDelete`, `HardDelete` with its condition expression, `BumpCount` (the
best-effort counter) and `Audit` (the gamma entry, whose return is the answer).
`PutUpdate` writes back the row its Get returned, `deleted` included. A
depositor's scope check is `Granted`. `CoarseClock` says whether two handlers
may read the same millisecond. `Crash` and `Replicate` are as above. `BumpCount`
is an `ADD` that the SDK sends again when its answer is lost, so it may count
twice; `repeated` notes the inserts of which that is true. The clients are made
with the default retries (`ddb.ts:24`).

`RecordLifecycle` is the life cycle of the data model
(`spec/data/01-data-model.md:302-314`) with the exceptions that the code makes,
each a disjunct or a conjunct of its own: `Delete` clears the content (the data model
retains the ciphertext, `spec/data/05-api-primitives.md:256` clears it), `Revive` is
an update without `expected_modified_at` on a tombstone, and what was erased may be
created again. The refinement shows that these are all the exceptions.

### GammaChain

`ReadHead`, `DrawUlid`, `PutEntry` for each writer. An entry is its ULID and its
predecessor's; a hash names one entry. `Verified` is what `verifyChain` computes
over the first `WalkLimit` entries. The assets PDS has the same append.

### CollectionKeys

`item` is the collection item: the owner's CMK, the wraps of the apps and
`mandate_index`. `dek` is the CMK each record's DEK is wrapped under. Requests
carry the envelope that the client prepared from its own, possibly stale, read.
`authorize_app` has two paths (the first authorization creates the index),
`revoke_app` strips wraps and may rotate, `rotate_cmk` rewraps record after
record and then saves. `revoked` is the table that `authenticate` looks up. The
server stores whatever envelope it is sent (`authorization.ts:327`). What is sent is
what `data-crypto` makes of the collection that the client has read: it does not
authorize a reader that has a wrap (`MayAuthorize`), and its rotation retains whoever
it is told to, the app that is being revoked included (`PrepareRotation`); the
properties make an exception for an owner who asks for that (`KeptOnRevoking`).

### SchemaRegistry

An instance serves one request at a time and keeps its cache over requests.
`Register`, `Count`, `Check`, `Put` (conditional) and `Reread` (the race is lost)
are `register_schema`; `Validate` is the lookup of a write; `Forget` is the
expiry of a cache entry.

### AssetStore

Each operation is a `Script`, the order of its calls; each kind of call is one
action, which runs when a request is at it. `ClientPut` is the upload through
the presigned URL, `Expire` ends the URL or the pending row. `Starts` says which
assets a behaviour begins with: stored ones, and ones whose upload is under way. The
`ADD`s of the quota may be made twice, because the SDK sends them again
(`deps.ts:19`); `twice` notes it. A client may send a request again whatever became
of the first.

### EthosKeystore

A command is `job`. An edit is `BeginEdit`, `MigrateBuild` if the directory is
v0.2, `PatchBuild`, `Archive`, `CopyFile` for each file in any order (the code
takes them in the order of `readdirSync`), `Clean`. A grant or revoke is `Grant`
or `Revoke`, `Load`, `WriteZone` for each zone, `WriteManifest`, `ArchiveNew`.
`Crash` ends the command between any two of them. Assumptions: one command at a
time (the code has no lock); one file is copied atomically; one mandate per
agent; the initial directory is a fresh v0.3 one or a v0.2 one made before the
update, with some grants. The gamma log that is copied along, delegates'
writes to a v0.2 directory and `AITHOS_FORMAT=v0.2` are left out. `owed`,
`lost`, `flattened`, `skipped` and `dropped` are history: what each section
ought to say; the sections that a process died on; whether a v0.2 manifest was
written over a v0.3 directory; whether a process died between a v0.2 manifest
and its archive; the mandates whose revoke command returned.

### Mandates, Sponsorship, SealedKeys, EthosBundle, GammaLog

Pure operators, without variables: what the code computes of one document. A
signature is the key that made it with what it was made over, a hash is what was
hashed, a box opens with its key and the associated data it was sealed with. A title
and a body are text with white space before and after it and, in a body, a comment of
tags at its head, as far as `renderSectionFile` and `parseSectionFile` tell them
apart: what they trim, drop, prepend and refuse is what the two operators do. Each
place of the list of sections has a data key of its own, and of two that share an id
the file that is written last stays (`FilesOf`).
An operator that throws in the code has a guard of its own (`MayMint`,
`MaySponsor`, `MayReceipt`, `MayAuthor`), or returns `Failed`. A verification
returns the set of the checks that fail (`MandateErrors`, `ActionErrors`,
`BundleErrors`). The theorems of section 4 are about them; `RequestGate` calls
`CreateMandate` and `VerifyMandate` at the door.

### RequestGate

`Receive` is the arrival of an envelope, fresh, repeated or damaged, at an instance,
with the checks that need no call; `ResolveCached` or `Fetch` resolves the DID
document through the cache of the instance, `LookUpRevocation` asks the revocation
table (data PDS), the current one or the replica that `Replicate` brings up to date
(`revocations.ts:53` asks for no consistent read), `Commit` verifies the signature,
puts the nonce on the condition that it is absent, and goes on to the last refusals
and the handler. `Die` is the Lambda timeout. The owner publishes, rotates, voids and
revokes at any time (`Change`). `Expire` is the TTL of DynamoDB. `pds` says which of
the two services this is: they differ in the margin of the nonce, the sphere lock and
the lookup. Handlers are one step: `RecordStore` and the others have what they do. A
delegate writes what it likes into `proof.created`, at which its mandate is judged
(the `stamps` of a plan, or the time of `iat`).

### EthosEditions

`Write` is a write up to the gamma entry that it appends, before the edition it
belongs to, with the time of the machine it runs on: each keystore has a `clock`, none
knows another's, and each only goes forward. Then `WriteZone` for each file,
`Snapshot` of `did.json`, `WriteManifest`, `Archive`. `Grant` and `IssueWithRewrap`,
`Revoke` and `RepinAfterRevocation`, `Rotate` and `PublishKey` are commands of the
owner; `Pack`, `Install` and `InstallFile` carry an edition to another keystore. `Die`
ends a command between any two files. An entry is its place in `entries` and an
edition its place in `drafts`, which stand for their hashes. What `verifyEthos`,
`verifyGammaLog` and `verifyBundleDir` compute are the operators `VerifyErrors`,
`GammaErrors` and `BundleVerifies`. The self key of the owner has versions too: it is
pinned in the list of readers from the first entry on (`SelfKeyFor`), lists are
carried from entry to entry (`CarriedReaders`), and a log whose entries were sealed to
an old self key does not open (`LogOpens`), which `verifyEthos` reports in place of
the anchor and the references. The mandates in `logOnly` have `gamma.read` and nothing
else: a revocation of such a one seals nothing again. History variables: `lost`, the
entries whose process died before the zone file; `torn`, keystores with files of two
bundles; `died`, keystores where a process died and those that installed what it left
(only an edition of the owner, who writes all three zones, puts this right); `dropped`
and `readmitted`, agents whose revocation returned and those a bundle brought back.

### EditSession

A call of a tool goes from one `await` to the next: `BeginWrite` (handle, scope,
liveness), then `EnrollAndLook` or `LookForAppend`, `ReadPersisted`, `StageSeen` or
`StageAtOnce`; `BeginCommit`, `Apply`, `Finish`; `Discard`. `WriteNow` is a host
that commits by itself. `WriteBeside` is another session or command, and
`MandateEnds` a revocation or an expiry. A batch object outlives the variable
that pointed at it, which is what `batches` and `tx` are for: a call that enrolled
before its `await` pushes on the batch it has in hand, whatever `tx` is by then.
`raced`, `crowded`, `contested`, `stale` and `discarded` are history: what a client
or an operator could have known.

### AgentHost

`newSession`, `federate` (one server of the registry at a time), `OpenSession`,
`DeleteSession`, `close` and `Kill` are the life of sessions and downstream
clients; a call that others carry out is `CallTool`, `CallAction` or `Infer`, then
`Deny` or `Dispatch`, `TakeEffect` at any time once it is sent, `Hear` and
`Answered`, with its audit line. `ended`, `sent` and `unlogged` are history. The
MCP SDK is external: its transport gives a session its id during initialize, and
keeps it when it closes.

### MissionHarness

`Post` and `AnswerMission` are the orchestrator and the human; `Poll`, `Claim`,
`RunEnds`, `Report` the loop; `ClaimUnanswered` and `ReportUnanswered` calls that
may have been applied and throw; `Stop`, `Leave`, `Crash`, `Restart` the process.
`mailbox.kind` tells the two mailboxes: behind the interface ("contract") a claim fails
unless the mission is pending; the one that is shipped ("gateway") sends
`expect_status` to a section tool that does not read it, and its claim succeeds
whatever the status is. Properties and theorems are about both: what they say of a
mission that was claimed while it was not pending is what still holds of it.

## 3. Runs

CHECK_DEADLOCK is FALSE in every run, because a request is sent at most once and
clients, commands and humans may stop coming: a state without a successor is
one where nobody asks for anything more. Several invariants that one question
needs are conjoined under a name (`BooksAreKept`, `TableAgreesWithLog`,
`BytesAreAccountedFor`, `EnvelopeIsSound`, `RunsAreSound`, `DirectoryIsSound`,
`CachesAreSound`, `EditionsAreSound`); their parts are stated one by one in the
modules. Where one module has questions that need different bounds, the bounds
are a record, the *plan* or *mode*, and a behaviour begins by choosing one.

| Run | Bounds | What it shows |
|---|---|---|
| `MCRecordStore_open` | 1 record, 3 requests for any of 4 operations by 3 kinds of callers, crashes, stale reads | What holds in any case: an update with `expected_modified_at` replaces what its client read, an append-only caller overwrites nothing, answers are true, an id is created again only after an erasure, `record_count` exceeds what is visible by uncounted deletes and inserts counted twice only; the handlers implement the atomic register `RecordLifecycle` |
| `MCGammaChain` | 4 appends, 5 ULIDs, walk of 3 | A chain that is broken stays so; appends one at a time with current reads and rising ULIDs verify |
| `MCCollectionKeys` | 2 records, 2 apps of which one may have two mandates; 4 requests of every operation one at a time with crashes, or 3 about who reads for 3 mandates, or 3 that overlap with stale reads | Wraps follow authorizations and revocations; whoever has a wrap reads every record, unless a rotation was given up; the retry of a rotation that died between two records leaves both readable; a revocation that has answered is enforced |
| `MCSchemaRegistry` | 2 instances, 3 ids, a dispute over one, quota 1 | Caches hold registered documents only, answers are true, the quota is overrun by at most the other instances |
| `MCAssetStore` | 3 assets of one content: one that is stored or one whose upload is under way, and one to be uploaded; 2 references, 3 requests of any kind, quota 4 | What is stored has its bytes, unless a delete passed its check or an abort found the session of the `complete_upload` that stored it; `used_bytes` covers what is stored and exceeds it by no more than failed completes and repeated `ADD`s explain; the log has every entry the table shows; the state agrees with the references; for requests one at a time `referenced_by` is the replay of the log and a tombstone has no references |
| `MCRequestGate` | 2 requests, 2 instances of which one is slow by 15 s; the unit of time is 15 s; either envelopes that come again with times to live of 15 s and 45 s, or an owner who changes its mind once | An envelope runs once; a mandate that was voided, signed by a key rotated since, or revoked in every replica before a request arrived opens nothing; only what was signed spends a nonce; a cache is stale for no longer than its TTL |
| `MCMissionHarness_mailbox` | 2 harnesses; behind the interface 2 missions with 1 restart, or 1 mission queued again twice with 2 restarts; the latter on the mailbox of the gateway too | A mission that was only claimed while it was pending is run by one harness, once for each time it was queued, and takes legal transitions; on either mailbox one harness runs it no more often; only a loss strands a mission, pending missions are taken |
| `MCMissionHarness_gateway` | the mailbox of the gateway | Violation: two harnesses claim one mission and both run it |
| `MCEthosKeystore` | a public section and one of the circle, an agent for the circle and one with a section scope, 4 editions | What a write acknowledged is what the owner reads and what it deleted is gone, editions chain, a revoked agent stays off every key; as long as no grant or revoke meets a v0.3 directory |
| `MCEthosKeystore_grant` | the same | Violation: a grant on a v0.3 directory loses every section |
| `MCEthosEditions` | a public section and one of the circle, one agent, a clock for each keystore; four plans: bundles that travel (2 writes, 4 editions), bundles and a death (3 editions), rotations of any key and a death (3 writes, 4 editions, timestamps that may be equal), a mandate for the log alone with a rotation of the circle and a death | A document is the replay of its log; an edition and a log that fail to verify do so for one of the reasons named; the owner seals nothing new to a revoked agent, unless it installs a bundle older than the revocation or the mandate was for the log alone |
| `MCAgentHost` | one section at first, one mandate, two downstream servers with three tools; eight plans: sequences of 5 calls of one session, 2 to 4 overlapping calls, two authorities with a mandate that ends and another writer, a host that commits by itself, a session that ends; 2 sessions over two servers; 2 calls with an audit log and without | An acknowledged write is staged, sealed once, or discarded; an edition has one entitled author and holds what its calls were told; a commit fails for a reason; nothing begins and nothing takes effect under a mandate that has ended; the audit log is true and complete; every downstream client has a session that closes it |

**Why these bounds are enough for what they show.** A race of the PDSs is between a
read and a write of one item by one request and a write of another; three requests let
a third change what the first two have seen (a delete and an insert around an update,
a revocation between an authorization and a rotation). Tables are independent per
record, collection and asset, so one or two of them suffice; a rotation needs two
records to die between them. The assets differ in size so that an amount released for
the wrong one shows, and have one content so that an upload can be a duplicate; an
upload that is under way at first leaves all three requests to what happens at its
end, where two completes, or a complete and an abort, meet. Four appends give a fork,
a late entry below the fork and a chain longer than the walk. A replay needs two
deliveries, and the instants of a minute in units of half the skew are enough for an
envelope to be judged before, in and after its window, on a current and on a late
clock, and for its nonce to expire. Four editions are a migration, two edits and a
grant, or a death in any of them and the edit that follows; in `EthosEditions` they
are the first edition, a grant, and two writes or a write and a revocation. A bundle
of two writes is enough for a machine whose clock is behind that of the author before
it. In `EditSession` three overlapping calls are two writes and the commit that comes
between the look and the push of one of them; a fourth is the write that follows.
Requests that are interchangeable form a symmetry set, in runs without liveness only.
`MaxUlid`, `MaxCmk`, `MaxEditions` and the fields of plans, modes and mailboxes bound
counters; the code has no such bound. `WalkLimit`, `MaxSchemas` and `Limit` stand for
limits the code has (1000 entries, 50 schemas, the quota of a subject), made small so
that they are reached.

**Fairness.** Only `MissionHarness` states any. Each harness that runs goes on
(`WF` of `Proceed`): `start()` polls in a loop with a sleep, the runner ends an
agent that takes too long, a call returns or throws. A claim that is tried again
and again is answered at last (`SF` of `Claim`): an outage of the gateway ends.
Posting, answering, stopping, dying and restarting are never required. The other
modules state safety only: a request, a command or a call may stop anywhere, so
nothing must happen.

## 4. Proofs

Each theorem is for every number of records, requests, writers, instances,
sections, sessions and documents. The assumptions are the named `ASSUME`s of the
modules, which say no more than that constants have their types, that the sets of
requests and of assets are finite and that there is some record, mandate, asset and
reference, and the hypotheses given below. Every hypothesis holds in the instances
that TLC runs.

**`DataStoreProofs`.** Of `RecordStore`, the inductive invariant is
`VersionsNameTheirWriter`: no two requests share a clock reading, and every version in
the table, in a replica, in a handler's `snap` or in a client's expectation is
attributed to the one request with that `modified_at` and has that request's payload.
`UpdateReplacesWhatWasRead` is not inductive by itself: that the put's condition
compares *stamps* and the property speaks of *contents* is exactly what the invariant
bridges (`ConditionComparesContents`). From it follow `OptimisticLocking`,
`TombstonesStay` (a conditional update cannot pass over a tombstone, whose stamp
differs from the one it read) and `StoreImplementsLifecycle` (the refinement: `rows`
maps to `life` and `content`; every put is one abstract step, all else stutters), for
each choice of bare updates and hard deletes, which are parameters of the abstract
specification too. They assume `~CoarseClock`; `TypeCorrect`, `AnswersAreTrue`,
`AppendOnly` and `BooksStayTrue` assume nothing. `AnswersAreTrue` and `AppendOnly`
rest on `ProgressTells`: where a handler is tells whether it has written.
`BooksStayTrue` is about cardinalities. A record that is there has been created at
most once more than it was erased (`ErasuresHold`); `CountHolds` is the inequality of
the property with the inserts whose increment is still to come on the other side
(`Coming`), which turns it into one that each step keeps: an insert adds a visible
record and its own increment to come, an increment moves one from there to
`record_count`, and a delete that is not counted yet adds to `Uncounted` what it may
take from what is visible. An increment that the SDK makes twice adds its insert to
`repeated`, which the property allows for.

Of `SchemaRegistry`, `RegistryInv` strengthens the two properties by
`LoserKnows`: whoever reads again after a lost race does so because there is a
row, which its second read may miss. The conditional put is the only write of
the table, so what a cache or an answer says stays true. `OverrunIsBounded` (for a
finite, nonempty set of instances) counts what is registered together with the
registrations that have passed the count and may yet add a row (`Hopeful`): a count
lets one more in only while what is registered is below the quota, and then at most
every instance is hopeful.

**`CollectionKeysProofs`.** `KeysInv` gives the types, says which keys clients have
generated (`KeysAreKnown`) and which steps belong to which operation. Of requests
that overlap: a revocation is in the table before it is in the log and in the log
before it is answered (`PublishedFirst`), whence `RevocationsAreEnforced`.
`WrapsAreAsAnswered`, `RetriesComplete` and `ReadersRead` are about a collection
that is used by one request at a time (`mode.serial`): there `SerialInv` says that
who is at work has read what is still there, that the index covers the wraps, and
that a rotation that is sent again is for those who have a wrap. `KeysAreOne` is the
part about reading: all wraps are of one key, and a record has another only while a
rotation is between the two, or after one was given up.

**`AssetStoreProofs`.** `AssetsInv` relates the table, the replica, what handlers
hold and the log: an item that shows a reference has its entry, wherever it is, so
that an update from a stale read shows nothing that is not in the log either
(`Journaled`); only those who asked for it take bytes away. The counter needs more:
`QuotaInv` bounds the bytes of the assets that are stored *or about to be* by a
`complete_upload` that has charged them, as long as no asset was released twice.
`DriftInv` is the bound from above, for `DriftIsExplained`: what was charged is stored,
or a `complete_upload` has yet to store it or never will, or the SDK sent an `ADD`
again. `BytesInv` is for `StoredHasBytes`: who can have deleted the bytes of an asset
that is stored, or about to be, and that a stored asset has a session only behind a
`complete_upload` that is about to drop it or died.
The bytes of a set are a fold, whose value the provers do not compute; the first
section of the module proves, through least counterexamples, that it is the one sum
and how it grows by an element. `CalmInv` is for requests that come one at a time:
what a handler has read is there, and table and log differ on a reference only
because of a request between its two writes or one that died there.

**`RequestGateProofs`.** `GateInv` strengthens `RunsOnce`: the nonce of an envelope
that ran is in the table for as long as the envelope is fresh for any instance, an
envelope in flight was fresh when it arrived, and envelopes that share a nonce share
their `exp`. A put that finds the nonce absent therefore finds an envelope that has
not run. The hypothesis is `MarginCovers`: a nonce is kept beyond `exp` for as long as
an invocation may take on the slowest clock. `WithdrawnOpensNothing` adds
`ConsentInv`: an instance serves one request at a time and, when it receives a
mandate, forgets the document it had (`InstancesForget`), so it resolves the present
document or none, and neither supports a mandate that was withdrawn. Of a revocation
it says that the table has what any read of it shows (`ReplicasLag`): nothing is
claimed of one that a replica may still miss, which is why the property is about what
was revoked for every read. And nothing the owner does later brings it back
(`WithdrawalStands`), because a fresh key never returns and an epoch only grows
(`IdentityOK`). It supposes `MintedBySpheres`: a sphere signs each mandate, and
`NoKey` is no instant. `DamagedCopiesSpendNothing` (`FlightsAreIntact`: what has
passed the signature arrived as it was signed) supposes that no key of an owner is the
absence of one. `CachesStaySound` strengthens the property by the age of what was
found (`FoundIsAged`); its hypothesis `TimesFit` says that times are numbers and that
no clock is so slow that an empty entry of the cache, kept as one that expired at
instant 0, would be taken for one that lasts.

**`AgentHostProofs`.** `HostInv` relates a call, what took effect and the log: what
was sent had a live mandate when it arrived, only what was sent takes effect, a line
is of a call that was answered and says what became of it, and an answered call that
has a log has its line. `EditsOnlyEndMandates` says what this needs of `EditSession`:
no step of the edits takes a mandate back that has ended.

The second part is about the edits, in a host that may be killed at any point.
`StagedOnce` is not inductive: whether a staged write goes with its transaction
depends on which other calls are out. `EditInv` adds that a write which is not noted
as raced has the transaction for itself (`WritesAreAlone`), that a transaction which
is not contested has one commit at a time and one edition (`CommitsAreAlone`), and
that what was staged while nothing else was out is in its batch and goes with it
(`StagedStays`). `EditionsHaveOneAuthority` follows from `BatchesAreSound` and
`EditionsAreOf`. `EditionsAreAlwaysSound` and `CommitsFailForAReason` are about what a
batch amounts to. The host tells a client what each call did and computes an edition
later, from a list of edits: by then an append is an upsert of the body that the call
saw. `MeaningKept` bridges the two, on top of `EditInv`. While nothing went on beside
it, the batch of the open transaction is what its calls were said to do (`TxIsTrue`):
every edit finds its section, and the sections it leaves (`NetOf`, `Patched`) are
those of the answers (`Meant`). That is kept only because a write that is under way
has seen the section as the batch would leave it (`LoneWritesSee`), in spite of an
`await` between the look at the staged writes and the look at the edition, and because
two writes that overlap are both noted (`OverlapsAreNoted`). `BatchIsTrue` has to say
more than the property to be inductive: after a delete nothing touches a section but
an add (`Stands`), so that what `View` says of the last edits is what a run through
all of them gives (`ViewIsTrue`). The exception of the property, an append that misses
a staged body, is `WouldMask`, and a batch that is masked stays so. A refused commit
has its reason in the same invariant: a true batch that has no upserts and no deletes
left has touched nothing but its own additions. `NetOf` and `Meant` are recursive
functions, and both are one fold (`IsFold`). That it exists, that two agree where
their writes do, and what one more write does to it (`FoldExists`, `FoldsAgree`,
`LongerBatch`) is shown by least counterexamples.

The third part is about the harnesses, on either mailbox. That nobody runs a mission
twice without reason is not inductive: a mission that is pending may be claimed,
because it was queued more often than it was run. `MissionInv` says so
(`QueuedIsOwed`), and that what the mailbox holds was posted and a harness reports how
a run may end (`MailboxIsSound`). On the mailbox of the gateway (section 5) this is
true only of a mission that was never claimed while it was not pending, which is a
premise of the two properties and not of the theorems: behind the interface the
premise is met by every mission. What is left for every mission of either mailbox is
that a harness runs it no more often than it was queued.

**`EthosKeystoreProofs`.** A command leaves an edition in several files, in no
order, and may die between any two. `KeystoreInv` says of each phase what the files
have in common with the edition that is on its way (`EditIsSound`, `RepinIsSound`):
the copied section files have its seal, the sections it does not touch are those of
the manifest there is, the superseded edition is in the history before anything is
copied. On top of that, `KeptInv` keeps what was acknowledged through the two points
where one format is read and another is written (`TakenOver`: what a migration
carries, and what a repin has loaded, is what is owed), and `DroppedInv` says that
neither the manifest nor the edition to come has a key for an agent that a revoke
dropped. The run and the theorem make the same exception: a grant or a revoke that
met a v0.3 directory (section 5).

**`DocumentProofs`.** What `createMandate` accepts and what `verifyMandate` and
`coversOperation` decide fit each other (`MintedVerifies`, `MintedStaysInItsZone`,
`ChangingImpliesReading`); a sponsorship verifies exactly in its window, eligibility
is monotone in what was consumed. Three theorems state what the code does where a
comment says otherwise: `CounterSignedNeverVerifies`, `WindowNeverDecides`,
`UnnamedModelIsUnrestrained`.
Over ideal ciphers: a record, an asset,
a section opens in its place and nowhere else; a rotation retains exactly the apps
it names; a section that was rendered parses back to itself exactly when its text has
nothing that is trimmed and no comment that is taken for its tags, and after one round
it does for good (`ParseUndoesRender`), while one without a title is written and cannot
be read (`UntitledCannotBeRead`); the bundle that an owner authors from sections with
distinct ids passes every check that a reader makes (`AuthoredBundleVerifies`, the
longest: one lemma per check); a manifest that
differs from the one that was signed does not verify; a section that is carried
over has the wraps of the present recipients if every grantee has one mandate
(`CarriedForTheSameReaders`), and not else (`SecondMandateKeepsRevokedReader`);
shards partition the sections. Of the gamma log: a built entry verifies if and only
if it is later than the one it follows, names it and has a known signer; the hash
settles everything but the wrapped keys (`HashTellsTheEntry`,
`WrappedKeysAreNotAttested`).
The last part is about `GammaChain`. `ChainInv` strengthens `RootedAtGenesis` by
`UlidsDrawn`: no two writers hold one ULID, an entry's ULID is that of a writer
that is done, and a head that was read is in the table; so the ULID that a put
uses is in no entry and no entry names it, and a put can only add a leaf.
`CalmChainIsIntact` rests on `Sequential`: while appends are calm at most one is
under way, it holds the current head, and its ULID is later than all.
`NothingMendsTheChain` proves the action property: an entry that does not name the
one before it never will, since a delayed entry that comes to stand before it has a
ULID that nothing names (`UnlinkedForGood`); and in a table that the walk covers
every entry is looked at (`CoveredMeansAll`).

**`EthosEditionsProofs`.** Four properties, each with an invariant of its own, over
`EditionsTyped`, which also says that no manifest, log, archive or bundle points to
what was never made.
`RevokedStayOut`: the edition under way has nothing for those whose revocation has
returned nor for the one it revokes (`RevokedInv`).
`LogsKeepVerifying`: an entry names one that was built before it, is of a key that was
in use, and is no earlier than those before it *by the same author* (`KeysInv`,
`EntriesInv`, `LogInv`), whose machine's clock does not go back; so a link never
breaks, and a signature or a timestamp does only for the reasons the property names,
one of which is an entry of a machine whose clock was behind. `KeysInv` also follows
the self key through the lists of readers (`SelfKeyIs`, `CarriedAre`): a log opens as
long as no self key that it was sealed to has been rotated.
`EditionsKeepVerifying`, with the error of a log that does not open (`LogOpens`) among
what the code reports: `DraftsInv` is the chain of editions; `SoundInv` says, of a
directory that is neither torn nor died on, that zones, snapshot and log are those of
its manifest or of the edition at work, and what they have in common in between: a zone
that is written has the new seal, one that is not has the old one (`EditionSound`), and
what is installed of a bundle is the bundle's (`InstallSound`).
`DocumentsReplay`: a document is what its log makes of the empty one, where the entry
at work does not count until the file of its zone is written (`Unwritten`); a death
before that makes it lost, a death after it does not (`ReplayInv`). What a replay is,
for a log of any length, is a recursive function; that it exists, that it is the only
one, that it depends on the entries of the zone alone and that it grows by the entry
appended is shown by least counterexamples (`ReplayExists`, `ReplayUnique`,
`ReplaySame`, `ReplayAppend`), which takes the place of an induction.
Proving them for several agents showed that the history variables `died` and
`readmitted` were cleared too early: an edition of an agent writes one zone, and leaves
what is wrong in the others, which an instance with a single agent does not reach.

**Only model-checked.** Nothing is claimed of optimistic locking where two
handlers read the same millisecond. The liveness properties of `MissionHarness`
(`OnlyLossStrands`, `PendingIsTaken`) stay with TLC, because TLAPS proves nothing about
fairness. Every other property of the runs that are expected to pass is stated by a
theorem, as an invariant or an action property or by its refinement.

## 5. Known divergences

Two have a run and are listed under `findings` in `PROJECT.json`: a grant on a v0.3
directory loses every section (`MCEthosKeystore_grant`), and a claim on the mailbox of
the gateway is not conditional (`MCMissionHarness_gateway`). The following were met
while modelling; the properties above are stated so that they hold despite them.

*Data PDS, records.* A bare update revives a soft-deleted record
(`records.ts:416`, `426`; compare `spec/data/01-data-model.md:283`). The soft delete
is an unconditional `UpdateItem` (`records.ts:525`): after a concurrent hard delete
it creates a row with no metadata. The loser of a race on `expected_modified_at`
gets a bare `ConditionalCheckFailedException` from the second comparison
(`records.ts:425`). Two updates in one millisecond have one version
(`records.ts:409`). The soft delete clears the ciphertext that
`spec/data/01-data-model.md:310` retains and `spec/data/05-api-primitives.md:256`
clears. What a hard delete erased may be created again under its id. An increment of
`record_count` that the SDK sends again counts twice (`records.ts:162`).

*Keys.* An overlapping `authorize_app` drops the other's wrap or puts back wraps
of the old key (`authorization.ts:173`; compare `spec/data/04-mandates.md:301`). A
rotation that dies leaves records under two keys until it is sent again
(`authorization.ts:450`; compare `spec/data/05-api-primitives.md:352`). The client's
`rotateCMK` throws on any deposit, need not retain the owner, and `revokeApp` can
revoke the owner, although a comment wants the owner to keep access. The server checks
nothing of the envelope it is to store (`authorization.ts:327`), so that the revoked
app is gone from it is the client's doing.

*Gamma.* Overlapping appends fork the chain for good and ULIDs may go back
(`gamma/store.ts:114`); a fork beyond 1000 entries is not seen
(`gamma/store.ts:210`).

*Schemas.* The idempotent path leaves a negative cache entry in place for up to
60 seconds (`schemas/store.ts`); a lost race with the same document
answers `created: true`; a stale second read refuses the document that is
registered; a re-registration at the quota may be refused.

*The door.* A mandate is judged at `proof.created` (`envelope.ts:663`), which the
signer writes and nothing compares with `iat` or the time: the window of a mandate
bounds what is signed as `created`, not when a request arrives, and only a revocation,
a rotation or an epoch ends its use. A revocation is looked up without `ConsistentRead`
(`revocations.ts:53`), so a request that comes after it may find it absent. A nonce
is spent although the assets PDS then refuses the mandate, or the sphere lock the
key; the refusal has the code of a replay.

*Assets PDS.* Of two overlapping `ref_asset` calls one is lost (`references.ts:115`);
one that overlaps `delete_asset` refers to a tombstone (`lifecycle.ts:74`; compare
`spec/assets/05-api-primitives.md:438`); a retried `complete_upload` logs
`assets.created` and reserves the quota again (`uploads.ts:267`, `311`); two
`init_upload` calls for one content both miss the deduplication (`uploads.ts:105`);
`abort_upload` races with `complete_upload` (`uploads.ts:400`); deleting a tombstone
releases its quota again. The condition of the last put "keeps idempotency on re-call"
(`uploads.ts:334`), but a re-call has by then reserved and logged again, and ends in
an error. A release that would take the counter below 0 leaves it as it is, where the
comment says "floored at 0" (`quota.ts:119`). The SDK may make an `ADD` twice. No
sweeper takes ORPHANED assets further.

*Harness.* The `expect_status` of a claim (`bin/harness.ts:80`, and the comment at
line 47) is ignored by the section tool (`server.ts:1452`): two harnesses may run one
mission, and a claim may take one that is done back to in progress. `tickOnce` says
that it never throws, but a report does (`harness.ts:151`). A run that ends after
`stop()` is reported interrupted and may be run again. `EthosMailbox.claim` replaces
the body of the section by the status alone. A harness that dies leaves its mission in
progress for good. The watcher notes that it acted before it does (`watcher.ts:105`).

*Signed documents.* The agent signs its action over the absence of a
counter-signature, and the verification is over its presence: a counter-signed
action never verifies (`mandate.ts:820`, `889`; compare `spec/05-signing.md`).
`verifyMandate` does not check that the scopes fit the sphere. `per_user_window`
never decides (compare the comment at `sponsorship.ts:77`); a call that names no
model passes `allowed_models` (`sponsorship.ts:543`); eligibility does not look at
the application of the audience; that a revocation "must match mandate.issuer" is
not checked.

*Ethos directory.* The next v0.2 edition wraps the whole zone for an agent whose
mandate has a section scope (`ethos.ts:721`). Sections that an edit carries over keep
the wraps they had. A migration or copy that dies leaves sections whose file is
missing, and edits fail until those are deleted; the "atomic swap" of
`keystore-v3.ts` is a copy file by file. A v0.2 write that dies between
a zone and the manifest leaves that zone unreadable. One that dies between the
manifest and the archive lets the version be given out again. A delegate whose
scope names sections may delete any section of its zone. The window of a mandate is
not enforced for the public zone (`bundle-v03.ts:1143`). v0.3 edits append no
gamma entry. `rotate` writes the sealed seed before `did.json` (`rotate.ts:124`).

*Editions that travel.* `allocateEditionVersion` looks at its own history only, which
a bundle does not carry: an agent gives out the owner's version again, and after
the bundle comes back the owner's next edition fails `verifyEthos` with a
`prev_hash` that does not match (`spec/02-ethos.md:52`, `spec/08-glossary.md:25`).
An entry has the time of the machine that writes it (`ethos.ts:1499`): after a bundle has
travelled to one whose clock is behind, an entry is earlier than the one it follows,
and the log never verifies again.
After a rotation of the circle or the self key the owner cannot open the zone
(compare `rotate.ts` near line 101 and `spec/07-threat-model.md:23`), and entries
signed before never verify again. The list of readers keeps the self key it was
begun with: after a rotation of it `readGammaLog` throws for good (`gamma.ts:931`), new
entries included, and `verifyEthos` reports that and no longer compares the anchor and
the references with the log (`ethos.ts:2253-2285`). The revocation of a mandate that
has `gamma.read` alone repins nothing (`revoke.ts:131`): the agent stays among the
readers of new entries. A bundle that is older than a revocation brings
the revoked reader of the log back; the zones heal with the next edition. An
agent's edition drops the wraps of other delegates. "The next edition will catch
up" (`ethos.ts:1485`) is true of the anchor, not of the section. A bundle packed
from a keystore whose installation died passes `verifyBundleDir`; one without a
log leaves the log that was there.

*Bundles and the gamma log.* `recipientLabelsEqual` compares a set of labels with the
length of a list: with two mandates of one agent, an unchanged section is carried over
with the wrap of an agent that was revoked (the CLI passes no `prev` and does not meet
this). Of two sections of an encrypted zone that share an id, the one that is written
last replaces the file of the other. A body that begins like a comment of tags is
parsed as tags. White space at the ends of a title or a body is lost. A section
without a title is written and cannot be read, and `readSection`, which "never throws"
(`bundle-v03.ts:568`), then throws in the public zone. `blob_sha` is compared by
nobody, and an encrypted file that the reader cannot open is not checked. Wrapped keys
of an entry are not attested; one envelope that fails makes the whole log unreadable;
two writes in one millisecond make it fail verification; the append checks neither
chain nor signer. The root key is not listed in the DID document.

*MCP sessions.* Calls that overlap a commit or a discard lose acknowledged writes
or seal them twice, because a call pushes on the batch it enrolled in and a commit
drops whatever transaction there is then. A refused update leaves an empty
transaction, which keeps another authority out until a discard. An append that
follows a title-only update of a section whose body was updated before drops that
body. An update of a section that others deleted creates it again with an empty
title, and such an edition fails `verifyBundleV03Dir`; on a host that commits by
itself an update of an unknown section creates it. Overlapping deletes of a staged
section make the commit fail until a discard.

*The host.* Actions have no audit log unless `--audit-log` names one (`bin.ts:400`).
A session that a client deletes is put back into the map when the request that
deleted it ends. The clients of a request without a session, and of a session that
is being set up while the host closes, are never closed. Tools that were registered
before a server failed stay, and answer with errors.

## 6. Not modelled

Reads that change nothing, printing, option parsing, URL signing, tables of
error codes and tools, deployment and demonstration scripts: they have no state
that could go wrong over several steps. The ciphers and the canonical encoding:
what opens what is modelled, how is not. Of modelled components: `create_collection`
(an initial state), `rotate_owner_wrap` of the assets, the validation of a record
against a schema, two commands at a time on one directory (nothing locks it: what
one overwrites of the other is not described), section scopes in `EthosEditions`,
the read tools and the loading of a pack in the MCP server, the revocation watcher.
`PROJECT.json` says of each component what is left out.

**Assumed of what is modelled.** The SDK sends a call again when its answer is lost. A
conditional put is taken to be applied and answered once: one that was applied and is
sent again would answer that the row is there, for its own row. An `ADD` may count
twice. The clients of the data PDS are those of `data-crypto`, as said at
`CollectionKeys`. The clock of one machine does not go back, and two handlers of
the record table do not read the same millisecond. Commands on one directory come one
at a time.

**What the properties exempt.** A property that holds is worth what its premises leave
of the hazard, so these are they. `IndexFollowsLog` and `CalmTombstoneIsUnreferenced`
are about requests that come one at a time: the lost reference of two overlapping
`ref_asset` calls, and the one added between the test and the delete, really happen
(section 5). `SerialAppendsVerify` is about appends that do not overlap, and the
properties of wraps and of readers about a collection that is used by one request at a
time. `StoredHasBytes` exempts an asset that a delete passed its check for or whose
session an abort found, `DriftIsExplained` assets released twice. `RunsAreSound` and
`StatusFollowsTransitions` are about missions claimed while pending, except for the
bound on one harness. In `EthosEditions` an entry whose process died before its zone
file is not part of the document (`lost`), and a keystore where a process died is not
held to verify until an edition of the owner (`died`). In `EditSession` a transaction
that two calls dispute, and calls that overlapped, are exempt from what is promised of
one client that waits for its answers; in `AgentHost` the downstream clients of stray
requests are. `RevokedIsDropped` is about agents with one mandate, because a second one
really keeps a revoked reader (`SecondMandateKeepsRevokedReader`).
`WithdrawalIsImmediate` is about revocations that every read of the table shows.

## 7. Plan

Done, in this order: the record table, on which everything the data PDS promises
rests; the log, the keys and the schemas; the assets, the mission harness and the
ethos directory; then the door, the signed documents, the keys and bundles, the
v0.2 editions, the sessions and the host. What is left:

1. An abstract specification of a transaction (writes that are sealed together or
   not at all) that `EditSession` implements for a client that does not overlap its
   calls.
2. `rotate_owner_wrap`, `create_collection`, section scopes in `EthosEditions`, the
   revocation watcher.
