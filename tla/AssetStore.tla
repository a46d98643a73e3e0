------------------------------ MODULE AssetStore ------------------------------
(***************************************************************************)
(* The assets PDS (packages/assets-backend): uploads, the per-subject      *)
(* quota, references and deletion of the binary assets of one subject.     *)
(*                                                                         *)
(* A request is a Lambda invocation: a fixed sequence of calls on          *)
(* DynamoDB, S3 and the gamma log (Script), each one action.  Other        *)
(* requests run between any two of them and the invocation can die between *)
(* any two of them.  No handler locks, and only three calls carry a        *)
(* condition: the quota's ADDs and the put of a new asset item.            *)
(*                                                                         *)
(* An asset id stands for everything init_upload allocates with it: the    *)
(* upload session, the URN, the S3 key and the presigned URL.              *)
(***************************************************************************)
EXTENDS Integers, Sequences, FiniteSetsExt

CONSTANTS
    Assets,         \* asset ids that init_upload can allocate
    References,     \* (kind, sub-id) tuples that may refer to an asset
    Requests,       \* request ids; a request is sent at most once
    Ops,            \* the operations that clients send about each asset
    Size,           \* size_bytes of each asset
    Sha,            \* sha256_of_plaintext of each asset
    Limit,          \* PER_SUBJECT_QUOTA_BYTES
    Starts          \* the assets that may be there from the start: those that are
                    \* uploaded, and those whose upload is under way

AllOps == {"init", "complete", "abort", "ref", "unref", "delete"}

\* The bytes of a set, from the bytes of each of its elements.
BytesOf(sizes, S) == MapThenSumSet(LAMBDA x : sizes[x], S)

ASSUME AssetsAssumption == IsFiniteSet(Assets) /\ Assets # {} /\ References # {}
ASSUME OpsAssumption == Ops \in [Assets -> SUBSET AllOps]
ASSUME SizeAssumption == Size \in [Assets -> 1..Limit] /\ Limit \in Nat
ASSUME RequestsAssumption == IsFiniteSet(Requests)
ASSUME StartsAssumption ==
    \A start \in Starts :
        /\ start.uploaded \subseteq Assets
        /\ start.started \subseteq Assets \ start.uploaded
        /\ BytesOf(Size, start.uploaded) <= Limit

VARIABLES
    store,      \* the two tables: the pending upload and the item of each asset
    replica,    \* what an eventually consistent read may still return
    bytes,      \* the assets whose bytes are in S3
    url,        \* the assets whose presigned PUT URL is still valid
    used,       \* used_bytes of the subject's quota item
    gamma,      \* what the gamma log says of each asset
    call,       \* what each request asks for
    at,         \* the next step of each request in its Script
    snap,       \* the asset item that the request's Get returned
    answer,     \* the answer the client got
    released,   \* history: how often the quota was released for an asset
    twice,      \* history: the requests whose ADD to the quota was sent twice
    calm        \* history: requests came one at a time, and each read of an
                \* asset's rows was current

vars == <<store, replica, bytes, url, used, gamma, call, at, snap, answer,
          released, twice, calm>>
-----------------------------------------------------------------------------
\* Mutant: the item is put before its quota is reserved.
ScriptPutFirst ==
    [init     |-> <<"probe", "savePending", "log">>,
     complete |-> <<"getPending", "head", "log", "putItem", "reserve",
                    "dropPending">>,
     abort    |-> <<"getPending", "deleteObject", "dropPending", "log">>,
     ref      |-> <<"getItem", "log", "update">>,
     unref    |-> <<"getItem", "log", "update", "logOrphaned">>,
     delete   |-> <<"getItem", "deleteObject", "release", "log", "update">>]

\* Mutant: the gamma entry comes after the update, as in the data PDS.
ScriptLogLast ==
    [init     |-> <<"probe", "savePending", "log">>,
     complete |-> <<"getPending", "head", "reserve", "putItem", "dropPending",
                    "log">>,
     abort    |-> <<"getPending", "deleteObject", "dropPending", "log">>,
     ref      |-> <<"getItem", "update", "log">>,
     unref    |-> <<"getItem", "update", "log", "logOrphaned">>,
     delete   |-> <<"getItem", "deleteObject", "release", "update", "log">>]

\* The calls of each handler, in their order.  log stands for appendGammaEntry.
Script ==
    [init     |-> <<"probe", "savePending", "log">>,
     complete |-> <<"getPending", "head", "reserve", "log", "putItem",
                    "dropPending">>,
     abort    |-> <<"getPending", "deleteObject", "dropPending", "log">>,
     ref      |-> <<"getItem", "log", "update">>,
     unref    |-> <<"getItem", "log", "update", "logOrphaned">>,
     delete   |-> <<"getItem", "deleteObject", "release", "log", "update">>]

\* The gamma op that log writes for each operation.
LogOp == [init |-> "upload_initiated", complete |-> "created",
          abort |-> "upload_aborted", ref |-> "referenced",
          unref |-> "unreferenced", delete |-> "tombstoned"]

GammaOps == {LogOp[op] : op \in AllOps} \cup {"orphaned"}

States == {"NONE", "ACTIVE", "ORPHANED", "TOMBSTONED"}

\* An asset item; NONE is its absence, and indexed says that it carries the
\* gsi1 keys of the dedup index.
Item == [state: States, referenced_by: SUBSET References, indexed: BOOLEAN]

NoItem == [state |-> "NONE", referenced_by |-> {}, indexed |-> FALSE]

\* Mutant: the item keeps the state of its upload.
NewItemPending == [state |-> "PENDING", referenced_by |-> {}, indexed |-> TRUE]

NewItem == [state |-> "ACTIVE", referenced_by |-> {}, indexed |-> TRUE]

Exists(item) == item.state # "NONE"

Answers == {"none", "ok", "hit", "refused", "error", "lost"}

Call == [op: AllOps, asset: Assets, ref: References]

Idle(q) == at[q] = 0
Done(q) == answer[q] # "none"
Active(q) == ~Idle(q) /\ ~Done(q)

At(q, op, step) == Active(q) /\ call[q].op = op /\ Script[op][at[q]] = step

Entries(a, op) == gamma[a].entries[op]
-----------------------------------------------------------------------------
Init ==
    /\ \E start \in Starts :
         /\ store = [a \in Assets |->
                       [pending |-> a \in start.started,
                        item |-> IF a \in start.uploaded THEN NewItem ELSE NoItem]]
         /\ bytes = start.uploaded
         /\ url = start.started
         /\ used = BytesOf(Size, start.uploaded)
         /\ gamma = [a \in Assets |->
                       [entries |-> [op \in GammaOps |->
                            IF \/ op = "upload_initiated"
                                  /\ a \in start.uploaded \cup start.started
                               \/ op = "created" /\ a \in start.uploaded
                            THEN 1 ELSE 0],
                        open |-> {}]]
    /\ replica = store
    /\ call = [q \in Requests |->
                  CHOOSE c \in Call : c.op = "init"]
    /\ at = [q \in Requests |-> 0]
    /\ snap = [q \in Requests |-> NoItem]
    /\ answer = [q \in Requests |-> "none"]
    /\ released = [a \in Assets |-> 0]
    /\ twice = {}
    /\ calm = TRUE

\* The next call of q's script, or the end of the handler after its last one.
Continue(q) ==
    /\ at' = [at EXCEPT ![q] = @ + 1]
    /\ answer' = [answer EXCEPT ![q] =
                     IF at[q] = Len(Script[call[q].op]) THEN "ok" ELSE @]

\* The handler returns or throws here.
Answer(q, result) ==
    /\ answer' = [answer EXCEPT ![q] = result]
    /\ UNCHANGED at

\* GetCommand and QueryCommand without ConsistentRead.
Readable(a) == {store[a], replica[a]}

\* What the gamma log says of asset a after one more entry: how many entries
\* of each kind, and which references a replay of the log leaves open.
Logged(a, op, ref) ==
    LET old == gamma[a] IN
    [gamma EXCEPT ![a] =
        [entries |-> [old.entries EXCEPT ![op] = @ + 1],
         open |-> CASE op = "referenced" -> old.open \cup {ref}
                    [] op = "unreferenced" -> old.open \ {ref}
                    [] OTHER -> old.open]]
-----------------------------------------------------------------------------
\* The requests for a new upload of an asset.
InitsOf(a) ==
    {q \in Requests : ~Idle(q) /\ call[q].op = "init" /\ call[q].asset = a}

\* The asset ids that init_upload can allocate, and those that it has given to a client.
Fresh == {a \in Assets : Entries(a, "upload_initiated") = 0 /\ InitsOf(a) = {}}
Known == {a \in Assets \ Fresh : \A q \in InitsOf(a) : answer[q] = "ok"}

\* A request is sent.  init_upload allocates a fresh asset id; the others name
\* an asset that an init_upload has answered with.
Submit(q) ==
    /\ Idle(q) /\ ~Done(q)
    /\ calm' = (calm /\ \A p \in Requests : ~Active(p))
    /\ \E a \in Assets : \E op \in Ops[a], ref \in References :
         /\ IF op = "init" THEN a \in Fresh ELSE a \in Known
         /\ op \notin {"ref", "unref"} => ref = CHOOSE x \in References : TRUE
         /\ call' = [call EXCEPT ![q] = [op |-> op, asset |-> a, ref |-> ref]]
    /\ at' = [at EXCEPT ![q] = 1]
    /\ UNCHANGED <<store, replica, bytes, url, used, gamma, snap, answer,
                   released, twice>>

\* dedupProbe: a Query on the index of sha256_of_plaintext, which is a replica.
Probe(q) ==
    /\ At(q, "init", "probe")
    /\ LET same == {a \in Assets : Sha[a] = Sha[call[q].asset]} IN
         \/ /\ \E a \in same : \E v \in Readable(a) : v.item.indexed
            /\ Answer(q, "hit")
         \/ /\ \A a \in same : \E v \in Readable(a) : ~v.item.indexed
            /\ Continue(q)
    /\ UNCHANGED <<store, replica, bytes, url, used, gamma, call, snap,
                   released, twice, calm>>

\* init_upload signs the URL and saves the pending upload.
SavePending(q) ==
    /\ At(q, "init", "savePending")
    /\ store' = [store EXCEPT ![call[q].asset].pending = TRUE]
    /\ url' = url \cup {call[q].asset}
    /\ Continue(q)
    /\ UNCHANGED <<replica, bytes, used, gamma, call, snap, released, twice, calm>>

\* complete_upload and abort_upload load the pending upload; without one,
\* complete throws and abort answers aborted: false.
GetPending(q) ==
    /\ \E op \in {"complete", "abort"} : At(q, op, "getPending")
    /\ \E v \in Readable(call[q].asset) :
         /\ calm' = (calm /\ v = store[call[q].asset])
         /\ \/ v.pending /\ Continue(q)
            \/ ~v.pending /\ Answer(q, "refused")
    /\ UNCHANGED <<store, replica, bytes, url, used, gamma, call, snap,
                   released, twice>>

\* Mutant: the object is not looked for.
HeadTrusts(q) ==
    /\ At(q, "complete", "head")
    /\ Continue(q)
    /\ UNCHANGED <<store, replica, bytes, url, used, gamma, call, snap,
                   released, twice, calm>>

\* complete_upload looks for the object, its size and the declared hash.
HeadObject(q) ==
    /\ At(q, "complete", "head")
    /\ \/ call[q].asset \in bytes /\ Continue(q)
       \/ Answer(q, "refused")
    /\ UNCHANGED <<store, replica, bytes, url, used, gamma, call, snap,
                   released, twice, calm>>

\* used_bytes <= limit - delta
HasRoom(a) == used <= Limit - Size[a]

\* reserveQuota: one conditional ADD.
Reserve(q) ==
    LET a == call[q].asset IN
    /\ At(q, "complete", "reserve")
    /\ \/ /\ HasRoom(a)
          /\ used' = used + Size[a]
          /\ Continue(q)
       \/ /\ ~HasRoom(a)
          /\ Answer(q, "refused")
          /\ UNCHANGED used
    /\ UNCHANGED <<store, replica, bytes, url, gamma, call, snap, released,
                   twice, calm>>

\* appendGammaEntry, with the entry of the operation.
Log(q) ==
    /\ \E op \in AllOps : At(q, op, "log")
    /\ gamma' = Logged(call[q].asset, LogOp[call[q].op], call[q].ref)
    /\ Continue(q)
    /\ UNCHANGED <<store, replica, bytes, url, used, call, snap, released, twice, calm>>

\* PutCommand of the asset item with attribute_not_exists; the failed condition
\* is not caught.
PutItem(q) ==
    /\ At(q, "complete", "putItem")
    /\ \/ /\ ~Exists(store[call[q].asset].item)
          /\ store' = [store EXCEPT ![call[q].asset].item = NewItem]
          /\ Continue(q)
       \/ /\ Exists(store[call[q].asset].item)
          /\ Answer(q, "error")
          /\ UNCHANGED store
    /\ UNCHANGED <<replica, bytes, url, used, gamma, call, snap, released, twice, calm>>

DropPending(q) ==
    /\ \E op \in {"complete", "abort"} : At(q, op, "dropPending")
    /\ store' = [store EXCEPT ![call[q].asset].pending = FALSE]
    /\ Continue(q)
    /\ UNCHANGED <<replica, bytes, url, used, gamma, call, snap, released, twice, calm>>

\* abort_upload and delete_asset: best effort, a failure is swallowed.
DeleteObject(q) ==
    /\ \E op \in {"abort", "delete"} : At(q, op, "deleteObject")
    /\ bytes' \in {bytes, bytes \ {call[q].asset}}
    /\ Continue(q)
    /\ UNCHANGED <<store, replica, url, used, gamma, call, snap, released, twice, calm>>
-----------------------------------------------------------------------------
\* Mutant: delete_asset leaves the check to its clients.
MayDeleteAlways(item) == TRUE

\* delete_asset refuses an item with references; its state is not looked at.
MayDelete(item) == item.referenced_by = {}

\* ref_asset, unref_asset and delete_asset read the item.
GetItem(q) ==
    /\ \E op \in {"ref", "unref", "delete"} : At(q, op, "getItem")
    /\ \E v \in Readable(call[q].asset) :
         /\ calm' = (calm /\ v = store[call[q].asset])
         /\ \/ /\ Exists(v.item)
               /\ call[q].op = "delete" => MayDelete(v.item)
               /\ snap' = [snap EXCEPT ![q] = v.item]
               /\ Continue(q)
            \/ /\ \/ ~Exists(v.item)
                  \/ call[q].op = "delete" /\ ~MayDelete(v.item)
               /\ Answer(q, "refused")
               /\ UNCHANGED snap
    /\ UNCHANGED <<store, replica, bytes, url, used, gamma, call, released, twice>>

\* Mutant: the last reference that goes leaves the asset as it was.
AfterUnrefActive(item, ref) ==
    [item EXCEPT !.referenced_by = @ \ {ref}]

\* What unref_asset makes of the item it read.
AfterUnref(item, ref) ==
    LET next == item.referenced_by \ {ref} IN
    [item EXCEPT !.referenced_by = next,
                 !.state = IF next = {} THEN "ORPHANED" ELSE "ACTIVE"]

\* Mutant: sameReference compares the kind only.
AfterRefOfKind(item, ref) ==
    [item EXCEPT !.referenced_by = IF @ = {} THEN {ref} ELSE @,
                 !.state = "ACTIVE"]

\* What ref_asset makes of the item it read: a duplicate leaves the state.
AfterRef(item, ref) ==
    [item EXCEPT !.referenced_by = @ \cup {ref},
                 !.state = IF ref \in item.referenced_by THEN @ ELSE "ACTIVE"]

\* UpdateCommand without a condition: ref_asset and unref_asset set the whole
\* referenced_by and the state they computed from the item they read,
\* delete_asset sets the state and removes the index keys.
Update(q) ==
    LET a == call[q].asset
        item == store[a].item
        next == CASE call[q].op = "ref" -> AfterRef(snap[q], call[q].ref)
                  [] call[q].op = "unref" -> AfterUnref(snap[q], call[q].ref)
                  [] OTHER -> [snap[q] EXCEPT !.referenced_by = item.referenced_by,
                                              !.state = "TOMBSTONED"]
    IN
    /\ \E op \in {"ref", "unref", "delete"} : At(q, op, "update")
    /\ store' = [store EXCEPT ![a].item =
                    [next EXCEPT !.indexed = item.indexed /\ call[q].op # "delete"]]
    /\ Continue(q)
    /\ UNCHANGED <<replica, bytes, url, used, gamma, call, snap, released, twice, calm>>

\* unref_asset adds assets.orphaned when it dropped the last reference of an
\* item that was not orphaned yet.
LogOrphaned(q) ==
    /\ At(q, "unref", "logOrphaned")
    /\ gamma' = IF snap[q].referenced_by \ {call[q].ref} = {}
                   /\ snap[q].state # "ORPHANED"
                THEN Logged(call[q].asset, "orphaned", call[q].ref)
                ELSE gamma
    /\ Continue(q)
    /\ UNCHANGED <<store, replica, bytes, url, used, call, snap, released, twice, calm>>

\* Mutant: only what is still ACTIVE is taken off the quota.
ReleaseActive(q) ==
    LET a == call[q].asset IN
    /\ At(q, "delete", "release")
    /\ used' = IF used >= Size[a] /\ snap[q].state = "ACTIVE" THEN used - Size[a] ELSE used
    /\ released' = [released EXCEPT ![a] = @ + 1]
    /\ Continue(q)
    /\ UNCHANGED <<store, replica, bytes, url, gamma, call, snap, twice, calm>>

\* releaseQuota: a conditional ADD; when the condition fails the counter stays
\* (SET used_bytes = if_not_exists(used_bytes, 0)).
Release(q) ==
    LET a == call[q].asset IN
    /\ At(q, "delete", "release")
    /\ used' = IF used >= Size[a] THEN used - Size[a] ELSE used
    /\ released' = [released EXCEPT ![a] = @ + 1]
    /\ Continue(q)
    /\ UNCHANGED <<store, replica, bytes, url, gamma, call, snap, twice, calm>>

\* The ADD of reserveQuota or releaseQuota is made, its answer does not arrive,
\* and the client of DynamoDB sends it again (bound: once for each request).
Resend(q) ==
    LET a == call[q].asset IN
    /\ q \notin twice
    /\ \/ /\ At(q, "complete", "reserve") /\ HasRoom(a)
          /\ used' = used + Size[a]
          /\ UNCHANGED released
       \/ /\ At(q, "delete", "release") /\ used >= Size[a]
          /\ used' = used - Size[a]
          /\ released' = [released EXCEPT ![a] = @ + 1]
    /\ twice' = twice \cup {q}
    /\ UNCHANGED <<store, replica, bytes, url, gamma, call, at, snap, answer, calm>>
-----------------------------------------------------------------------------
\* The client PUTs the bytes with the presigned URL.
ClientPut(a) ==
    /\ a \in url \cap Known
    /\ a \notin bytes
    /\ bytes' = bytes \cup {a}
    /\ UNCHANGED <<store, replica, url, used, gamma, call, at, snap, answer,
                   released, twice, calm>>

\* The presigned URL expires, and the TTL of DynamoDB removes the pending
\* upload some time later.
Expire(a) ==
    /\ \/ /\ a \in url
          /\ url' = url \ {a}
          /\ UNCHANGED store
       \/ /\ a \notin url
          /\ store[a].pending
          /\ store' = [store EXCEPT ![a].pending = FALSE]
          /\ UNCHANGED url
    /\ UNCHANGED <<replica, bytes, used, gamma, call, at, snap, answer, released, twice, calm>>

\* The replicas of both tables catch up.
Replicate(a) ==
    /\ replica[a] # store[a]
    /\ replica' = [replica EXCEPT ![a] = store[a]]
    /\ UNCHANGED <<store, bytes, url, used, gamma, call, at, snap, answer,
                   released, twice, calm>>

\* The invocation dies, or one of its calls throws.
Crash(q) ==
    /\ Active(q)
    /\ Answer(q, "lost")
    /\ UNCHANGED <<store, replica, bytes, url, used, gamma, call, snap,
                   released, twice, calm>>

Step(q) ==
    \/ Submit(q)
    \/ Probe(q)
    \/ SavePending(q)
    \/ GetPending(q)
    \/ HeadObject(q)
    \/ Reserve(q)
    \/ Log(q)
    \/ PutItem(q)
    \/ DropPending(q)
    \/ DeleteObject(q)
    \/ GetItem(q)
    \/ Update(q)
    \/ LogOrphaned(q)
    \/ Release(q)
    \/ Resend(q)
    \/ Crash(q)

Next ==
    \/ \E q \in Requests : Step(q)
    \/ \E a \in Assets : ClientPut(a) \/ Expire(a) \/ Replicate(a)

Spec == Init /\ [][Next]_vars
-----------------------------------------------------------------------------
(***************************************************************************)
(* Properties                                                              *)
(***************************************************************************)

\* Every variable keeps its type.
TypeOK ==
    /\ store \in [Assets -> [pending: BOOLEAN, item: Item]]
    /\ replica \in [Assets -> [pending: BOOLEAN, item: Item]]
    /\ bytes \subseteq Assets /\ url \subseteq Assets
    /\ used \in Nat
    /\ gamma \in [Assets -> [entries: [GammaOps -> Nat], open: SUBSET References]]
    /\ call \in [Requests -> Call]
    /\ \A q \in Requests : at[q] \in 0..(Len(Script[call[q].op]) + 1)
    /\ snap \in [Requests -> Item]
    /\ answer \in [Requests -> Answers]
    /\ released \in [Assets -> Nat]
    /\ twice \subseteq Requests
    /\ calm \in BOOLEAN

\* What is stored and was not given back.
Held == {a \in Assets : Exists(store[a].item) /\ released[a] = 0}

\* q has reserved, and has not stored an asset: it is on its way or has failed.
Unsettled(q) ==
    /\ call[q].op = "complete"
    /\ at[q] \in DOMAIN Script.complete /\ Script.complete[at[q]] \in {"log", "putItem"}

\* The bytes that each request is about.
Load == [q \in Requests |-> Size[call[q].asset]]

\* As long as no asset is released twice, the quota is never under-counted:
\* used_bytes covers every asset that was stored and whose bytes were not given
\* back, over crashes of complete_upload at any point and completes of one
\* session that run twice.  delete_asset of a tombstone gives its bytes back again.
UsedCoversStored ==
    (\A a \in Assets : released[a] <= 1) =>
        BytesOf(Size, Held) <= used

\* And it is over-counted only by complete_uploads that died or failed after their
\* reservation, once for each of them, and by ADDs that were sent twice: nothing
\* takes these bytes off again, but they are no more than that.
DriftIsExplained ==
    (\A a \in Assets : released[a] <= 1) =>
        used <= BytesOf(Size, Held)
                + BytesOf(Load, {q \in Requests : Unsettled(q)})
                + BytesOf(Load, twice)

\* The log runs ahead of the tables: what the table shows of an asset has its
\* entries in gamma, even if the handler died right after its write.
TableIsJournaled ==
    \A a \in Assets : LET item == store[a].item IN
        /\ Exists(item) => Entries(a, "created") > 0
        /\ item.state = "TOMBSTONED" => Entries(a, "tombstoned") > 0
        /\ item.state = "ORPHANED" => Entries(a, "unreferenced") > 0
        /\ Cardinality(item.referenced_by) <= Entries(a, "referenced")

\* A later purge can trust the state: an ORPHANED asset has no reference, and
\* once an unref_asset has succeeded an unreferenced asset is not ACTIVE,
\* although ref_asset and unref_asset overwrite each other's results.
StateMatchesReferences ==
    \A a \in Assets : LET item == store[a].item IN
        /\ item.state = "ORPHANED" => item.referenced_by = {}
        /\ item.state = "ACTIVE" /\ item.referenced_by = {} =>
              ~\E q \in Requests : /\ call[q].op = "unref" /\ call[q].asset = a
                                   /\ answer[q] = "ok"

\* q may have deleted the bytes of an asset: a delete_asset that found no
\* reference, or an abort_upload that found the session.
Destroys(q) ==
    /\ at[q] > 2
    /\ \/ call[q].op = "delete"
       \/ /\ call[q].op = "abort"
          /\ \/ ~calm
             \/ \E p \in Requests : /\ call[p].op = "complete" /\ answer[p] = "lost"
                                     /\ call[p].asset = call[q].asset

\* A stored asset has its bytes unless a delete_asset passed its check, or an
\* abort_upload found the session that a complete_upload was storing: one that
\* overlapped it or read a stale row, or one after a complete_upload that died.
StoredHasBytes ==
    \A a \in Assets :
        Exists(store[a].item) /\ a \notin bytes =>
            \E q \in Requests : call[q].asset = a /\ Destroys(q)

\* referenced_by is the materialised view of the log: as long as requests came
\* one at a time, they differ on a reference only because of a request about it
\* that is under way or died.
IndexFollowsLog ==
    calm => \A a \in Assets : \A ref \in References :
        (ref \in store[a].item.referenced_by) # (ref \in gamma[a].open) =>
            \E q \in Requests : /\ call[q].op \in {"ref", "unref"}
                                /\ call[q].asset = a /\ call[q].ref = ref
                                /\ Active(q) \/ answer[q] = "lost"

\* No reference points at a tombstone as long as requests came one at a time,
\* wherever they died and were sent again.  Where they overlap, a reference can
\* come in between the check of delete_asset and its update.
CalmTombstoneIsUnreferenced ==
    calm => \A a \in Assets : store[a].item.state = "TOMBSTONED"
                                 => store[a].item.referenced_by = {}

\* The table and the log of gamma tell one story: types, what is journaled, what the
\* references and the state of an asset say of each other and of the log.
TableAgreesWithLog ==
    TypeOK /\ TableIsJournaled /\ StateMatchesReferences /\ IndexFollowsLog

\* What is stored has its bytes, in the object store and in the quota.
BytesAreAccountedFor == StoredHasBytes /\ UsedCoversStored /\ DriftIsExplained
=============================================================================
