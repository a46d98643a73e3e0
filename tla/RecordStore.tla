----------------------------- MODULE RecordStore -----------------------------
(***************************************************************************)
(* The record table of the data PDS (packages/data-backend): what          *)
(* insert_record, update_record and delete_record do to one collection     *)
(* when their requests overlap, fail half way, and read a DynamoDB replica *)
(* that lags behind.                                                       *)
(*                                                                         *)
(* Every request is a Lambda invocation that never retries.  Each of its   *)
(* DynamoDB calls is one action, so another request can run between any    *)
(* two of them, and the invocation can die between any two of them.        *)
(*                                                                         *)
(*   get ---> stamp ---> put ---> bump ---> audit ---> done                *)
(*                                                                         *)
(*   get    read the row (update, delete) or the collection (insert)       *)
(*   stamp  const now = new Date().toISOString(), and the local checks     *)
(*   put    the write on the row, with its condition expression            *)
(*   bump   the best-effort ADD on the collection's record_count           *)
(*   audit  appendGammaEntry, whose return is the success answer           *)
(*                                                                         *)
(* A payload stands for the metadata and the payload envelope of one write *)
(* and is the request that wrote it; Wiped is the {} a soft delete leaves. *)
(***************************************************************************)
EXTENDS Integers, FiniteSets

CONSTANTS
    Records,        \* record ids of the collection
    Requests,       \* request ids; a request is sent at most once
    Wiped,          \* the payload of a soft-deleted row
    Ops,            \* the operations that clients send
    Callers,        \* who sends them
    BareUpdates,    \* do some updates leave out expected_modified_at?
    CoarseClock     \* can two handlers read the same millisecond?

AllOps == {"insert", "update", "delete", "hard_delete"}

\* The owner, or a delegate whose mandate carries that data.<col> scope.
AllCallers == {"owner", "write", "append"}

ASSUME RecordsAssumption == Records # {}
ASSUME OpsAssumption == Ops \subseteq AllOps
ASSUME CallersAssumption == Callers \subseteq AllCallers
ASSUME WipedAssumption == Wiped \notin Requests
ASSUME FlagsAssumption == BareUpdates \in BOOLEAN /\ CoarseClock \in BOOLEAN

VARIABLES
    rows,        \* the table: one row per record id
    replica,     \* the row an eventually consistent read may still return
    collection,  \* the collection item: does it exist, and its record_count
    clock,       \* the last millisecond any handler has read
    pc,          \* the next step of each request
    call,        \* what each request asks for
    snap,        \* the row that the request's Get returned
    now,         \* the request's timestamp, 0 before it is read
    outcome,     \* the answer the client got
    gamma,       \* the requests with an entry in the gamma log
    committed,   \* history: the requests whose write reached the table
    counted,     \* history: the requests whose ADD reached the collection
    repeated     \* history: those whose ADD the SDK sent again and that counted twice

vars == <<rows, replica, collection, clock, pc, call, snap, now, outcome,
          gamma, committed, counted, repeated>>
-----------------------------------------------------------------------------
Payload == Requests \cup {Wiped}

Row == [exists: BOOLEAN, deleted: BOOLEAN, payload: Payload, modified_at: Nat]

Absent == [exists |-> FALSE, deleted |-> FALSE, payload |-> Wiped,
           modified_at |-> 0]

\* Mutant: the handlers forget the deleted flag.
PresentIsVisible(row) == row.exists

\* What the handlers accept as an answerable row: !r.Item || r.Item.deleted
Visible(row) == row.exists /\ ~row.deleted

\* expected = 0 when expected_modified_at is left out; base is the payload the
\* client had read when it chose expected.
Call == [op: AllOps, rec: Records, caller: AllCallers, expected: Nat,
         base: Payload]

\* What stands in call before the request is sent.
NoCall == [op |-> "insert", rec |-> CHOOSE r \in Records : TRUE,
           caller |-> "owner", expected |-> 0, base |-> Wiped]

Steps == {"idle", "get", "stamp", "put", "bump", "audit", "done"}

Outcomes == {"none", "ok", "not_found", "exists", "invalid", "forbidden",
             "concurrent_modification", "condition_failed", "lost"}

Needs(op) == IF op = "insert" THEN "append" ELSE "write"

\* Mutant: append is taken for write.
GrantedLoosely(caller, action) ==
    caller = "owner" \/ {caller, action} \subseteq {"write", "append"}

\* requireScope: the owner passes, a write scope covers append, and append
\* covers nothing else.
Granted(caller, action) ==
    \/ caller = "owner"
    \/ caller = action
    \/ caller = "write" /\ action = "append"

\* Mutant: a delete sets the payload to null.
WrittenNull(q) == IF call[q].op \in {"insert", "update"} THEN q ELSE "null"

\* What a request leaves in the row it writes.
Written(q) == IF call[q].op \in {"insert", "update"} THEN q ELSE Wiped
-----------------------------------------------------------------------------
Init ==
    /\ rows = [r \in Records |-> Absent]
    /\ replica = [r \in Records |-> Absent]
    /\ collection = [exists |-> FALSE, record_count |-> 0]
    /\ clock = 0
    /\ pc = [q \in Requests |-> "idle"]
    /\ call = [q \in Requests |-> NoCall]
    /\ snap = [q \in Requests |-> Absent]
    /\ now = [q \in Requests |-> 0]
    /\ outcome = [q \in Requests |-> "none"]
    /\ gamma = {}
    /\ committed = {}
    /\ counted = {}
    /\ repeated = {}

\* The request is over and its client has the answer.
Answer(q, result) ==
    /\ pc' = [pc EXCEPT ![q] = "done"]
    /\ outcome' = [outcome EXCEPT ![q] = result]

Advance(q, from, to) ==
    /\ pc[q] = from
    /\ pc' = [pc EXCEPT ![q] = to]

\* GetCommand without ConsistentRead: the current row or a lagging one.
Readable(r) == {rows[r], replica[r]}
-----------------------------------------------------------------------------
\* create_collection: one conditional put.
CreateCollection ==
    /\ ~collection.exists
    /\ collection' = [exists |-> TRUE, record_count |-> 0]
    /\ UNCHANGED <<rows, replica, clock, pc, call, snap, now, outcome, gamma,
                   committed, counted, repeated>>

\* The expected_modified_at, and the payload it came with, that a client of op
\* on r can hold: none, or those of a row get_record showed it.
ClientReads(op, r) ==
    IF op # "update" THEN {[expected |-> 0, base |-> Wiped]}
    ELSE {[expected |-> v.modified_at, base |-> v.payload] :
              v \in {w \in Readable(r) : Visible(w)}}
         \cup {x \in {[expected |-> 0, base |-> Wiped]} : BareUpdates}

\* A request arrives and passes authenticate; requireScope runs before the
\* first await.
Submit(q) ==
    /\ pc[q] = "idle"
    /\ \E op \in Ops, r \in Records, who \in Callers :
         \E read \in ClientReads(op, r) :
            /\ call' = [call EXCEPT ![q] =
                          [op |-> op, rec |-> r, caller |-> who,
                           expected |-> read.expected, base |-> read.base]]
            /\ \/ /\ Granted(who, Needs(op))
                  /\ pc' = [pc EXCEPT ![q] = "get"]
                  /\ UNCHANGED outcome
               \/ /\ ~Granted(who, Needs(op))
                  /\ Answer(q, "forbidden")
    /\ UNCHANGED <<rows, replica, collection, clock, snap, now, gamma,
                   committed, counted, repeated>>

\* insert_record reads the collection, which a lagging replica may not have yet.
GetCollection(q) ==
    /\ call[q].op = "insert"
    /\ \/ /\ collection.exists
          /\ Advance(q, "get", "stamp")
          /\ UNCHANGED outcome
       \/ /\ pc[q] = "get"
          /\ Answer(q, "not_found")
    /\ UNCHANGED <<rows, replica, collection, clock, call, snap, now, gamma,
                   committed, counted, repeated>>

\* update_record and delete_record read the row; update_record then compares
\* expected_modified_at with what it read.
GetRow(q) ==
    /\ pc[q] = "get"
    /\ call[q].op # "insert"
    /\ \E row \in Readable(call[q].rec) :
         \/ /\ ~Visible(row)
            /\ Answer(q, "not_found")
            /\ UNCHANGED snap
         \/ /\ Visible(row)
            /\ call[q].expected \notin {0, row.modified_at}
            /\ Answer(q, "concurrent_modification")
            /\ UNCHANGED snap
         \/ /\ Visible(row)
            /\ call[q].expected \in {0, row.modified_at}
            /\ snap' = [snap EXCEPT ![q] = row]
            /\ pc' = [pc EXCEPT ![q] = "stamp"]
            /\ UNCHANGED outcome
    /\ UNCHANGED <<rows, replica, collection, clock, call, now, gamma,
                   committed, counted, repeated>>

\* Mutant: the clock is read before the Get, at its last tick.
StampReusesClock(q) ==
    /\ ~(call[q].op = "hard_delete" /\ call[q].caller # "owner")
    /\ Advance(q, "stamp", "put")
    /\ clock' \in {clock, clock + 1} \ {0}
    /\ now' = [now EXCEPT ![q] = clock']
    /\ UNCHANGED <<rows, replica, collection, call, snap, outcome, gamma,
                   committed, counted, repeated>>

\* The handler reads the clock.  Without CoarseClock no two reads agree.
Stamp(q) ==
    /\ ~(call[q].op = "hard_delete" /\ call[q].caller # "owner")
    /\ Advance(q, "stamp", "put")
    /\ \/ clock' = clock + 1
       \/ CoarseClock /\ clock > 0 /\ clock' = clock
    /\ now' = [now EXCEPT ![q] = clock']
    /\ UNCHANGED <<rows, replica, collection, call, snap, outcome, gamma,
                   committed, counted, repeated>>

\* The metadata of an insert or an update does not match the schema, or a
\* delegate asked for a hard delete.
Refuse(q) ==
    /\ pc[q] = "stamp"
    /\ \/ /\ call[q].op \in {"insert", "update"}
          /\ Answer(q, "invalid")
       \/ /\ call[q].op = "hard_delete"
          /\ call[q].caller # "owner"
          /\ Answer(q, "forbidden")
    /\ UNCHANGED <<rows, replica, collection, clock, call, snap, now, gamma,
                   committed, counted, repeated>>
-----------------------------------------------------------------------------
\* The write of q reaches the table.
WriteRow(q, row) ==
    /\ rows' = [rows EXCEPT ![call[q].rec] = row]
    /\ committed' = committed \cup {q}
    /\ Advance(q, "put", "bump")
    /\ UNCHANGED <<replica, collection, clock, call, snap, now, outcome, gamma,
                   counted, repeated>>

\* The condition of the write of q does not hold.
ConditionFails(q, result) ==
    /\ pc[q] = "put"
    /\ Answer(q, result)
    /\ UNCHANGED <<rows, replica, collection, clock, call, snap, now, gamma,
                   committed, counted, repeated>>

\* Mutant: a put without its condition.
PutInsertAlways(q) ==
    /\ call[q].op = "insert"
    /\ WriteRow(q, [exists |-> TRUE, deleted |-> FALSE,
                    payload |-> Written(q), modified_at |-> now[q]])

\* PutCommand with attribute_not_exists(sk).
PutInsert(q) ==
    /\ call[q].op = "insert"
    /\ \/ /\ ~rows[call[q].rec].exists
          /\ WriteRow(q, [exists |-> TRUE, deleted |-> FALSE,
                          payload |-> Written(q), modified_at |-> now[q]])
       \/ /\ rows[call[q].rec].exists
          /\ ConditionFails(q, "exists")

\* Mutant: expected_modified_at is compared after the Get only.
ExistenceIsEnough(q) == rows[call[q].rec].exists

\* modified_at = :expected, or attribute_exists(sk) when the client sent none.
UpdateCondition(q) ==
    IF call[q].expected = 0
    THEN rows[call[q].rec].exists
    ELSE /\ rows[call[q].rec].exists
         /\ rows[call[q].rec].modified_at = call[q].expected

\* PutCommand of {...r.Item, new content}: what the new content leaves out,
\* the deleted flag among it, comes from the row that was read.  The failed
\* condition is not caught: the router answers -32000 with the bare exception.
PutUpdate(q) ==
    /\ call[q].op = "update"
    /\ \/ /\ UpdateCondition(q)
          /\ WriteRow(q, [exists |-> TRUE, deleted |-> snap[q].deleted,
                          payload |-> Written(q), modified_at |-> now[q]])
       \/ /\ ~UpdateCondition(q)
          /\ ConditionFails(q, "condition_failed")

\* UpdateCommand without a condition: it creates the row when there is none.
SoftDelete(q) ==
    /\ call[q].op = "delete"
    /\ WriteRow(q, [exists |-> TRUE, deleted |-> TRUE,
                    payload |-> Written(q), modified_at |-> now[q]])

\* DeleteCommand without a condition.
HardDelete(q) ==
    /\ call[q].op = "hard_delete"
    /\ WriteRow(q, Absent)
-----------------------------------------------------------------------------
\* Mutant: a delete leaves the count alone.
CountInsertsOnly(op) == IF op = "insert" THEN 1 ELSE 0

CountChange(op) == IF op = "insert" THEN 1 ELSE -1

\* The ADD on record_count; its failure is caught and ignored.  An ADD is not
\* idempotent, and the SDK sends it again when the first answer is lost.  An update
\* sets the collection's modified_at only.
BumpCount(q) ==
    /\ Advance(q, "bump", "audit")
    /\ \E times \in IF call[q].op = "update" THEN {0} ELSE 0..2 :
          /\ collection' = [collection EXCEPT !.record_count =
                                @ + times * CountChange(call[q].op)]
          /\ counted' = counted \cup {p \in {q} : times > 0}
          /\ repeated' = repeated \cup {p \in {q} : times = 2}
    /\ UNCHANGED <<rows, replica, clock, call, snap, now, outcome, gamma,
                   committed>>

\* Mutant: the audit entry is best-effort like the count.
AuditBestEffort(q) ==
    /\ pc[q] = "audit"
    /\ gamma' \in {gamma, gamma \cup {q}}
    /\ Answer(q, "ok")
    /\ UNCHANGED <<rows, replica, collection, clock, call, snap, now,
                   committed, counted, repeated>>

\* appendGammaEntry commits, and the answer leaves or is lost on its way.
Audit(q) ==
    /\ pc[q] = "audit"
    /\ gamma' = gamma \cup {q}
    /\ \E result \in {"ok", "lost"} : Answer(q, result)
    /\ UNCHANGED <<rows, replica, collection, clock, call, snap, now,
                   committed, counted, repeated>>

\* The invocation dies or times out, or a DynamoDB call throws and the router
\* answers with an internal error: the client knows nothing.
Crash(q) ==
    /\ pc[q] \in {"get", "stamp", "put", "bump", "audit"}
    /\ Answer(q, "lost")
    /\ UNCHANGED <<rows, replica, collection, clock, call, snap, now, gamma,
                   committed, counted, repeated>>

\* The replicas catch up with the row.
Replicate(r) ==
    /\ replica[r] # rows[r]
    /\ replica' = [replica EXCEPT ![r] = rows[r]]
    /\ UNCHANGED <<rows, collection, clock, pc, call, snap, now, outcome,
                   gamma, committed, counted, repeated>>

Step(q) ==
    \/ Submit(q)
    \/ GetCollection(q)
    \/ GetRow(q)
    \/ Stamp(q)
    \/ Refuse(q)
    \/ PutInsert(q)
    \/ PutUpdate(q)
    \/ SoftDelete(q)
    \/ HardDelete(q)
    \/ BumpCount(q)
    \/ Audit(q)
    \/ Crash(q)

Next ==
    \/ CreateCollection
    \/ \E q \in Requests : Step(q)
    \/ \E r \in Records : Replicate(r)

Spec == Init /\ [][Next]_vars
-----------------------------------------------------------------------------
(***************************************************************************)
(* Properties                                                              *)
(***************************************************************************)

\* Every variable keeps its type.
TypeOK ==
    /\ rows \in [Records -> Row]
    /\ replica \in [Records -> Row]
    /\ collection \in [exists: BOOLEAN, record_count: Int]
    /\ clock \in Nat
    /\ pc \in [Requests -> Steps]
    /\ call \in [Requests -> Call]
    /\ snap \in [Requests -> Row]
    /\ now \in [Requests -> Nat]
    /\ outcome \in [Requests -> Outcomes]
    /\ gamma \subseteq Requests
    /\ committed \subseteq Requests
    /\ counted \subseteq Requests
    /\ repeated \subseteq Requests

\* The write of an update that came with expected_modified_at.
CasWrites(q) ==
    /\ pc[q] = "put" /\ pc'[q] = "bump"
    /\ call[q].op = "update" /\ call[q].expected # 0

\* Optimistic locking: an update sent with expected_modified_at replaces the
\* very content its client had read, which is also the content whose hashes
\* its gamma entry gives as the previous ones.  The client's read, the
\* handler's Get and the conditional put are three separate calls, and bare
\* updates and deletes by others run between them.
UpdateReplacesWhatWasRead ==
    [][\A q \in Requests : CasWrites(q) =>
          LET row == rows[call[q].rec] IN
          Visible(row) /\ row.payload = call[q].base
                       /\ row.payload = snap[q].payload]_vars

\* A soft-deleted record becomes visible again by nothing but an update without
\* expected_modified_at, whose Get had seen it before: no insert, no update of a
\* client that locks, and no stale read brings it back.
OnlyBareUpdatesRevive ==
    [][\A r \in Records :
          rows[r].exists /\ rows[r].deleted /\ Visible(rows'[r]) =>
              \E q \in Requests :
                  /\ pc[q] = "put" /\ q \in committed'
                  /\ call[q].op = "update" /\ call[q].rec = r
                  /\ call[q].expected = 0 /\ Visible(snap[q])]_vars

Rejections == {"not_found", "exists", "invalid", "forbidden",
               "concurrent_modification", "condition_failed"}

\* Seen through the rows the store is the atomic register of RecordLifecycle: every
\* write is one of its operations or changes nothing.
LifeOf(row) == IF ~row.exists THEN "NONE"
               ELSE IF row.deleted THEN "SOFT_DELETED" ELSE "ACTIVE"

Lifecycle == INSTANCE RecordLifecycle WITH
                 Payloads <- Requests,
                 Bare     <- BareUpdates,
                 Erasing  <- "hard_delete" \in Ops,
                 life     <- [r \in Records |-> LifeOf(rows[r])],
                 content  <- [r \in Records |-> rows[r].payload]

ImplementsLifecycle == Lifecycle!Spec

\* An answer tells what happened: success means that the write and its gamma
\* entry are both there, a refusal means that neither is, and the log never
\* speaks of a write that did not happen, however requests interleave and
\* wherever they die.
AnswersTellTheTruth ==
    \A q \in Requests :
        /\ outcome[q] = "ok" => q \in committed /\ q \in gamma
        /\ outcome[q] \in Rejections => q \notin committed
        /\ q \in gamma => q \in committed

\* A depositor whose mandate carries only data.<col>.append never changes a
\* record that is there, deleted or not, even when it races with others.
AppendNeverOverwrites ==
    [][\A q \in Requests :
          call[q].caller = "append" /\ q \in committed' \ committed
             => ~rows[call[q].rec].exists]_vars

\* A record id is created again only after an erasure: the inserts that
\* succeeded outnumber the hard deletes by one at most.
OneCreationPerErasure ==
    \A r \in Records :
        LET of(op) == {q \in committed : call[q].rec = r /\ call[q].op = op}
        IN Cardinality(of("insert")) <= 1 + Cardinality(of("hard_delete"))

\* record_count exceeds the number of records that are visible by no more than
\* the deletes whose decrement is still to come or was lost, and the inserts that
\* the SDK counted twice.  (It can fall below: two deletes of one record both
\* decrement, and a lost increment is never made up for.)
CountNeverOverstates ==
    collection.record_count <=
        Cardinality({r \in Records : Visible(rows[r])})
        + Cardinality({q \in committed \ counted :
                          call[q].op \in {"delete", "hard_delete"}})
        + Cardinality({q \in repeated : call[q].op = "insert"})

\* The books of the collection: creations against erasures, and the count against
\* what is visible.
BooksAreKept == OneCreationPerErasure /\ CountNeverOverstates
-----------------------------------------------------------------------------
(***************************************************************************)
(* The inductive invariant: every version of a row names its writer        *)
(***************************************************************************)

\* Version v of record r was written by the one request that read that clock.
WrittenBy(v, r, w) ==
    /\ now[w] = v.modified_at /\ now[w] > 0
    /\ call[w].rec = r
    /\ call[w].op \in {"insert", "update", "delete"}
    /\ v.payload = Written(w)
    /\ v.deleted = (call[w].op = "delete")

Attributed(v, r) == v.exists => \E w \in Requests : WrittenBy(v, r, w)

RowsAttributed ==
    \A r \in Records : Attributed(rows[r], r) /\ Attributed(replica[r], r)

\* A millisecond is read once, after the request was sent and before its put.
StampsUnique ==
    /\ \A p, q \in Requests : now[p] = now[q] /\ now[p] > 0 => p = q
    /\ \A q \in Requests :
         /\ now[q] <= clock
         /\ pc[q] \in {"idle", "get", "stamp"} => now[q] = 0
         /\ pc[q] = "put" => now[q] > 0

\* Between its Get and its put a request holds a row that was visible, and the
\* one its client had read.
SnapsAttributed ==
    \A q \in Requests :
        pc[q] \in {"stamp", "put"} /\ call[q].op # "insert" =>
            /\ Visible(snap[q])
            /\ Attributed(snap[q], call[q].rec)
            /\ call[q].expected \in {0, snap[q].modified_at}

\* An expected_modified_at is the stamp of the content it was read with.
ExpectationsAttributed ==
    \A q \in Requests : call[q].expected # 0 =>
        \E w \in Requests : /\ now[w] = call[q].expected /\ now[w] > 0
                            /\ call[q].base = Written(w)

\* Without bare updates, every update carries one.
UpdatesCarryExpectations ==
    ~BareUpdates => \A q \in Requests : call[q].op = "update" => call[q].expected # 0

VersionsNameTheirWriter ==
    /\ RowsAttributed
    /\ StampsUnique
    /\ SnapsAttributed
    /\ ExpectationsAttributed
    /\ UpdatesCarryExpectations
=============================================================================
