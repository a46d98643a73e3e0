---------------------------- MODULE CollectionKeys ----------------------------
(***************************************************************************)
(* Who can read a collection of the data PDS: authorize_app, revoke_app    *)
(* and rotate_cmk on its collection key, the CMK.                          *)
(*                                                                         *)
(* The collection item carries one wrap of the CMK for each reader and the *)
(* index of their mandates; each record carries its DEK wrapped under the  *)
(* CMK.  Keys are made by the owner's client (data-crypto), which reads    *)
(* the collection, prepares the wraps and sends them; the handlers read    *)
(* the collection once more and write it back whole.  CMKs are numbered    *)
(* in the order in which clients generate them.                            *)
(*                                                                         *)
(* A request is a Lambda invocation: each of its DynamoDB calls is one     *)
(* action, and it can die between any two of them.                         *)
(***************************************************************************)
EXTENDS Integers, FiniteSets

CONSTANTS
    Mandates,     \* the mandates the owner may register
    Apps,         \* the grantees: the holders of a key that wraps go to
    Grantee,      \* the app each mandate is for
    Records,      \* record ids of the collection
    Requests,     \* the numbers of the requests, in the order they are sent
    Modes         \* how the collection is used; a behaviour has one of them

AllOps == {"authorize", "revoke", "revoke_rotate", "rotate", "insert"}

ASSUME RequestsAssumption == IsFiniteSet(Requests) /\ Requests = 1..Cardinality(Requests)
ASSUME MandatesAssumption == Mandates # {}
ASSUME GranteeAssumption == Grantee \in [Mandates -> Apps]

\* serial: one request at a time, and every read is current.  crashes: clients
\* learn that a call got no answer; a request that just stops needs no action.
\* ops, mandates and requests bound what clients send.
Mode == [serial: BOOLEAN, crashes: BOOLEAN, ops: SUBSET AllOps,
         mandates: SUBSET Mandates, requests: Nat]

ASSUME ModesAssumption == Modes \subseteq Mode

VARIABLES
    mode,      \* how this collection is used
    item,      \* the collection item: the CMK envelope and the mandate index
    replica,   \* what an eventually consistent read of it may still return
    dek,       \* the CMK under which each record's DEK is wrapped, 0: no record
    revoked,   \* the revocations table, which authenticate consults
    log,       \* the last gamma entry about each mandate
    fresh,     \* the last CMK that a client has generated
    last,      \* the request that was sent last, as a set
    call,      \* what each request asks for
    at,        \* the next step of each request
    snap,      \* the collection item that the request's Get returned
    left,      \* the records that the request has still to re-wrap
    answer     \* the answer the client got

vars == <<mode, item, replica, dek, revoked, log, fresh, last, call, at, snap,
          left, answer>>
-----------------------------------------------------------------------------
MaxCmk == 1 + Cardinality(Requests)

Wrap == [app: Apps, cmk: 1..MaxCmk]

\* cmk is the one of the owner's wrap.
Envelope == [cmk: 1..MaxCmk, wraps: SUBSET Wrap]

\* exists: does the item have a mandate_index?
Index == [exists: BOOLEAN, mandates: SUBSET Mandates]

Item == [envelope: Envelope, index: Index]

Call == [op: AllOps, mandate: Mandates, records: SUBSET Records,
         envelope: Envelope]

Rotating == {"revoke_rotate", "rotate"}
Revoking == {"revoke", "revoke_rotate"}
Mandated == Revoking \cup {"authorize"}

Steps == {"idle", "get", "insert", "grant", "grantFirst", "rewrap", "save",
          "publish", "log", "done"}

\* create_collection: the owner's wrap, and no mandate_index.
NoItem == [envelope |-> [cmk |-> 1, wraps |-> {}],
           index |-> [exists |-> FALSE, mandates |-> {}]]

\* What stands in call before the request is sent, and in the fields of a
\* request that it does not have.
NoCall == [op |-> "insert", mandate |-> CHOOSE m \in Mandates : TRUE,
           records |-> {}, envelope |-> NoItem.envelope]

Init ==
    /\ mode \in Modes
    /\ item = NoItem
    /\ replica = item
    /\ dek = [r \in Records |-> 0]
    /\ revoked = {}
    /\ log = [m \in Mandates |-> "none"]
    /\ fresh = 1
    /\ last = {}
    /\ call = [q \in Requests |-> NoCall]
    /\ at = [q \in Requests |-> "idle"]
    /\ snap = [q \in Requests |-> NoItem]
    /\ left = [q \in Requests |-> {}]
    /\ answer = [q \in Requests |-> "none"]

Readable == IF mode.serial THEN {item} ELSE {item, replica}

\* The handler returns or throws: what it has read is gone.
Answer(q, result) ==
    /\ at' = [at EXCEPT ![q] = "done"]
    /\ snap' = [snap EXCEPT ![q] = NoItem]
    /\ answer' = [answer EXCEPT ![q] = result]

Goto(q, from, to) ==
    /\ at[q] = from
    /\ at' = [at EXCEPT ![q] = to]
    /\ UNCHANGED <<snap, answer>>

WrapsOf(wraps, m) == {w \in wraps : w.app = Grantee[m]}
-----------------------------------------------------------------------------
\* authorizeApp of data-crypto: unwrap the CMK, wrap it for the new reader.
\* The client throws when the reader has a wrap already.
PrepareAuthorize(e, m) ==
    [NoCall EXCEPT
        !.op = "authorize", !.mandate = m,
        !.envelope = [cmk |-> e.cmk, wraps |-> {[app |-> Grantee[m], cmk |-> e.cmk]}]]

MayAuthorize(e, m) == WrapsOf(e.wraps, m) = {}

Readers(wraps) == {w.app : w \in wraps}

\* rotateCMK of data-crypto: a fresh CMK, its wraps for the recipients that the
\* client retains, and each record's DEK re-wrapped.  Nobody checks whom it retains.
PrepareRotation(op, m, retained) ==
    [NoCall EXCEPT
        !.op = op, !.mandate = m,
        !.records = {r \in Records : dek[r] # 0},
        !.envelope = [cmk |-> fresh + 1,
                      wraps |-> {[app |-> a, cmk |-> fresh + 1] : a \in retained}]]

\* The client throws when it cannot unwrap one of the DEKs.
MayRotate(e) == \A r \in Records : dek[r] \in {0, e.cmk}

\* encryptRecord of data-crypto, for a record id that is not in use.
PrepareInsert(e, r) ==
    [NoCall EXCEPT !.records = {r}, !.envelope.cmk = e.cmk]

Unused(r) ==
    /\ dek[r] = 0
    /\ \A p \in Requests : call[p].op = "insert" => r \notin call[p].records

\* The requests that a client makes from the collection it has read.
Prepared(e) ==
    {PrepareAuthorize(e, m) : m \in {x \in Mandates : MayAuthorize(e, x)}}
    \cup {[NoCall EXCEPT !.op = "revoke", !.mandate = m] : m \in Mandates}
    \cup (IF ~MayRotate(e) THEN {}
          ELSE UNION {{PrepareRotation("rotate", NoCall.mandate, retained)}
                      \cup {PrepareRotation("revoke_rotate", m, retained) : m \in Mandates} :
                         retained \in SUBSET Readers(e.wraps)})
    \cup {PrepareInsert(e, r) : r \in {x \in Records : Unused(x)}}

\* The call that got no answer, if it was the last one.
Unanswered == {call[q] : q \in {p \in last : answer[p] = "lost"}}

\* A client reads the collection, prepares a request and sends it, or sends
\* the last one again because no answer came.
Submit(q) ==
    /\ at[q] = "idle"
    /\ q = 1 + Cardinality({p \in Requests : at[p] # "idle"})
    /\ q <= mode.requests
    /\ mode.serial => \A p \in Requests : at[p] \in {"idle", "done"}
    /\ \E c \in Unanswered \cup UNION {Prepared(v.envelope) : v \in Readable} :
         /\ c.op \in mode.ops
         /\ c.op \in Mandated => c.mandate \in mode.mandates
         /\ call' = [call EXCEPT ![q] = c]
         /\ left' = [left EXCEPT ![q] = IF c.op \in Rotating THEN c.records ELSE {}]
         /\ fresh' = IF c.op \in Rotating /\ c \notin Unanswered THEN fresh + 1 ELSE fresh
    /\ last' = {q}
    /\ at' = [at EXCEPT ![q] = "get"]
    /\ UNCHANGED <<mode, item, replica, dek, revoked, log, snap, answer>>

\* The handlers read the collection.  authorize_app refuses a reader that has a
\* wrap; revoke_app takes a mandate that is not in the index.
GetCollection(q) ==
    /\ at[q] = "get"
    /\ \E v \in Readable :
         LET c == call[q]
             taken == c.op = "authorize" /\ WrapsOf(v.envelope.wraps, c.mandate) # {}
         IN
         \/ taken /\ Answer(q, "duplicate")
         \/ /\ ~taken
            /\ at' = [at EXCEPT ![q] = CASE c.op = "authorize" -> "grant"
                                         [] c.op = "insert" -> "insert"
                                         [] OTHER -> "rewrap"]
            /\ snap' = [snap EXCEPT ![q] = v]
            /\ UNCHANGED answer
    /\ UNCHANGED <<mode, item, replica, dek, revoked, log, fresh, last, call, left>>

\* insert_record, as far as the CMK is concerned; an insert that was sent again
\* finds its record.
PutRecord(q) ==
    /\ at[q] = "insert"
    /\ \E r \in call[q].records :
         dek' = [dek EXCEPT ![r] = IF @ = 0 THEN call[q].envelope.cmk ELSE @]
    /\ Answer(q, "ok")
    /\ UNCHANGED <<mode, item, replica, revoked, log, fresh, last, call, left>>
-----------------------------------------------------------------------------
\* Mutant: the client's envelope replaces the one in the table.
GrantReplaces(q) == call[q].envelope

\* The wrap of q appended to the envelope that q has read.
Granted(q) ==
    [snap[q].envelope EXCEPT !.wraps = @ \cup call[q].envelope.wraps]

\* authorize_app writes the envelope and the mandate's index entry.  Without a
\* mandate_index the update fails as a whole and the next one creates it.
Grant(q) ==
    /\ \/ /\ item.index.exists
          /\ Goto(q, "grant", "log")
          /\ item' = [envelope |-> Granted(q),
                      index |-> [exists |-> TRUE,
                                 mandates |-> item.index.mandates \cup {call[q].mandate}]]
       \/ /\ ~item.index.exists
          /\ Goto(q, "grant", "grantFirst")
          /\ UNCHANGED item
    /\ UNCHANGED <<mode, replica, dek, revoked, log, fresh, last, call, left>>

\* The fallback: a fresh mandate_index with this one entry.
GrantFirst(q) ==
    /\ Goto(q, "grantFirst", "log")
    /\ item' = [envelope |-> Granted(q),
                index |-> [exists |-> TRUE, mandates |-> {call[q].mandate}]]
    /\ UNCHANGED <<mode, replica, dek, revoked, log, fresh, last, call, left>>

\* Mutant: the first record keeps its DEK under the old CMK.
RewrapAllButOne(q) ==
    /\ \/ \E r \in left[q] :
             /\ left' = [left EXCEPT ![q] = @ \ {r}]
             /\ dek' = IF left[q] = call[q].records THEN dek
                       ELSE [dek EXCEPT ![r] = call[q].envelope.cmk]
             /\ Goto(q, "rewrap", "rewrap")
       \/ /\ left[q] = {}
          /\ Goto(q, "rewrap", "save")
          /\ UNCHANGED <<dek, left>>
    /\ UNCHANGED <<mode, item, replica, revoked, log, fresh, last, call>>

\* rotate_cmk, and revoke_app with rotate_cmk: one update for each record.
Rewrap(q) ==
    /\ \/ \E r \in left[q] :
             /\ left' = [left EXCEPT ![q] = @ \ {r}]
             /\ dek' = [dek EXCEPT ![r] = call[q].envelope.cmk]
             /\ Goto(q, "rewrap", "rewrap")
       \/ /\ left[q] = {}
          /\ Goto(q, "rewrap", "save")
          /\ UNCHANGED <<dek, left>>
    /\ UNCHANGED <<mode, item, replica, revoked, log, fresh, last, call>>

\* Mutant: revoke_app leaves the wraps to a rotation.
StrippedNever(q) == snap[q].envelope

\* Mutant: without a rotation the new envelope is left undefined.
StrippedBare(q) == [cmk |-> 0, wraps |-> {}]

\* revoke_app filters the wraps it has read, by the index entry it has read.
Stripped(q) ==
    LET m == call[q].mandate IN
    IF m \in snap[q].index.mandates
    THEN [snap[q].envelope EXCEPT !.wraps = @ \ WrapsOf(@, m)]
    ELSE snap[q].envelope

\* Mutant: the wraps of a rotation are added to those that are there.
SaveMerged(q) ==
    LET c == call[q] IN
    /\ Goto(q, "save", IF c.op \in Revoking THEN "publish" ELSE "log")
    /\ item' = [envelope |-> IF c.op \in Rotating
                             THEN [c.envelope EXCEPT !.wraps = @ \cup Stripped(q).wraps]
                             ELSE Stripped(q),
                index |-> IF c.op \in Revoking /\ c.mandate \in snap[q].index.mandates
                          THEN [item.index EXCEPT !.mandates = @ \ {c.mandate}]
                          ELSE item.index]
    /\ UNCHANGED <<mode, replica, dek, revoked, log, fresh, last, call, left>>

\* The update of the collection; REMOVE of an index entry that is gone already
\* removes nothing.
Save(q) ==
    LET c == call[q] IN
    /\ Goto(q, "save", IF c.op \in Revoking THEN "publish" ELSE "log")
    /\ item' = [envelope |-> IF c.op \in Rotating THEN c.envelope ELSE Stripped(q),
                index |-> IF c.op \in Revoking /\ c.mandate \in snap[q].index.mandates
                          THEN [item.index EXCEPT !.mandates = @ \ {c.mandate}]
                          ELSE item.index]
    /\ UNCHANGED <<mode, replica, dek, revoked, log, fresh, last, call, left>>

\* Mutant: only a mandate of the index is put on the revocation list.
PublishIndexed(q) ==
    /\ Goto(q, "publish", "log")
    /\ revoked' = revoked \cup ({call[q].mandate} \cap snap[q].index.mandates)
    /\ UNCHANGED <<mode, item, replica, dek, log, fresh, last, call, left>>

\* recordRevocation.
Publish(q) ==
    /\ Goto(q, "publish", "log")
    /\ revoked' = revoked \cup {call[q].mandate}
    /\ UNCHANGED <<mode, item, replica, dek, log, fresh, last, call, left>>

\* appendGammaEntry; the answer leaves or is lost on its way.
Log(q) ==
    /\ at[q] = "log"
    /\ log' = [log EXCEPT ![call[q].mandate] =
                  CASE call[q].op = "authorize" -> "authorized"
                    [] call[q].op \in Revoking -> "revoked"
                    [] OTHER -> @]
    /\ \E result \in {"ok"} \cup (IF mode.crashes THEN {"lost"} ELSE {}) : Answer(q, result)
    /\ UNCHANGED <<mode, item, replica, dek, revoked, fresh, last, call, left>>

\* The invocation dies, or one of its calls throws.
Crash(q) ==
    /\ mode.crashes
    /\ at[q] \notin {"idle", "done"}
    /\ Answer(q, "lost")
    /\ UNCHANGED <<mode, item, replica, dek, revoked, log, fresh, last, call, left>>

Replicate ==
    /\ ~mode.serial
    /\ replica # item
    /\ replica' = item
    /\ UNCHANGED <<mode, item, dek, revoked, log, fresh, last, call, at, snap, left, answer>>

Step(q) ==
    \/ Submit(q)
    \/ GetCollection(q)
    \/ PutRecord(q)
    \/ Grant(q)
    \/ GrantFirst(q)
    \/ Rewrap(q)
    \/ Save(q)
    \/ Publish(q)
    \/ Log(q)
    \/ Crash(q)

Next == Replicate \/ \E q \in Requests : Step(q)

Spec == Init /\ [][Next]_vars
-----------------------------------------------------------------------------
(***************************************************************************)
(* Properties                                                              *)
(***************************************************************************)

\* Every variable keeps its type.
TypeOK ==
    /\ mode \in Modes
    /\ item \in Item /\ replica \in Item
    /\ dek \in [Records -> 0..MaxCmk]
    /\ revoked \subseteq Mandates
    /\ log \in [Mandates -> {"none", "authorized", "revoked"}]
    /\ fresh \in 1..MaxCmk
    /\ last \subseteq Requests
    /\ call \in [Requests -> Call]
    /\ at \in [Requests -> Steps]
    /\ snap \in [Requests -> Item]
    /\ left \in [Requests -> SUBSET Records]
    /\ answer \in [Requests -> {"none", "ok", "duplicate", "lost"}]

Succeeded(q, ops) == answer[q] = "ok" /\ call[q].op \in ops

\* Another mandate of the same app that is, or is about to be, registered.
OtherMandate(m) ==
    \E q \in Requests : /\ at[q] # "idle" /\ call[q].op = "authorize"
                        /\ call[q].mandate # m
                        /\ Grantee[call[q].mandate] = Grantee[m]

\* The mandate has been registered again since q.
RegisteredAgain(q) ==
    \E p \in Requests : /\ p > q /\ at[p] # "idle" /\ call[p].op = "authorize"
                        /\ call[p].mandate = call[q].mandate

\* The owner's client revoked a mandate of the app with a rotation that retains it.
KeptOnRevoking(app) ==
    \E q \in Requests : /\ at[q] # "idle" /\ call[q].op = "revoke_rotate"
                        /\ Grantee[call[q].mandate] = app
                        /\ app \in Readers(call[q].envelope.wraps)

\* Once revoke_app has answered, the grantee has no wrap: "the revoked grantee
\* MUST be removed from the collection's wrap list", unless its owner asks for one.
RevokedHasNoWrap ==
    \A q \in Requests :
        /\ Succeeded(q, Revoking)
        /\ ~OtherMandate(call[q].mandate) /\ ~RegisteredAgain(q)
        /\ ~KeptOnRevoking(Grantee[call[q].mandate])
        => WrapsOf(item.envelope.wraps, call[q].mandate) = {}

\* A rotation since q retains other apps than that of q.
LeftOut(q) ==
    \E p \in Requests : /\ p > q /\ at[p] # "idle" /\ call[p].op \in Rotating
                        /\ Grantee[call[q].mandate] \notin Readers(call[p].envelope.wraps)

\* Once authorize_app has answered, the grantee has a wrap, until a revocation
\* is sent for the app or a rotation leaves it out.
AuthorizedHasWrap ==
    \A q \in Requests :
        /\ Succeeded(q, {"authorize"})
        /\ ~\E p \in Requests : /\ at[p] # "idle" /\ call[p].op \in Revoking
                                /\ Grantee[call[p].mandate] = Grantee[call[q].mandate]
        /\ ~LeftOut(q)
        => WrapsOf(item.envelope.wraps, call[q].mandate) # {}

\* One request at a time, the wraps of the collection are what the answers to
\* authorize_app and revoke_app said they would be.
WrapsFollowAnswers == mode.serial => RevokedHasNoWrap /\ AuthorizedHasWrap

\* A rotation that died half way is mended by sending it again: the retry
\* leaves every record readable with the CMK of the envelope, one request at a
\* time.
RetryCompletesRotation ==
    mode.serial /\ (\E q \in last : Succeeded(q, Rotating)) =>
        \A r \in Records : dek[r] \in {0, item.envelope.cmk}

\* After a revocation has answered, authenticate refuses the mandate, whether it
\* was registered, was stripped by a revocation that died, or never had a wrap;
\* and the log announces no revocation that is not enforced.
RevocationIsEnforced ==
    /\ \A q \in Requests : Succeeded(q, Revoking) => call[q].mandate \in revoked
    /\ \A m \in Mandates : log[m] = "revoked" => m \in revoked

\* Every rotation that was sent was answered, then or when it was sent again.
RotationsAnswered ==
    \A q \in Requests :
        at[q] # "idle" /\ call[q].op \in Rotating =>
            \E p \in Requests : p >= q /\ call[p] = call[q] /\ answer[p] = "ok"

\* Who has a wrap reads every record, one request at a time, unless a rotation died
\* and was given up: wraps that were granted and records that were inserted around
\* the rotations are under its key.
ReadersCanRead ==
    mode.serial /\ RotationsAnswered =>
        \A w \in item.envelope.wraps, r \in Records : dek[r] \in {0, w.cmk}

\* The types, and with them the wraps: those of the envelope are what the answers
\* to authorize_app and revoke_app said they would be.
EnvelopeIsSound == TypeOK /\ WrapsFollowAnswers
=============================================================================
