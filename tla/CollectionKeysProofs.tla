-------------------------- MODULE CollectionKeysProofs --------------------------
(***************************************************************************)
(* Theorems about the collection keys, for any numbers of mandates, apps,  *)
(* records and requests.                                                   *)
(*                                                                         *)
(* KeysInv gives the types and says which keys have been generated;        *)
(* PublishedFirst strengthens the property of requests that overlap;       *)
(* SerialInv is about a collection that is used by one request at a time.  *)
(***************************************************************************)
EXTENDS CollectionKeys, FiniteSetTheorems, TLAPS

Sent(q) == at[q] # "idle"
Active(q) == at[q] \notin {"idle", "done"}
Revokes(q) == call[q].op \in Revoking

-----------------------------------------------------------------------------
(* Types, and the numbers of requests and keys *)

\* Requests are sent in their order, and each of them brings at most one key.
Numbered ==
    \E k \in 0..Cardinality(Requests) :
        /\ \A q \in Requests : Sent(q) <=> q <= k
        /\ fresh <= 1 + k

\* No envelope holds a key that no client has generated.
NoLaterThan(e, n) == e.cmk <= n /\ \A w \in e.wraps : w.cmk <= n

KeysAreKnown ==
    /\ NoLaterThan(item.envelope, fresh) /\ NoLaterThan(replica.envelope, fresh)
    /\ \A q \in Requests : /\ NoLaterThan(snap[q].envelope, fresh)
                           /\ NoLaterThan(call[q].envelope, fresh)

\* Each operation has steps of its own; only what is done has an answer.
StepsFit ==
    \A q \in Requests :
        /\ at[q] = "idle" => call[q] = NoCall
        /\ at[q] = "insert" => call[q].op = "insert"
        /\ at[q] \in {"grant", "grantFirst"} => call[q].op = "authorize"
        /\ at[q] \in {"rewrap", "save"} => call[q].op \in Revoking \cup Rotating
        /\ at[q] = "publish" => call[q].op \in Revoking
        /\ at[q] = "log" => call[q].op # "insert"
        /\ at[q] # "done" => answer[q] = "none"
        /\ q \in last => Sent(q)
        /\ call[q].op = "authorize" =>
              \E k \in 1..MaxCmk :
                 call[q].envelope.wraps = {[app |-> Grantee[call[q].mandate], cmk |-> k]}
        /\ \A w \in call[q].envelope.wraps : w.cmk = call[q].envelope.cmk

KeysInv == TypeOK /\ Numbered /\ KeysAreKnown /\ StepsFit


LEMMA RequestsAreCounted ==
    /\ Cardinality(Requests) \in Nat /\ MaxCmk \in Nat \ {0}
    /\ Requests \subseteq Nat \ {0}
    /\ \A k \in 0..Cardinality(Requests) : Cardinality({q \in Requests : q <= k}) = k
<1>1. Cardinality(Requests) \in Nat
  BY RequestsAssumption, FS_CardinalityType
<1>2. ASSUME NEW k \in 0..Cardinality(Requests)
      PROVE  Cardinality({q \in Requests : q <= k}) = k
  <2>1. {q \in Requests : q <= k} = 1..k
    BY <1>1, RequestsAssumption
  <2>2. Cardinality(1..k) = k
    BY <1>1, FS_Interval
  <2>3. QED
    BY <2>1, <2>2
<1>3. QED
  BY <1>1, <1>2, RequestsAssumption DEF MaxCmk

\* What stands in a call that is not sent.
LEMMA NoCallIs ==
    /\ NoItem \in Item /\ NoItem.envelope.cmk = 1 /\ NoItem.envelope.wraps = {}
    /\ NoCall \in Call
    /\ NoCall = [op |-> "insert", mandate |-> NoCall.mandate, records |-> {},
                 envelope |-> NoItem.envelope]
<1>1. NoItem \in Item /\ NoItem.envelope.cmk = 1 /\ NoItem.envelope.wraps = {}
  BY RequestsAreCounted DEF NoItem, Item, Envelope, Index
<1>2. (CHOOSE m \in Mandates : TRUE) \in Mandates
  BY MandatesAssumption
<1>3. NoCall.mandate = CHOOSE m \in Mandates : TRUE
  BY DEF NoCall
<1>4. QED
  BY <1>1, <1>2, <1>3 DEF NoCall, Call, AllOps, Item

\* A rotation of the records there are, for some of the readers of an envelope.
IsRotation(c, e) ==
    \E op \in Rotating, m \in Mandates, retained \in SUBSET Readers(e.wraps) :
        c = [op |-> op, mandate |-> m, records |-> {r \in Records : dek[r] # 0},
             envelope |-> [cmk |-> fresh + 1,
                           wraps |-> {[app |-> a, cmk |-> fresh + 1] : a \in retained}]]

LEMMA RotationHasOneKey ==
    ASSUME NEW c, NEW e, IsRotation(c, e)
    PROVE  c.op \in Rotating /\ \A w \in c.envelope.wraps : w.cmk = c.envelope.cmk
<1>1. PICK op \in Rotating, m \in Mandates, retained \in SUBSET Readers(e.wraps) :
        c = [op |-> op, mandate |-> m, records |-> {r \in Records : dek[r] # 0},
             envelope |-> [cmk |-> fresh + 1,
                           wraps |-> {[app |-> a, cmk |-> fresh + 1] : a \in retained}]]
  BY DEF IsRotation
<1>2. QED
  BY <1>1

\* What a client prepares from an envelope it has read.
LEMMA PreparedIs ==
    ASSUME NEW e, NEW c \in Prepared(e)
    PROVE  \/ \E m \in Mandates :
                /\ MayAuthorize(e, m)
                /\ c = [op |-> "authorize", mandate |-> m, records |-> {},
                        envelope |-> [cmk |-> e.cmk,
                                      wraps |-> {[app |-> Grantee[m], cmk |-> e.cmk]}]]
           \/ \E m \in Mandates :
                c = [op |-> "revoke", mandate |-> m, records |-> {},
                     envelope |-> NoItem.envelope]
           \/ IsRotation(c, e)
           \/ \E r \in Records :
                c = [op |-> "insert", mandate |-> NoCall.mandate, records |-> {r},
                     envelope |-> [cmk |-> e.cmk, wraps |-> {}]]
<1> DEFINE empty == [op |-> "insert", mandate |-> NoCall.mandate, records |-> {},
                     envelope |-> NoItem.envelope]
<1>1. NoCall = empty /\ NoCall.mandate \in Mandates
  BY NoCallIs DEF Call
<1>2. CASE \E m \in Mandates : MayAuthorize(e, m) /\ c = PrepareAuthorize(e, m)
  <2>1. PICK m \in Mandates : MayAuthorize(e, m) /\ c = PrepareAuthorize(e, m)
    BY <1>2
  <2> DEFINE env == [cmk |-> e.cmk, wraps |-> {[app |-> Grantee[m], cmk |-> e.cmk]}]
  <2>2. c = [empty EXCEPT !.op = "authorize", !.mandate = m, !.envelope = env]
    BY <1>1, <2>1 DEF PrepareAuthorize
  <2> HIDE DEF env
  <2>3. c = [op |-> "authorize", mandate |-> m, records |-> {}, envelope |-> env]
    BY <2>2
  <2>4. QED
    BY <2>1, <2>3 DEF env
<1>3. CASE \E m \in Mandates : c = [NoCall EXCEPT !.op = "revoke", !.mandate = m]
  <2>1. PICK m \in Mandates : c = [empty EXCEPT !.op = "revoke", !.mandate = m]
    BY <1>1, <1>3
  <2>2. c = [op |-> "revoke", mandate |-> m, records |-> {}, envelope |-> NoItem.envelope]
    BY <2>1
  <2>3. QED
    BY <2>2
<1>4. ASSUME NEW op \in Rotating, NEW m \in Mandates, NEW retained \in SUBSET Readers(e.wraps),
             c = PrepareRotation(op, m, retained)
      PROVE  IsRotation(c, e)
  <2> DEFINE rs == {r \in Records : dek[r] # 0}
             env == [cmk |-> fresh + 1,
                     wraps |-> {[app |-> a, cmk |-> fresh + 1] : a \in retained}]
  <2>1. c = [empty EXCEPT !.op = op, !.mandate = m, !.records = rs, !.envelope = env]
    BY <1>1, <1>4 DEF PrepareRotation
  <2> HIDE DEF rs, env
  <2>2. c = [op |-> op, mandate |-> m, records |-> rs, envelope |-> env]
    BY <2>1
  <2>3. QED
    BY <2>2 DEF rs, env, IsRotation
<1>5. CASE \E r \in Records : c = PrepareInsert(e, r)
  <2>1. PICK r \in Records : c = PrepareInsert(e, r)
    BY <1>5
  <2>2. c = [empty EXCEPT !.records = {r}, !.envelope.cmk = e.cmk]
    BY <1>1, <2>1 DEF PrepareInsert
  <2>3. c = [op |-> "insert", mandate |-> NoCall.mandate, records |-> {r},
             envelope |-> [NoItem.envelope EXCEPT !.cmk = e.cmk]]
    BY <2>2
  <2>4. [NoItem.envelope EXCEPT !.cmk = e.cmk] = [cmk |-> e.cmk, wraps |-> {}]
    BY DEF NoItem
  <2>5. QED
    BY <2>3, <2>4
<1>6. \/ \E m \in Mandates : MayAuthorize(e, m) /\ c = PrepareAuthorize(e, m)
      \/ \E m \in Mandates : c = [NoCall EXCEPT !.op = "revoke", !.mandate = m]
      \/ \E op \in Rotating, m \in Mandates, retained \in SUBSET Readers(e.wraps) :
            c = PrepareRotation(op, m, retained)
      \/ \E r \in Records : c = PrepareInsert(e, r)
  <2>1. ASSUME NEW retained \in SUBSET Readers(e.wraps),
               \/ c = PrepareRotation("rotate", NoCall.mandate, retained)
               \/ c \in {PrepareRotation("revoke_rotate", m, retained) : m \in Mandates}
        PROVE  \E op \in Rotating, m \in Mandates : c = PrepareRotation(op, m, retained)
    BY <1>1, <2>1 DEF Rotating
  <2>2. CASE \E retained \in SUBSET Readers(e.wraps) :
               \/ c = PrepareRotation("rotate", NoCall.mandate, retained)
               \/ c \in {PrepareRotation("revoke_rotate", m, retained) : m \in Mandates}
    BY <2>1, <2>2
  <2>3. QED
    BY <2>2 DEF Prepared
<1>7. QED
  BY <1>2, <1>3, <1>4, <1>5, <1>6


LEMMA KeysInit == Init => KeysInv
<1> SUFFICES ASSUME Init PROVE KeysInv
  OBVIOUS
<1>1. /\ item = NoItem /\ replica = NoItem /\ snap = [q \in Requests |-> NoItem]
      /\ call = [q \in Requests |-> NoCall] /\ at = [q \in Requests |-> "idle"]
      /\ last = {} /\ answer = [q \in Requests |-> "none"] /\ fresh = 1
  BY DEF Init
<1>2. TypeOK
  BY <1>1, NoCallIs, RequestsAreCounted DEF Init, TypeOK, Steps
<1>3. Numbered
  <2>1. \A q \in Requests : Sent(q) <=> q <= 0
    BY <1>1, RequestsAreCounted DEF Sent
  <2>2. QED
    BY <1>1, <2>1, RequestsAreCounted DEF Numbered
<1>4. KeysAreKnown
  <2>1. NoLaterThan(NoItem.envelope, fresh)
    BY <1>1, NoCallIs DEF NoLaterThan
  <2>2. NoCall.envelope = NoItem.envelope
    BY NoCallIs
  <2>3. QED
    BY <1>1, <2>1, <2>2 DEF KeysAreKnown
<1>5. StepsFit
  BY <1>1, NoCallIs DEF StepsFit
<1>6. QED
  BY <1>2, <1>3, <1>4, <1>5 DEF KeysInv

\* A call is one that had no answer, or is prepared from what can be read; its key
\* is one that was generated by then.
LEMMA SubmittedIs ==
    ASSUME KeysInv, NEW q \in Requests, Submit(q)
    PROVE  \E c \in Call :
             /\ call' = [call EXCEPT ![q] = c]
             /\ left' = [left EXCEPT ![q] = IF c.op \in Rotating THEN c.records ELSE {}]
             /\ NoLaterThan(c.envelope, fresh')
             /\ fresh' \in 1..MaxCmk /\ fresh <= fresh'
             /\ Numbered' /\ \A p \in Requests : Sent(p) => p < q
             /\ \/ \E p \in last : p \in Requests /\ answer[p] = "lost" /\ c = call[p]
                \/ \E v \in Readable : v \in Item /\ c \in Prepared(v.envelope)
<1>1. PICK c \in Unanswered \cup UNION {Prepared(v.envelope) : v \in Readable} :
        /\ call' = [call EXCEPT ![q] = c]
        /\ left' = [left EXCEPT ![q] = IF c.op \in Rotating THEN c.records ELSE {}]
        /\ fresh' = IF c.op \in Rotating /\ c \notin Unanswered THEN fresh + 1 ELSE fresh
  BY DEF Submit
<1>2. /\ fresh \in Nat \ {0} /\ Readable \subseteq Item
      /\ \A v \in Readable : NoLaterThan(v.envelope, fresh)
  BY DEF Readable, KeysInv, KeysAreKnown, TypeOK
<1>3. PICK k \in 0..Cardinality(Requests) :
        (\A p \in Requests : Sent(p) <=> p <= k) /\ fresh <= 1 + k
  BY DEF KeysInv, Numbered
<1>4. q = k + 1 /\ k + 1 \in 0..Cardinality(Requests)
  <2>1. {p \in Requests : at[p] # "idle"} = {p \in Requests : p <= k}
    BY <1>3 DEF Sent
  <2>2. q = 1 + Cardinality({p \in Requests : at[p] # "idle"})
    BY DEF Submit
  <2>3. q = k + 1
    BY <2>1, <2>2, RequestsAreCounted
  <2>4. QED
    BY <2>3, RequestsAssumption, RequestsAreCounted
<1>9. \A p \in Requests : Sent(p) => p < q
  BY <1>3, <1>4, RequestsAreCounted
<1>5. Numbered' /\ fresh' \in 1..MaxCmk /\ fresh <= fresh'
  <2>1. fresh' <= 1 + (k + 1) /\ fresh <= fresh' /\ fresh' \in Nat \ {0}
    BY <1>1, <1>2, <1>3
  <2>2. at' = [at EXCEPT ![q] = "get"] /\ at \in [Requests -> Steps]
    BY DEF Submit, KeysInv, TypeOK
  <2>3. \A p \in Requests : Sent(p)' <=> p <= k + 1
    BY <1>3, <1>4, <2>2, RequestsAreCounted DEF Sent
  <2>4. fresh' <= MaxCmk
    BY <1>4, <2>1, RequestsAreCounted DEF MaxCmk
  <2>5. QED
    BY <1>4, <2>1, <2>3, <2>4, RequestsAreCounted DEF Numbered
<1>6. CASE c \in Unanswered
  <2>1. PICK p \in last : answer[p] = "lost" /\ c = call[p]
    BY <1>6 DEF Unanswered
  <2>2. p \in Requests /\ c \in Call /\ NoLaterThan(c.envelope, fresh)
    BY <2>1 DEF KeysInv, KeysAreKnown, TypeOK
  <2>3. fresh' = fresh
    BY <1>1, <1>6
  <2>4. QED
    BY <1>1, <1>5, <1>9, <2>1, <2>2, <2>3
<1>7. CASE c \notin Unanswered
  <2>1. PICK v \in Readable : c \in Prepared(v.envelope)
    BY <1>1, <1>7
  <2>2. /\ v \in Item /\ NoLaterThan(v.envelope, fresh)
        /\ v.envelope.cmk \in 1..MaxCmk /\ v.envelope.wraps \in SUBSET Wrap
    BY <1>2, <2>1 DEF Item, Envelope
  <2>3. /\ fresh' = IF c.op \in Rotating THEN fresh + 1 ELSE fresh
        /\ \A m \in Mandates : Grantee[m] \in Apps
    BY <1>1, <1>7, GranteeAssumption
  <2>4. c \in Call /\ NoLaterThan(c.envelope, fresh')
    <3>1. CASE \E m \in Mandates :
                 c = [op |-> "authorize", mandate |-> m, records |-> {},
                      envelope |-> [cmk |-> v.envelope.cmk,
                          wraps |-> {[app |-> Grantee[m], cmk |-> v.envelope.cmk]}]]
      BY <1>5, <2>2, <2>3, <3>1
      DEF Call, AllOps, Envelope, Wrap, NoLaterThan, Rotating
    <3>2. CASE \E m \in Mandates :
                 c = [op |-> "revoke", mandate |-> m, records |-> {},
                      envelope |-> NoItem.envelope]
      BY <1>2, <1>5, <2>3, <3>2, NoCallIs
      DEF Call, AllOps, Item, Envelope, NoLaterThan, Rotating
    <3>3. CASE IsRotation(c, v.envelope)
      <4>1. PICK op \in Rotating, m \in Mandates, retained \in SUBSET Readers(v.envelope.wraps) :
              c = [op |-> op, mandate |-> m, records |-> {r \in Records : dek[r] # 0},
                   envelope |-> [cmk |-> fresh + 1,
                       wraps |-> {[app |-> a, cmk |-> fresh + 1] : a \in retained}]]
        BY <3>3 DEF IsRotation
      <4>2. fresh' = fresh + 1 /\ op \in AllOps
        BY <2>3, <4>1 DEF Rotating, AllOps
      <4>3. retained \subseteq Apps
        BY <2>2 DEF Readers, Wrap
      <4>4. c.envelope \in Envelope
        BY <1>5, <4>1, <4>2, <4>3 DEF Envelope, Wrap
      <4>5. QED
        BY <1>5, <4>1, <4>2, <4>4 DEF Call, NoLaterThan
    <3>4. CASE \E r \in Records :
                 c = [op |-> "insert", mandate |-> NoCall.mandate, records |-> {r},
                      envelope |-> [cmk |-> v.envelope.cmk, wraps |-> {}]]
      BY <1>5, <2>2, <2>3, <3>4, NoCallIs
      DEF Call, AllOps, Envelope, NoLaterThan, Rotating
    <3>5. QED
      BY <2>1, <3>1, <3>2, <3>3, <3>4, PreparedIs
  <2>5. QED
    BY <1>1, <1>5, <1>9, <2>1, <2>2, <2>4
<1>8. QED
  BY <1>6, <1>7

\* Only Submit changes who has sent what, and how many keys there are.
LEMMA OthersKeepCalls ==
    ASSUME KeysInv, NEW q \in Requests,
           \/ GetCollection(q) \/ PutRecord(q) \/ Grant(q) \/ GrantFirst(q)
           \/ Rewrap(q) \/ Save(q) \/ Publish(q) \/ Log(q) \/ Crash(q)
    PROVE  /\ UNCHANGED <<mode, call, fresh, last, replica>>
           /\ \A p \in Requests : Sent(p)' <=> Sent(p)
           /\ Active(q)
           /\ \A p \in Requests \ {q} :
                 at'[p] = at[p] /\ snap'[p] = snap[p] /\ answer'[p] = answer[p]
           /\ Numbered'
           /\ at' \in [Requests -> Steps]
<1>1. at \in [Requests -> Steps] /\ snap \in [Requests -> Item]
      /\ DOMAIN answer = Requests
  BY DEF KeysInv, TypeOK
<1>2. /\ UNCHANGED <<mode, call, fresh, last, replica>>
      /\ Active(q)
      /\ \E step \in Steps \ {"idle"} : at' = [at EXCEPT ![q] = step]
      /\ \E v : snap' = [snap EXCEPT ![q] = v] \/ snap' = snap
      /\ \E a : answer' = [answer EXCEPT ![q] = a] \/ answer' = answer
  <2>1. CASE GetCollection(q)
    BY <2>1 DEF GetCollection, Answer, Active, Steps
  <2>2. CASE PutRecord(q) \/ Log(q) \/ Crash(q)
    BY <2>2 DEF PutRecord, Log, Crash, Answer, Active, Steps
  <2>3. CASE Grant(q) \/ GrantFirst(q) \/ Rewrap(q) \/ Save(q) \/ Publish(q)
    BY <2>3 DEF Grant, GrantFirst, Rewrap, Save, Publish, Goto, Active, Steps
  <2>4. QED
    BY <2>1, <2>2, <2>3
<1>3. /\ \A p \in Requests : Sent(p)' <=> Sent(p)
      /\ \A p \in Requests \ {q} :
            at'[p] = at[p] /\ snap'[p] = snap[p] /\ answer'[p] = answer[p]
      /\ at' \in [Requests -> Steps]
  BY <1>1, <1>2 DEF Sent, Active
<1>4. Numbered'
  BY <1>2, <1>3 DEF KeysInv, Numbered
<1>5. QED
  BY <1>2, <1>3, <1>4

\* The types of what is left alone, and of what a step answers.
LEMMA SubmitKeepsKeys ==
    ASSUME KeysInv, NEW q \in Requests, Submit(q)
    PROVE  KeysInv'
<1>1. PICK c \in Call :
        /\ call' = [call EXCEPT ![q] = c]
        /\ left' = [left EXCEPT ![q] = IF c.op \in Rotating THEN c.records ELSE {}]
        /\ NoLaterThan(c.envelope, fresh')
        /\ fresh' \in 1..MaxCmk /\ fresh <= fresh'
        /\ Numbered'
        /\ \/ \E p \in last : p \in Requests /\ answer[p] = "lost" /\ c = call[p]
           \/ \E v \in Readable : v \in Item /\ c \in Prepared(v.envelope)
  BY SubmittedIs
<1>2. /\ at[q] = "idle" /\ last' = {q} /\ at' = [at EXCEPT ![q] = "get"]
      /\ UNCHANGED <<mode, item, replica, dek, revoked, log, snap, answer>>
  BY DEF Submit
<1>3. TypeOK'
  BY <1>1, <1>2 DEF KeysInv, TypeOK, Call, Steps
<1>4. KeysAreKnown'
  <2>1. ASSUME NEW e \in Envelope, NoLaterThan(e, fresh) PROVE NoLaterThan(e, fresh')
    BY <1>1, <2>1 DEF NoLaterThan, Envelope, Wrap, KeysInv, TypeOK
  <2>2. /\ item.envelope \in Envelope /\ replica.envelope \in Envelope
        /\ \A p \in Requests : snap[p].envelope \in Envelope /\ call[p].envelope \in Envelope
    BY DEF KeysInv, TypeOK, Item, Call
  <2>3. \A p \in Requests : call'[p] = IF p = q THEN c ELSE call[p]
    BY <1>1 DEF KeysInv, TypeOK
  <2>4. QED
    BY <1>1, <1>2, <2>1, <2>2, <2>3 DEF KeysInv, KeysAreKnown
<1>5. StepsFit'
  <2>1. c.op = "authorize" =>
          \E k \in 1..MaxCmk : c.envelope.wraps = {[app |-> Grantee[c.mandate], cmk |-> k]}
    <3>1. \/ \E p \in Requests : c = call[p]
          \/ \E v \in Readable : v \in Item /\ c \in Prepared(v.envelope)
      BY <1>1
    <3>2. CASE \E v \in Readable : v \in Item /\ c \in Prepared(v.envelope)
      <4>1. PICK v \in Readable : v.envelope.cmk \in 1..MaxCmk /\ c \in Prepared(v.envelope)
        BY <3>2 DEF Item, Envelope
      <4>2. QED
        BY <4>1, PreparedIs, RotationHasOneKey DEF Rotating
    <3>3. QED
      BY <3>1, <3>2 DEF KeysInv, StepsFit
  <2>2. \A p \in Requests : call'[p] = IF p = q THEN c ELSE call[p]
    BY <1>1 DEF KeysInv, TypeOK
  <2>4. \A w \in c.envelope.wraps : w.cmk = c.envelope.cmk
    <3>1. CASE \E v \in Readable : c \in Prepared(v.envelope)
      BY <3>1, PreparedIs, RotationHasOneKey, NoCallIs
    <3>2. CASE \E p \in Requests : c = call[p]
      BY <3>2 DEF KeysInv, StepsFit
    <3>3. QED
      BY <1>1, <3>1, <3>2
  <2>3. QED
    BY <1>2, <2>1, <2>2, <2>4 DEF KeysInv, StepsFit, TypeOK, Sent
<1>6. QED
  BY <1>1, <1>3, <1>4, <1>5 DEF KeysInv

\* A handler writes envelopes of what it has read and of its request only.
LEMMA WritesAreKnown ==
    ASSUME KeysInv, NEW q \in Requests
    PROVE  /\ Granted(q) \in Envelope /\ NoLaterThan(Granted(q), fresh)
           /\ Granted(q).wraps = snap[q].envelope.wraps \cup call[q].envelope.wraps
           /\ Granted(q).cmk = snap[q].envelope.cmk
           /\ Stripped(q) \in Envelope /\ NoLaterThan(Stripped(q), fresh)
           /\ Stripped(q).wraps = IF call[q].mandate \in snap[q].index.mandates
                                  THEN {w \in snap[q].envelope.wraps :
                                           w.app # Grantee[call[q].mandate]}
                                  ELSE snap[q].envelope.wraps
           /\ Stripped(q).cmk = snap[q].envelope.cmk
<1>1. /\ snap[q].envelope \in Envelope /\ call[q].envelope \in Envelope
      /\ NoLaterThan(snap[q].envelope, fresh) /\ NoLaterThan(call[q].envelope, fresh)
  BY DEF KeysInv, KeysAreKnown, TypeOK, Item, Call
<1>2. Granted(q) = [cmk |-> snap[q].envelope.cmk,
                    wraps |-> snap[q].envelope.wraps \cup call[q].envelope.wraps]
  BY <1>1 DEF Granted, Envelope
<1>3. CASE call[q].mandate \in snap[q].index.mandates
  <2>1. Stripped(q) = [cmk |-> snap[q].envelope.cmk,
                       wraps |-> {w \in snap[q].envelope.wraps :
                                     w.app # Grantee[call[q].mandate]}]
    BY <1>1, <1>3 DEF Stripped, Envelope, WrapsOf
  <2>2. QED
    BY <1>1, <1>2, <1>3, <2>1 DEF Envelope, NoLaterThan
<1>4. CASE call[q].mandate \notin snap[q].index.mandates
  BY <1>1, <1>2, <1>4 DEF Stripped, Envelope, NoLaterThan
<1>5. QED
  BY <1>3, <1>4

LEMMA HandlerKeepsKeys ==
    ASSUME KeysInv, NEW q \in Requests,
           \/ GetCollection(q) \/ PutRecord(q) \/ Grant(q) \/ GrantFirst(q)
           \/ Rewrap(q) \/ Save(q) \/ Publish(q) \/ Log(q) \/ Crash(q)
    PROVE  KeysInv'
<1>1. /\ UNCHANGED <<mode, call, fresh, last, replica>>
      /\ \A p \in Requests : Sent(p)' <=> Sent(p)
      /\ Active(q) /\ Numbered' /\ at' \in [Requests -> Steps]
  BY OthersKeepCalls
<1>2. /\ call[q] \in Call /\ call[q].envelope \in Envelope /\ call[q].mandate \in Mandates
      /\ call[q].envelope.cmk \in 0..MaxCmk /\ item.index \in Index /\ NoItem \in Item
      /\ NoLaterThan(NoItem.envelope, fresh) /\ NoItem.envelope.cmk = 1
  BY NoCallIs, RequestsAreCounted
  DEF KeysInv, TypeOK, Call, Item, Envelope, NoLaterThan
<1>3. TypeOK' /\ KeysAreKnown'
  <2>1. CASE GetCollection(q)
    <3>1. /\ UNCHANGED <<item, dek, revoked, log, left>>
          /\ \/ snap' = [snap EXCEPT ![q] = NoItem] /\ answer' = [answer EXCEPT ![q] = "duplicate"]
             \/ \E v \in {item, replica} : snap' = [snap EXCEPT ![q] = v] /\ answer' = answer
      BY <2>1 DEF GetCollection, Answer, Readable
    <3>2. QED
      BY <1>1, <1>2, <3>1 DEF KeysInv, TypeOK, KeysAreKnown
  <2>2. CASE PutRecord(q)
    <3>1. /\ UNCHANGED <<item, revoked, log, left>>
          /\ snap' = [snap EXCEPT ![q] = NoItem] /\ answer' = [answer EXCEPT ![q] = "ok"]
      BY <2>2 DEF PutRecord, Answer
    <3>2. dek' \in [Records -> 0..MaxCmk]
      BY <1>2, <2>2 DEF PutRecord, KeysInv, TypeOK
    <3>3. QED
      BY <1>1, <1>2, <3>1, <3>2 DEF KeysInv, TypeOK, KeysAreKnown
  <2>3. CASE Grant(q) \/ GrantFirst(q)
    <3>1. /\ UNCHANGED <<dek, revoked, log, left, snap, answer>>
          /\ \/ item' = item
             \/ \E i \in Index : item' = [envelope |-> Granted(q), index |-> i]
      BY <1>2, <2>3 DEF Grant, GrantFirst, Goto, Index
    <3>2. item' \in Item /\ NoLaterThan(item'.envelope, fresh)
      <4>1. CASE item' = item
        BY <4>1 DEF KeysInv, TypeOK, KeysAreKnown
      <4>2. ASSUME NEW i \in Index, item' = [envelope |-> Granted(q), index |-> i]
            PROVE  item' \in Item /\ NoLaterThan(item'.envelope, fresh)
        <5>1. item'.envelope = Granted(q)
          BY <4>2
        <5>2. QED
          BY <4>2, <5>1, WritesAreKnown DEF Item
      <4>3. QED
        BY <3>1, <4>1, <4>2
    <3>3. QED
      BY <1>1, <3>1, <3>2 DEF KeysInv, TypeOK, KeysAreKnown
  <2>4. CASE Rewrap(q)
    <3>1. UNCHANGED <<item, revoked, log, snap, answer>>
      BY <2>4 DEF Rewrap, Goto
    <3>2. dek' \in [Records -> 0..MaxCmk] /\ left' \in [Requests -> SUBSET Records]
      BY <1>2, <2>4 DEF Rewrap, KeysInv, TypeOK
    <3>3. QED
      BY <1>1, <3>1, <3>2 DEF KeysInv, TypeOK, KeysAreKnown
  <2>5. CASE Save(q)
    <3>1. /\ UNCHANGED <<dek, revoked, log, left, snap, answer>>
          /\ \E i \in Index, e \in {call[q].envelope, Stripped(q)} :
                item' = [envelope |-> e, index |-> i]
      <4>1. [item.index EXCEPT !.mandates = @ \ {call[q].mandate}] \in Index
        BY <1>2 DEF Index
      <4>2. QED
        BY <1>2, <2>5, <4>1 DEF Save, Goto
    <3>2. item' \in Item /\ NoLaterThan(item'.envelope, fresh)
      <4>1. PICK i \in Index, e \in {call[q].envelope, Stripped(q)} :
              item' = [envelope |-> e, index |-> i]
        BY <3>1
      <4>2. e \in Envelope /\ NoLaterThan(e, fresh) /\ item'.envelope = e
        BY <1>2, <4>1, WritesAreKnown DEF KeysInv, KeysAreKnown
      <4>3. QED
        BY <4>1, <4>2 DEF Item
    <3>3. QED
      BY <1>1, <3>1, <3>2 DEF KeysInv, TypeOK, KeysAreKnown
  <2>6. CASE Publish(q)
    BY <1>1, <1>2, <2>6 DEF Publish, Goto, KeysInv, TypeOK, KeysAreKnown
  <2>7. CASE Log(q)
    <3>1. /\ UNCHANGED <<item, dek, revoked, left>>
          /\ snap' = [snap EXCEPT ![q] = NoItem]
          /\ \E result \in {"ok", "lost"} : answer' = [answer EXCEPT ![q] = result]
      BY <2>7 DEF Log, Answer
    <3>2. log' \in [Mandates -> {"none", "authorized", "revoked"}]
      BY <2>7 DEF Log, KeysInv, TypeOK
    <3>3. QED
      BY <1>1, <1>2, <3>1, <3>2 DEF KeysInv, TypeOK, KeysAreKnown
  <2>8. CASE Crash(q)
    BY <1>1, <1>2, <2>8 DEF Crash, Answer, KeysInv, TypeOK, KeysAreKnown
  <2>9. QED
    BY <2>1, <2>2, <2>3, <2>4, <2>5, <2>6, <2>7, <2>8
<1>4. StepsFit'
  <2>1. \A p \in Requests \ {q} : at'[p] = at[p] /\ answer'[p] = answer[p]
    BY OthersKeepCalls
  <2>2. call[q].op \in AllOps /\ at[q] \in Steps /\ DOMAIN at = Requests /\ DOMAIN answer = Requests
    BY <1>2 DEF Call, KeysInv, TypeOK
  <2>3. /\ at'[q] # "idle"
        /\ at'[q] = "insert" => call[q].op = "insert"
        /\ at'[q] \in {"grant", "grantFirst"} => call[q].op = "authorize"
        /\ at'[q] \in {"rewrap", "save"} => call[q].op \in Revoking \cup Rotating
        /\ at'[q] = "publish" => call[q].op \in Revoking
        /\ at'[q] = "log" => call[q].op # "insert"
        /\ at'[q] # "done" => answer'[q] = "none"
    <3>1. CASE GetCollection(q)
      BY <2>2, <3>1 DEF GetCollection, Answer, KeysInv, StepsFit, AllOps, Revoking, Rotating
    <3>2. CASE PutRecord(q) \/ Log(q) \/ Crash(q)
      BY <2>2, <3>2 DEF PutRecord, Log, Crash, Answer
    <3>3. CASE Grant(q) \/ GrantFirst(q)
      BY <2>2, <3>3 DEF Grant, GrantFirst, Goto, KeysInv, StepsFit
    <3>4. CASE Rewrap(q) \/ Save(q) \/ Publish(q)
      BY <2>2, <3>4 DEF Rewrap, Save, Publish, Goto, KeysInv, StepsFit, Revoking, Rotating
    <3>5. QED
      BY <3>1, <3>2, <3>3, <3>4
  <2>4. QED
    BY <1>1, <2>1, <2>3 DEF KeysInv, StepsFit
<1>5. QED
  BY <1>1, <1>3, <1>4 DEF KeysInv

LEMMA NextKeepsKeys == KeysInv /\ [Next]_vars => KeysInv'
<1> SUFFICES ASSUME KeysInv, [Next]_vars PROVE KeysInv'
  OBVIOUS
<1>1. CASE Replicate \/ UNCHANGED vars
  BY <1>1 DEF Replicate, vars, KeysInv, TypeOK, Numbered, Sent, KeysAreKnown, StepsFit
<1>2. CASE \E q \in Requests : Step(q)
  BY <1>2, SubmitKeepsKeys, HandlerKeepsKeys DEF Step
<1>3. QED
  BY <1>1, <1>2 DEF Next

-----------------------------------------------------------------------------
(* Revocation *)

\* A revocation is published before it is logged, and logged before it is answered.
PublishedFirst ==
    /\ \A q \in Requests : Revokes(q) /\ (at[q] = "log" \/ answer[q] = "ok")
                             => call[q].mandate \in revoked
    /\ \A m \in Mandates : log[m] = "revoked" => m \in revoked

LEMMA NextKeepsPublished ==
    ASSUME KeysInv, PublishedFirst, [Next]_vars
    PROVE  PublishedFirst'
<1>1. CASE Replicate \/ UNCHANGED vars
  BY <1>1 DEF Replicate, vars, PublishedFirst, Revokes
<1>2. ASSUME NEW q \in Requests, Submit(q) PROVE PublishedFirst'
  <2>1. /\ \A p \in Requests \ {q} : call'[p] = call[p] /\ at'[p] = at[p]
        /\ at'[q] = "get" /\ answer'[q] = "none" /\ answer' = answer
        /\ UNCHANGED <<log, revoked>>
    BY <1>2, SubmittedIs DEF Submit, KeysInv, TypeOK, StepsFit
  <2>2. QED
    BY <2>1 DEF PublishedFirst, Revokes
<1>3. ASSUME NEW q \in Requests,
             \/ GetCollection(q) \/ PutRecord(q) \/ Grant(q) \/ GrantFirst(q)
             \/ Rewrap(q) \/ Save(q) \/ Publish(q) \/ Log(q) \/ Crash(q)
      PROVE  PublishedFirst'
  <2>1. /\ call' = call /\ Active(q)
        /\ \A p \in Requests \ {q} : at'[p] = at[p] /\ answer'[p] = answer[p]
    BY <1>3, OthersKeepCalls
  <2>2. /\ call[q].op \in AllOps /\ call[q].mandate \in Mandates
        /\ DOMAIN at = Requests /\ DOMAIN answer = Requests /\ DOMAIN log = Mandates
    BY DEF KeysInv, TypeOK, Call
  <2>3. revoked \subseteq revoked'
    BY <1>3 DEF GetCollection, PutRecord, Grant, GrantFirst, Rewrap, Save, Publish, Log, Crash
  <2>4. Revokes(q) /\ (at'[q] = "log" \/ answer'[q] = "ok") => call[q].mandate \in revoked'
    <3>1. CASE GetCollection(q) \/ Crash(q)
      BY <2>1, <2>2, <3>1 DEF GetCollection, Crash, Answer, KeysInv, StepsFit, Active
    <3>2. CASE PutRecord(q)
      BY <3>2 DEF PutRecord, KeysInv, StepsFit, Revokes, Revoking
    <3>3. CASE Grant(q) \/ GrantFirst(q)
      BY <3>3 DEF Grant, GrantFirst, Goto, KeysInv, StepsFit, Revokes, Revoking
    <3>4. CASE Rewrap(q) \/ Save(q)
      BY <2>2, <3>4 DEF Rewrap, Save, Goto, KeysInv, StepsFit, Revokes
    <3>5. CASE Publish(q)
      BY <3>5 DEF Publish
    <3>6. CASE Log(q)
      BY <3>6 DEF Log, PublishedFirst
    <3>7. QED
      BY <1>3, <3>1, <3>2, <3>3, <3>4, <3>5, <3>6
  <2>5. \A m \in Mandates : log'[m] = "revoked" => m \in revoked'
    <3>1. CASE Log(q)
      <4>1. \A m \in Mandates : log'[m] = log[m] \/ (m = call[q].mandate /\
                (log'[m] = "revoked" => Revokes(q)))
        BY <2>2, <3>1 DEF Log, Revokes
      <4>2. at[q] = "log" /\ revoked' = revoked
        BY <3>1 DEF Log
      <4>3. QED
        BY <4>1, <4>2 DEF PublishedFirst
    <3>2. CASE ~Log(q)
      <4>1. log' = log
        BY <1>3, <3>2
        DEF GetCollection, PutRecord, Grant, GrantFirst, Rewrap, Save, Publish, Crash
      <4>2. QED
        BY <2>3, <4>1 DEF PublishedFirst
    <3>3. QED
      BY <3>1, <3>2
  <2>6. QED
    BY <2>1, <2>3, <2>4, <2>5 DEF PublishedFirst, Revokes
<1>4. QED
  BY <1>1, <1>2, <1>3 DEF Next, Step

\* The types of the rows, requests and handlers hold for any numbers of them.
THEOREM KeysTypeCorrect == Spec => []TypeOK
<1>1. KeysInv => TypeOK
  BY DEF KeysInv
<1>2. QED
  BY <1>1, KeysInit, NextKeepsKeys, PTL DEF Spec

\* After revoke_app has answered, authenticate refuses the mandate, and the log
\* announces no revocation that is not enforced, whatever overlaps, dies or is sent
\* again.
THEOREM RevocationsAreEnforced == Spec => []RevocationIsEnforced
<1>1. Init => PublishedFirst
  BY NoCallIs DEF Init, PublishedFirst, Revokes, Revoking
<1>2. KeysInv /\ PublishedFirst => RevocationIsEnforced
  BY DEF PublishedFirst, RevocationIsEnforced, Succeeded, Revokes
<1>3. QED
  BY <1>1, <1>2, KeysInit, NextKeepsKeys, NextKeepsPublished, PTL DEF Spec

-----------------------------------------------------------------------------
(* One request at a time *)

\* Some mandate of the index is for the app of each wrap, or the owner kept the app.
Indexed(wraps) ==
    \A w \in wraps : \/ \E m \in item.index.mandates : Grantee[m] = w.app
                     \/ KeptOnRevoking(w.app)

Gone(q, a) == Revokes(q) /\ a = Grantee[call[q].mandate]

\* Whether the update of the item has been made, for a call that did not fail.
Saved(q) == at[q] \in {"publish", "log"} \/ answer[q] = "ok"

\* Who is at work is the last, and has read what is still there.
OneIsAtWork ==
    /\ \A q \in Requests : Active(q) => q \in last
    /\ \A p \in last : \A q \in Requests : Sent(q) => q <= p
    /\ \A p, q \in last : p = q
    /\ \A q \in Requests : at[q] \in {"grant", "grantFirst", "rewrap", "save"}
                             => snap[q] = item
    /\ \A q \in Requests : at[q] = "grantFirst" => ~item.index.exists

\* The index tells whose wraps there are, and mandates come from authorizations.
IndexCoversWraps ==
    /\ Indexed(item.envelope.wraps)
    /\ ~item.index.exists => item.index.mandates = {}
    /\ \A m \in item.index.mandates :
          \E q \in Requests : Sent(q) /\ call[q].op = "authorize" /\ call[q].mandate = m

\* A revoked mandate has left the index and returns when it is registered again.
RevokedLeftIndex ==
    \A q \in Requests : Revokes(q) /\ Saved(q) /\ ~RegisteredAgain(q)
                            => call[q].mandate \notin item.index.mandates

\* What was granted is there until it is revoked or left out.
GrantedStays ==
    \A q \in Requests :
        /\ call[q].op = "authorize" /\ Saved(q)
        /\ ~\E p \in Requests : Sent(p) /\ Gone(p, Grantee[call[q].mandate])
        /\ ~LeftOut(q)
        => \E w \in item.envelope.wraps : w.app = Grantee[call[q].mandate]

\* The rotation that was sent last, first or again, is for who has a wrap; and it is
\* of the records there are.
RotationIsCurrent ==
    \A p \in last : call[p].op \in Rotating =>
        /\ Indexed(call[p].envelope.wraps)
        /\ \A r \in Records : dek[r] # 0 => r \in call[p].records
        /\ Active(p) \/ answer[p] = "ok" =>
              \A r \in Records : dek[r] # 0 /\ r \notin left[p]
                                   => dek[r] = call[p].envelope.cmk
        /\ left[p] \subseteq call[p].records
        /\ at[p] = "save" \/ Saved(p) => left[p] = {}
        /\ Saved(p) => item.envelope = call[p].envelope

\* The wraps are of the key of the envelope, and so is what the last request brings;
\* and the records are, when no rotation is unfinished.
KeysAreOne ==
    /\ \A w \in item.envelope.wraps : w.cmk = item.envelope.cmk
    /\ \A p \in last : /\ call[p].op \in {"authorize", "insert"}
                             => call[p].envelope.cmk = item.envelope.cmk
                       /\ call[p].op \notin Rotating => left[p] = {}
    /\ RotationsAnswered => \A r \in Records : dek[r] \in {0, item.envelope.cmk}

AloneInv == /\ OneIsAtWork /\ IndexCoversWraps /\ RevokedLeftIndex
            /\ GrantedStays /\ RotationIsCurrent /\ KeysAreOne

SerialInv == mode.serial => AloneInv

\* What was asked for in the past stays asked for.
LEMMA HistoryStays ==
    ASSUME KeysInv, UNCHANGED call, \A p \in Requests : Sent(p)' <=> Sent(p)
    PROVE  /\ \A a : KeptOnRevoking(a)' <=> KeptOnRevoking(a)
           /\ \A q \in Requests : /\ RegisteredAgain(q)' <=> RegisteredAgain(q)
                                  /\ LeftOut(q)' <=> LeftOut(q)
           /\ \A wraps : UNCHANGED item => (Indexed(wraps) => Indexed(wraps)')
<1>1. \A a : KeptOnRevoking(a)' <=> KeptOnRevoking(a)
  BY DEF KeptOnRevoking, Sent
<1>2. \A q \in Requests : /\ RegisteredAgain(q)' <=> RegisteredAgain(q)
                          /\ LeftOut(q)' <=> LeftOut(q)
  BY DEF RegisteredAgain, LeftOut, Sent
<1>3. QED
  BY <1>1, <1>2 DEF Indexed

LEMMA HistoryGrows ==
    ASSUME KeysInv, \A p \in Requests : Sent(p) => Sent(p)' /\ call'[p] = call[p]
    PROVE  /\ \A a : KeptOnRevoking(a) => KeptOnRevoking(a)'
           /\ \A q \in Requests : Sent(q) => /\ RegisteredAgain(q) => RegisteredAgain(q)'
                                             /\ LeftOut(q) => LeftOut(q)'
<1>1. \A a : KeptOnRevoking(a) => KeptOnRevoking(a)'
  BY DEF KeptOnRevoking, Sent
<1>2. ASSUME NEW q \in Requests, Sent(q)
      PROVE  /\ RegisteredAgain(q) => RegisteredAgain(q)'
             /\ LeftOut(q) => LeftOut(q)'
  BY <1>2 DEF RegisteredAgain, LeftOut, Sent
<1>3. QED
  BY <1>1, <1>2

LEMMA AloneInit == Init => AloneInv
<1> SUFFICES ASSUME Init PROVE AloneInv
  OBVIOUS
<1>1. /\ item = NoItem /\ call = [q \in Requests |-> NoCall]
      /\ at = [q \in Requests |-> "idle"]
      /\ last = {} /\ answer = [q \in Requests |-> "none"]
  BY DEF Init
<1>2. NoItem.envelope.wraps = {} /\ NoItem.index = [exists |-> FALSE, mandates |-> {}]
  BY DEF NoItem
<1>3. OneIsAtWork /\ RotationIsCurrent
  BY <1>1 DEF OneIsAtWork, RotationIsCurrent, Active
<1>4. IndexCoversWraps
  BY <1>1, <1>2 DEF IndexCoversWraps, Indexed
<1>5. RevokedLeftIndex /\ GrantedStays
  BY <1>1, NoCallIs DEF RevokedLeftIndex, GrantedStays, Saved, Revokes, Revoking
<1>7. KeysAreOne
  BY <1>1, <1>2 DEF KeysAreOne, Init
<1>6. QED
  BY <1>3, <1>4, <1>5, <1>7 DEF AloneInv

LEMMA SubmitAlone ==
    ASSUME KeysInv, AloneInv, mode.serial, NEW q \in Requests, Submit(q)
    PROVE  AloneInv'
<1>1. PICK c \in Call :
        /\ call' = [call EXCEPT ![q] = c]
        /\ left' = [left EXCEPT ![q] = IF c.op \in Rotating THEN c.records ELSE {}]
        /\ \A p \in Requests : Sent(p) => p < q
        /\ \/ \E p \in last : p \in Requests /\ answer[p] = "lost" /\ c = call[p]
           \/ \E v \in Readable : v \in Item /\ c \in Prepared(v.envelope)
  BY SubmittedIs
<1>2. /\ at[q] = "idle" /\ last' = {q}
      /\ UNCHANGED <<item, dek, snap, answer>>
      /\ call'[q] = c /\ at'[q] = "get" /\ answer[q] = "none"
      /\ left'[q] = IF c.op \in Rotating THEN c.records ELSE {}
      /\ \A p \in Requests \ {q} : call'[p] = call[p] /\ at'[p] = at[p]
  BY <1>1 DEF Submit, KeysInv, TypeOK, StepsFit
<1>3. \A p \in Requests : at[p] \in {"idle", "done"}
  BY DEF Submit
<1>4. /\ \A p \in Requests : Saved(p)' => p # q /\ Saved(p)
      /\ \A p \in Requests : Sent(p) => p # q /\ Sent(p)' /\ call'[p] = call[p]
  BY <1>2 DEF Saved, Sent
<1>5. \/ \E p \in last : Sent(p) /\ p \in Requests /\ c = call[p]
      \/ c \in Prepared(item.envelope)
  BY <1>1 DEF Readable, KeysInv, StepsFit
<1>16. \A p \in Requests : Sent(p) => p < q
  BY <1>1
<1>6. OneIsAtWork'
  <2>1. \A p \in Requests : at'[p] = IF p = q THEN "get" ELSE at[p]
    BY <1>2
  <2>2. \A p \in Requests : Sent(p)' => p <= q
    BY <1>16, <2>1, RequestsAreCounted DEF Sent
  <2>3. QED
    BY <1>2, <1>3, <2>1, <2>2 DEF OneIsAtWork, Active
<1>12. /\ \A a : KeptOnRevoking(a) => KeptOnRevoking(a)'
       /\ \A p \in Requests : Sent(p) => /\ RegisteredAgain(p) => RegisteredAgain(p)'
                                         /\ LeftOut(p) => LeftOut(p)'
  BY <1>4, HistoryGrows
<1>13. \A wraps : Indexed(wraps) => Indexed(wraps)'
  BY <1>2, <1>12 DEF Indexed
<1>14. \A p \in Requests : Saved(p) => Sent(p)
  BY DEF Saved, Sent, KeysInv, StepsFit
<1>7. IndexCoversWraps'
  <2>1. Indexed(item.envelope.wraps)'
    BY <1>2, <1>13 DEF AloneInv, IndexCoversWraps
  <2>2. QED
    BY <1>2, <1>4, <2>1 DEF AloneInv, IndexCoversWraps
<1>8. RevokedLeftIndex'
  BY <1>2, <1>4, <1>12, <1>14 DEF AloneInv, RevokedLeftIndex, Revokes
<1>9. GrantedStays'
  BY <1>2, <1>4, <1>12, <1>14 DEF AloneInv, GrantedStays, Gone, Revokes
<1>10. RotationIsCurrent'
  <2> SUFFICES ASSUME c.op \in Rotating
               PROVE  /\ Indexed(c.envelope.wraps)
                      /\ \A r \in Records : dek[r] # 0 => r \in c.records
    BY <1>2, <1>13 DEF RotationIsCurrent, Saved, Active
  <2>1. CASE \E p \in last : p \in Requests /\ c = call[p]
    BY <2>1 DEF AloneInv, RotationIsCurrent
  <2>2. CASE c \in Prepared(item.envelope)
    <3>4. IsRotation(c, item.envelope)
      BY <2>2, PreparedIs DEF Rotating
    <3>1. PICK op \in Rotating, m \in Mandates, retained \in SUBSET Readers(item.envelope.wraps) :
            c = [op |-> op, mandate |-> m, records |-> {r \in Records : dek[r] # 0},
                 envelope |-> [cmk |-> fresh + 1,
                               wraps |-> {[app |-> a, cmk |-> fresh + 1] : a \in retained}]]
      BY <3>4 DEF IsRotation
    <3>2. \A w \in c.envelope.wraps : \E x \in item.envelope.wraps : x.app = w.app
      BY <3>1 DEF Readers
    <3>3. QED
      BY <3>1, <3>2 DEF AloneInv, IndexCoversWraps, Indexed
  <2>3. QED
    BY <1>5, <2>1, <2>2
<1>15. KeysAreOne'
  <2>1. c.op \in {"authorize", "insert"} => c.envelope.cmk = item.envelope.cmk
    <3>1. CASE \E p \in last : c = call[p]
      BY <3>1 DEF AloneInv, KeysAreOne
    <3>2. CASE c \in Prepared(item.envelope)
      BY <3>2, PreparedIs, RotationHasOneKey DEF Rotating
    <3>3. QED
      BY <1>5, <3>1, <3>2
  <2>2. ASSUME RotationsAnswered' PROVE RotationsAnswered
    <3>1. ASSUME NEW x \in Requests, Sent(x), call[x].op \in Rotating
          PROVE  \E p \in Requests : p >= x /\ call[p] = call[x] /\ answer[p] = "ok"
      <4>1. x # q /\ Sent(x)' /\ call'[x] = call[x]
        BY <1>4, <3>1
      <4>2. PICK p \in Requests : p >= x /\ call'[p] = call'[x] /\ answer'[p] = "ok"
        BY <2>2, <3>1, <4>1 DEF RotationsAnswered, Sent
      <4>3. p # q
        BY <1>2, <4>2
      <4>4. QED
        BY <1>2, <4>1, <4>2, <4>3
    <3>2. QED
      BY <3>1 DEF RotationsAnswered, Sent
  <2>3. QED
    BY <1>2, <2>1, <2>2 DEF AloneInv, KeysAreOne
<1>11. QED
  BY <1>6, <1>7, <1>8, <1>9, <1>10, <1>15 DEF AloneInv

\* A step of the one at work that writes neither the item nor a record.
LEMMA QuietStepAlone ==
    ASSUME KeysInv, AloneInv, mode.serial, NEW q \in Requests,
           UNCHANGED <<item, call, last, dek, left>>, Active(q),
           \A p \in Requests \ {q} :
              at'[p] = at[p] /\ snap'[p] = snap[p] /\ answer'[p] = answer[p],
           \A p \in Requests : Sent(p)' <=> Sent(p),
           Saved(q)' => Saved(q),
           at'[q] # "save",
           at'[q] \in {"grant", "grantFirst", "rewrap"} => snap'[q] = item,
           at'[q] = "grantFirst" => ~item.index.exists,
           answer'[q] = "ok" => Active(q)
    PROVE  AloneInv'
<1>1. q \in last /\ \A p \in last : p = q
  BY DEF AloneInv, OneIsAtWork
<1>2. \A p \in Requests : Saved(p)' => Saved(p)
  BY DEF Saved
<1>3. OneIsAtWork'
  BY <1>1 DEF AloneInv, OneIsAtWork, Active
<1>9. /\ \A wraps : Indexed(wraps) => Indexed(wraps)'
      /\ \A p \in Requests : /\ RegisteredAgain(p)' <=> RegisteredAgain(p)
                             /\ LeftOut(p)' <=> LeftOut(p)
  BY HistoryStays
<1>4. IndexCoversWraps'
  <2>1. Indexed(item.envelope.wraps)'
    BY <1>9 DEF AloneInv, IndexCoversWraps
  <2>2. QED
    BY <2>1 DEF AloneInv, IndexCoversWraps
<1>5. RevokedLeftIndex'
  BY <1>2, <1>9 DEF AloneInv, RevokedLeftIndex, Revokes
<1>6. GrantedStays'
  BY <1>2, <1>9 DEF AloneInv, GrantedStays, Gone, Revokes
<1>7. RotationIsCurrent'
  <2>1. call[q].op \in Rotating => Indexed(call[q].envelope.wraps)'
    BY <1>1, <1>9 DEF AloneInv, RotationIsCurrent
  <2>2. QED
    BY <1>1, <1>2, <2>1 DEF AloneInv, RotationIsCurrent
<1>10. KeysAreOne'
  <2>1. ASSUME RotationsAnswered' PROVE \A r \in Records : dek[r] \in {0, item.envelope.cmk}
    <3>1. CASE RotationsAnswered
      BY <3>1 DEF AloneInv, KeysAreOne
    <3>2. CASE answer'[q] = "ok" /\ call[q].op \in Rotating
      <4>1. Saved(q) /\ Active(q)
        BY <3>2 DEF Saved
      <4>2. left[q] = {} /\ item.envelope = call[q].envelope
        BY <1>1, <3>2, <4>1 DEF AloneInv, RotationIsCurrent
      <4>3. QED
        BY <1>1, <3>2, <4>1, <4>2 DEF AloneInv, RotationIsCurrent
    <3>3. CASE ~(answer'[q] = "ok" /\ call[q].op \in Rotating)
      <4>1. RotationsAnswered
        BY <2>1, <3>3 DEF RotationsAnswered, Sent
      <4>2. QED
        BY <3>1, <4>1
    <3>4. QED
      BY <3>2, <3>3
  <2>2. QED
    BY <2>1 DEF AloneInv, KeysAreOne
<1>8. QED
  BY <1>3, <1>4, <1>5, <1>6, <1>7, <1>10 DEF AloneInv

\* The write of authorize_app.
LEMMA GrantAlone ==
    ASSUME KeysInv, AloneInv, mode.serial, NEW q \in Requests,
           (Grant(q) /\ item.index.exists) \/ GrantFirst(q)
    PROVE  AloneInv'
<1>1. /\ UNCHANGED <<call, last, dek, left, snap, answer>> /\ Active(q)
      /\ at'[q] = "log" /\ at[q] \in {"grant", "grantFirst"}
      /\ \A p \in Requests \ {q} : at'[p] = at[p]
      /\ \A p \in Requests : Sent(p)' <=> Sent(p)
      /\ item'.envelope = Granted(q) /\ item'.index.exists
      /\ \/ item'.index.mandates = item.index.mandates \cup {call[q].mandate}
         \/ ~item.index.exists /\ item'.index.mandates = {call[q].mandate}
  <2>1. DOMAIN at = Requests
    BY DEF KeysInv, TypeOK
  <2>2. CASE Grant(q) /\ item.index.exists
    BY <2>1, <2>2, OthersKeepCalls DEF Grant, Goto
  <2>3. CASE GrantFirst(q)
    <3>1. at[q] = "grantFirst" => ~item.index.exists
      BY DEF AloneInv, OneIsAtWork
    <3>2. QED
      BY <2>1, <2>3, <3>1, OthersKeepCalls DEF GrantFirst, Goto
  <2>4. QED
    BY <2>2, <2>3
<1>2. snap[q] = item /\ q \in last /\ \A p \in last : p = q
  BY <1>1 DEF AloneInv, OneIsAtWork
<1>3. PICK k \in 1..MaxCmk :
        /\ call[q].op = "authorize"
        /\ call[q].envelope.wraps = {[app |-> Grantee[call[q].mandate], cmk |-> k]}
  BY <1>1 DEF KeysInv, StepsFit
<1>4. /\ item'.envelope.wraps =
            item.envelope.wraps \cup {[app |-> Grantee[call[q].mandate], cmk |-> k]}
      /\ item'.index.mandates = item.index.mandates \cup {call[q].mandate}
      /\ item'.index.exists
  <2>1. ~item.index.exists => item.index.mandates = {}
    BY DEF AloneInv, IndexCoversWraps
  <2>2. Granted(q).wraps = snap[q].envelope.wraps \cup call[q].envelope.wraps
    BY WritesAreKnown
  <2>3. QED
    BY <1>1, <1>2, <1>3, <2>1, <2>2
<1>5. \A p \in Requests \ {q} : Saved(p)' <=> Saved(p)
  BY <1>1 DEF Saved
<1>6. \A p \in Requests : Saved(p) => Sent(p)
  BY DEF Saved, Sent, KeysInv, StepsFit
<1>13. /\ \A a : KeptOnRevoking(a)' <=> KeptOnRevoking(a)
       /\ \A p \in Requests : /\ RegisteredAgain(p)' <=> RegisteredAgain(p)
                              /\ LeftOut(p)' <=> LeftOut(p)
  BY <1>1, HistoryStays
<1>14. item'.envelope.cmk = item.envelope.cmk
  BY <1>1, <1>2, WritesAreKnown
<1>7. OneIsAtWork'
  BY <1>1, <1>2 DEF AloneInv, OneIsAtWork, Active
<1>8. IndexCoversWraps'
  <2>1. Indexed(item.envelope.wraps)'
    BY <1>4, <1>13 DEF AloneInv, IndexCoversWraps, Indexed
  <2>2. QED
    BY <1>1, <1>3, <1>4, <2>1 DEF AloneInv, IndexCoversWraps, Active, Sent
<1>9. RevokedLeftIndex'
  <2>1. ASSUME NEW p \in Requests, Revokes(p), Saved(p)', ~RegisteredAgain(p)
        PROVE  call[p].mandate \notin item'.index.mandates
    <3>1. p # q
      BY <1>3, <2>1 DEF Revokes, Revoking
    <3>2. Saved(p) /\ Sent(p)
      BY <1>5, <1>6, <2>1, <3>1
    <3>3. call[p].mandate \notin item.index.mandates
      BY <2>1, <3>2 DEF AloneInv, RevokedLeftIndex
    <3>4. p < q
      BY <1>2, <3>1, <3>2, RequestsAreCounted DEF AloneInv, OneIsAtWork
    <3>5. call[p].mandate # call[q].mandate
      BY <1>1, <1>3, <2>1, <3>4 DEF RegisteredAgain, Active
    <3>6. QED
      BY <1>4, <3>3, <3>5
  <2>2. QED
    BY <1>1, <1>13, <2>1 DEF RevokedLeftIndex, Revokes
<1>10. GrantedStays'
  <2>1. ASSUME NEW p \in Requests, call[p].op = "authorize", Saved(p)', ~LeftOut(p),
               ~\E x \in Requests : Sent(x) /\ Gone(x, Grantee[call[p].mandate])
        PROVE  \E w \in item'.envelope.wraps : w.app = Grantee[call[p].mandate]
    <3>1. CASE p = q
      <4>1. [app |-> Grantee[call[q].mandate], cmk |-> k] \in item'.envelope.wraps
        BY <1>4
      <4>2. QED
        BY <3>1, <4>1
    <3>2. CASE p # q
      BY <1>4, <1>5, <2>1, <3>2 DEF AloneInv, GrantedStays
    <3>3. QED
      BY <3>1, <3>2
  <2>2. QED
    BY <1>1, <1>13, <2>1 DEF GrantedStays, Gone, Revokes
<1>11. RotationIsCurrent'
  BY <1>1, <1>2, <1>3 DEF RotationIsCurrent, Rotating
<1>15. KeysAreOne'
  <2>1. k = item.envelope.cmk
    <3>1. call[q].envelope.cmk = item.envelope.cmk
      BY <1>2, <1>3 DEF AloneInv, KeysAreOne
    <3>2. [app |-> Grantee[call[q].mandate], cmk |-> k] \in call[q].envelope.wraps
      BY <1>3
    <3>3. QED
      BY <3>1, <3>2 DEF KeysInv, StepsFit
  <2>2. \A w \in item'.envelope.wraps : w.cmk = item'.envelope.cmk
    BY <1>4, <1>14, <2>1 DEF AloneInv, KeysAreOne
  <2>3. RotationsAnswered' => RotationsAnswered
    BY <1>1 DEF RotationsAnswered, Sent
  <2>4. QED
    BY <1>1, <1>14, <2>2, <2>3 DEF AloneInv, KeysAreOne
<1>12. QED
  BY <1>7, <1>8, <1>9, <1>10, <1>11, <1>15 DEF AloneInv

\* One more record carries the key of the rotation, or none is left.
LEMMA RewrapAlone ==
    ASSUME KeysInv, AloneInv, mode.serial, NEW q \in Requests, Rewrap(q)
    PROVE  AloneInv'
<1>1. /\ UNCHANGED <<item, call, last, snap, answer>> /\ Active(q)
      /\ at[q] = "rewrap" /\ at'[q] \in {"rewrap", "save"}
      /\ \A p \in Requests \ {q} : at'[p] = at[p]
      /\ \A p \in Requests : Sent(p)' <=> Sent(p)
  BY OthersKeepCalls DEF Rewrap, Goto, KeysInv, TypeOK
<1>2. snap[q] = item /\ q \in last /\ \A p \in last : p = q
  BY <1>1 DEF AloneInv, OneIsAtWork
<1>3. \A p \in Requests : Saved(p)' <=> Saved(p)
  BY <1>1 DEF Saved
<1>4. OneIsAtWork'
  BY <1>1, <1>2 DEF AloneInv, OneIsAtWork, Active
<1>9. /\ \A wraps : Indexed(wraps) => Indexed(wraps)'
      /\ \A p \in Requests : /\ RegisteredAgain(p)' <=> RegisteredAgain(p)
                             /\ LeftOut(p)' <=> LeftOut(p)
  BY <1>1, HistoryStays
<1>5. IndexCoversWraps'
  <2>1. Indexed(item.envelope.wraps)'
    BY <1>1, <1>9 DEF AloneInv, IndexCoversWraps
  <2>2. QED
    BY <1>1, <2>1 DEF AloneInv, IndexCoversWraps
<1>6. RevokedLeftIndex' /\ GrantedStays'
  BY <1>1, <1>3, <1>9 DEF AloneInv, RevokedLeftIndex, GrantedStays, Gone, Revokes
<1>7. RotationIsCurrent'
  <2> SUFFICES ASSUME call[q].op \in Rotating
               PROVE  /\ \A r \in Records : dek'[r] # 0 => r \in call[q].records
                      /\ \A r \in Records : dek'[r] # 0 /\ r \notin left'[q]
                                               => dek'[r] = call[q].envelope.cmk
                      /\ left'[q] \subseteq call[q].records
                      /\ at'[q] = "save" => left'[q] = {}
    <3>1. ~Saved(q)'
      BY <1>1, <1>2 DEF Saved, Active, KeysInv, StepsFit
    <3>2. call[q].op \in Rotating => Indexed(call[q].envelope.wraps)'
      BY <1>1, <1>2, <1>9 DEF AloneInv, RotationIsCurrent
    <3>3. QED
      BY <1>1, <1>2, <3>1, <3>2 DEF RotationIsCurrent
  <2>1. /\ \A r \in Records : dek[r] # 0 => r \in call[q].records
        /\ \A r \in Records : dek[r] # 0 /\ r \notin left[q]
                                 => dek[r] = call[q].envelope.cmk
        /\ left[q] \subseteq call[q].records
    BY <1>1, <1>2 DEF AloneInv, RotationIsCurrent
  <2>2. DOMAIN dek = Records /\ DOMAIN left = Requests /\ DOMAIN at = Requests
    BY DEF KeysInv, TypeOK
  <2>3. CASE \E r \in left[q] : /\ left' = [left EXCEPT ![q] = @ \ {r}]
                                /\ dek' = [dek EXCEPT ![r] = call[q].envelope.cmk]
                                /\ Goto(q, "rewrap", "rewrap")
    BY <2>1, <2>2, <2>3 DEF Goto
  <2>4. CASE left[q] = {} /\ UNCHANGED <<dek, left>>
    BY <2>1, <2>4
  <2>5. QED
    BY <2>3, <2>4 DEF Rewrap
<1>10. KeysAreOne'
  <2>1. DOMAIN left = Requests
    BY DEF KeysInv, TypeOK
  <2>2. CASE call[q].op \in Rotating
    <3>1. ~RotationsAnswered'
      <4>1. ASSUME NEW p \in Requests, p >= q, answer[p] = "ok" PROVE FALSE
        <5>1. Sent(p)
          BY <4>1 DEF Sent, KeysInv, StepsFit
        <5>2. p = q
          BY <1>2, <4>1, <5>1, RequestsAreCounted DEF AloneInv, OneIsAtWork
        <5>3. QED
          BY <1>1, <4>1, <5>2 DEF Active, KeysInv, StepsFit
      <4>2. QED
        BY <1>1, <2>2, <4>1 DEF RotationsAnswered, Active, Sent
    <3>2. QED
      BY <1>1, <1>2, <2>2, <3>1 DEF AloneInv, KeysAreOne, Rotating
  <2>3. CASE call[q].op \notin Rotating
    <3>1. left[q] = {}
      BY <1>2, <2>3 DEF AloneInv, KeysAreOne
    <3>2. UNCHANGED <<dek, left>>
      BY <3>1 DEF Rewrap
    <3>3. RotationsAnswered' => RotationsAnswered
      BY <1>1 DEF RotationsAnswered, Sent
    <3>4. QED
      BY <1>1, <3>2, <3>3 DEF AloneInv, KeysAreOne
  <2>4. QED
    BY <2>2, <2>3
<1>8. QED
  BY <1>4, <1>5, <1>6, <1>7, <1>10 DEF AloneInv

\* The update of the collection.
LEMMA SaveAlone ==
    ASSUME KeysInv, AloneInv, mode.serial, NEW q \in Requests, Save(q)
    PROVE  AloneInv'
<1>1. /\ UNCHANGED <<call, last, dek, left, snap, answer>> /\ Active(q)
      /\ at[q] = "save" /\ at'[q] \in {"publish", "log"}
      /\ \A p \in Requests \ {q} : at'[p] = at[p]
      /\ \A p \in Requests : Sent(p)' <=> Sent(p)
  BY OthersKeepCalls DEF Save, Goto, KeysInv, TypeOK
<1>2. snap[q] = item /\ q \in last /\ \A p \in last : p = q
  BY <1>1 DEF AloneInv, OneIsAtWork
<1>3. call[q].op \in Revoking \cup Rotating
  BY <1>1 DEF KeysInv, StepsFit
<1>4. /\ item'.index.mandates = {m \in item.index.mandates :
                                   ~(Revokes(q) /\ m = call[q].mandate)}
      /\ item'.index.exists = item.index.exists
  <2>1. item'.index = IF Revokes(q) /\ call[q].mandate \in item.index.mandates
                      THEN [item.index EXCEPT !.mandates = @ \ {call[q].mandate}]
                      ELSE item.index
    BY <1>2 DEF Save, Revokes
  <2>2. item.index \in Index
    BY DEF KeysInv, TypeOK, Item
  <2>3. QED
    BY <2>1, <2>2 DEF Index
<1>5. item'.envelope = IF call[q].op \in Rotating THEN call[q].envelope ELSE Stripped(q)
  BY DEF Save
<1>6. Stripped(q).wraps = IF call[q].mandate \in item.index.mandates
                          THEN {w \in item.envelope.wraps :
                                   w.app # Grantee[call[q].mandate]}
                          ELSE item.envelope.wraps
  BY <1>2, WritesAreKnown
<1>7. \A p \in Requests \ {q} : Saved(p)' <=> Saved(p)
  BY <1>1 DEF Saved
<1>17. /\ \A a : KeptOnRevoking(a)' <=> KeptOnRevoking(a)
       /\ \A p \in Requests : /\ RegisteredAgain(p)' <=> RegisteredAgain(p)
                              /\ LeftOut(p)' <=> LeftOut(p)
  BY <1>1, HistoryStays
\* Who is in the index for an app that is not revoked stays there.
<1>8. ASSUME NEW a, \E m \in item.index.mandates : Grantee[m] = a,
             ~Gone(q, a) \/ call[q].mandate \notin item.index.mandates
      PROVE  \E m \in item'.index.mandates : Grantee[m] = a
  BY <1>4, <1>8 DEF Gone
<1>9. call[q].op \in Rotating =>
        /\ Indexed(call[q].envelope.wraps)
        /\ left[q] = {}
  BY <1>1, <1>2 DEF AloneInv, RotationIsCurrent
<1>10. OneIsAtWork'
  BY <1>1, <1>2 DEF AloneInv, OneIsAtWork, Active
<1>11. Indexed(item.envelope.wraps)'
  <2>1. CASE call[q].op \in Rotating
    <3>1. ASSUME NEW w \in call[q].envelope.wraps, Gone(q, w.app)
          PROVE  KeptOnRevoking(w.app)
      BY <1>1, <2>1, <3>1
      DEF KeptOnRevoking, Gone, Revokes, Revoking, Rotating, Readers, Active
    <3>2. ASSUME NEW w \in call[q].envelope.wraps, ~KeptOnRevoking(w.app)
          PROVE  \E m \in item'.index.mandates : Grantee[m] = w.app
      <4>1. \E m \in item.index.mandates : Grantee[m] = w.app
        BY <1>9, <2>1, <3>2 DEF Indexed
      <4>2. ~Gone(q, w.app)
        BY <3>1, <3>2
      <4>3. QED
        BY <1>8, <4>1, <4>2
    <3>3. QED
      BY <1>5, <1>17, <2>1, <3>2 DEF Indexed
  <2>2. CASE call[q].op \notin Rotating
    <3>1. ASSUME NEW w \in item'.envelope.wraps, ~KeptOnRevoking(w.app)
          PROVE  \E m \in item'.index.mandates : Grantee[m] = w.app
      <4>1. w \in item.envelope.wraps
        BY <1>5, <1>6, <2>2, <3>1
      <4>2. ~Gone(q, w.app) \/ call[q].mandate \notin item.index.mandates
        BY <1>5, <1>6, <2>2, <3>1 DEF Gone
      <4>3. \E m \in item.index.mandates : Grantee[m] = w.app
        BY <3>1, <4>1 DEF AloneInv, IndexCoversWraps, Indexed
      <4>4. QED
        BY <1>8, <4>2, <4>3
    <3>2. QED
      BY <1>17, <3>1 DEF Indexed
  <2>3. QED
    BY <2>1, <2>2
<1>12. IndexCoversWraps'
  BY <1>1, <1>4, <1>11 DEF AloneInv, IndexCoversWraps
<1>13. RevokedLeftIndex'
  BY <1>1, <1>2, <1>4, <1>7, <1>17 DEF AloneInv, RevokedLeftIndex, Revokes
<1>14. GrantedStays'
  <2>1. ASSUME NEW p \in Requests, call[p].op = "authorize", Saved(p)', ~LeftOut(p),
               ~\E x \in Requests : Sent(x) /\ Gone(x, Grantee[call[p].mandate])
        PROVE  \E w \in item'.envelope.wraps : w.app = Grantee[call[p].mandate]
    <3>1. p # q
      BY <1>3, <2>1 DEF Revoking, Rotating
    <3>2. PICK w \in item.envelope.wraps : w.app = Grantee[call[p].mandate]
      BY <1>7, <2>1, <3>1 DEF AloneInv, GrantedStays
    <3>3. ~Gone(q, w.app)
      BY <1>1, <2>1, <3>2 DEF Active, Sent
    <3>4. CASE call[q].op \in Rotating
      <4>1. Saved(p) /\ Sent(p)
        BY <1>7, <2>1, <3>1 DEF Saved, Sent, KeysInv, StepsFit
      <4>2. p < q
        BY <1>2, <3>1, <4>1, RequestsAreCounted DEF AloneInv, OneIsAtWork
      <4>3. Grantee[call[p].mandate] \in Readers(call[q].envelope.wraps)
        BY <1>1, <2>1, <3>4, <4>2 DEF LeftOut, Active
      <4>4. QED
        BY <1>5, <3>4, <4>3 DEF Readers
    <3>5. CASE call[q].op \notin Rotating
      <4>1. w.app # Grantee[call[q].mandate]
        BY <1>3, <3>3, <3>5 DEF Gone, Revokes
      <4>2. QED
        BY <1>5, <1>6, <3>2, <3>5, <4>1
    <3>6. QED
      BY <3>4, <3>5
  <2>2. QED
    BY <1>1, <1>17, <2>1 DEF GrantedStays, Gone, Revokes
<1>15. RotationIsCurrent'
  <2> SUFFICES ASSUME call[q].op \in Rotating
               PROVE  /\ Indexed(call[q].envelope.wraps)'
                      /\ item'.envelope = call[q].envelope
    BY <1>1, <1>2, <1>9 DEF AloneInv, RotationIsCurrent, Active
  <2>1. item'.envelope = call[q].envelope
    BY <1>5
  <2>2. QED
    BY <1>1, <1>11, <2>1
<1>18. KeysAreOne'
  <2>1. CASE call[q].op \in Rotating
    <3>1. ~RotationsAnswered'
      <4>1. ASSUME NEW p \in Requests, p >= q, answer[p] = "ok" PROVE FALSE
        <5>1. Sent(p)
          BY <4>1 DEF Sent, KeysInv, StepsFit
        <5>2. p = q
          BY <1>2, <4>1, <5>1, RequestsAreCounted DEF AloneInv, OneIsAtWork
        <5>3. QED
          BY <1>1, <4>1, <5>2 DEF Active, KeysInv, StepsFit
      <4>2. QED
        BY <1>1, <2>1, <4>1 DEF RotationsAnswered, Active, Sent
    <3>2. \A w \in item'.envelope.wraps : w.cmk = item'.envelope.cmk
      BY <1>5, <2>1 DEF KeysInv, StepsFit
    <3>3. QED
      BY <1>1, <1>2, <2>1, <3>1, <3>2 DEF KeysAreOne, Rotating
  <2>2. CASE call[q].op \notin Rotating
    <3>1. item'.envelope.cmk = item.envelope.cmk
      BY <1>2, <1>5, <2>2, WritesAreKnown
    <3>2. \A w \in item'.envelope.wraps : w \in item.envelope.wraps
      BY <1>5, <1>6, <2>2
    <3>3. RotationsAnswered' => RotationsAnswered
      BY <1>1 DEF RotationsAnswered, Sent
    <3>4. QED
      BY <1>1, <3>1, <3>2, <3>3 DEF AloneInv, KeysAreOne
  <2>3. QED
    BY <2>1, <2>2
<1>16. QED
  BY <1>10, <1>12, <1>13, <1>14, <1>15, <1>18 DEF AloneInv

LEMMA NextKeepsSerial ==
    ASSUME KeysInv, SerialInv, [Next]_vars
    PROVE  SerialInv'
<1>1. mode' = mode
  <2>1. ASSUME NEW q \in Requests, Step(q) PROVE mode' = mode
    BY <2>1, OthersKeepCalls DEF Step, Submit
  <2>2. QED
    BY <2>1 DEF Next, Replicate, vars
<1> SUFFICES ASSUME mode.serial, AloneInv PROVE AloneInv'
  BY <1>1 DEF SerialInv
<1>2. CASE UNCHANGED vars
  <2>1. /\ UNCHANGED <<item, dek, last, call, at, snap, left, answer>>
        /\ \A p \in Requests : Sent(p)' <=> Sent(p)
    BY <1>2 DEF vars, Sent
  <2>2. /\ \A wraps : Indexed(wraps) => Indexed(wraps)'
        /\ \A p \in Requests : /\ RegisteredAgain(p)' <=> RegisteredAgain(p)
                               /\ LeftOut(p)' <=> LeftOut(p)
    BY <2>1, HistoryStays
  <2>3. OneIsAtWork' /\ IndexCoversWraps' /\ RotationIsCurrent'
    BY <2>1, <2>2 DEF AloneInv, OneIsAtWork, IndexCoversWraps, RotationIsCurrent, Active, Saved
  <2>4. RevokedLeftIndex' /\ GrantedStays'
    BY <2>1, <2>2 DEF AloneInv, RevokedLeftIndex, GrantedStays, Saved, Revokes, Gone
  <2>5. KeysAreOne'
    BY <2>1 DEF AloneInv, KeysAreOne, RotationsAnswered
  <2>6. QED
    BY <2>3, <2>4, <2>5 DEF AloneInv
<1>3. ASSUME NEW q \in Requests,
             \/ GetCollection(q) \/ PutRecord(q) \/ Grant(q) \/ GrantFirst(q)
             \/ Rewrap(q) \/ Save(q) \/ Publish(q) \/ Log(q) \/ Crash(q)
      PROVE  AloneInv'
  <2>1. /\ UNCHANGED <<call, last>> /\ Active(q)
        /\ \A p \in Requests : Sent(p)' <=> Sent(p)
        /\ \A p \in Requests \ {q} :
              at'[p] = at[p] /\ snap'[p] = snap[p] /\ answer'[p] = answer[p]
    BY <1>3, OthersKeepCalls
  <2>2. DOMAIN at = Requests /\ DOMAIN snap = Requests /\ DOMAIN answer = Requests
    BY DEF KeysInv, TypeOK
  <2>3. answer[q] = "none"
    BY <2>1 DEF Active, KeysInv, StepsFit
  <2>4. CASE GetCollection(q)
    <3>1. /\ UNCHANGED <<item, dek, left>>
          /\ at'[q] \in {"done", "grant", "insert", "rewrap"} /\ answer'[q] # "ok"
          /\ at'[q] \in {"grant", "rewrap"} => snap'[q] = item
      BY <2>2, <2>3, <2>4 DEF GetCollection, Answer, Readable
    <3>2. QED
      BY <2>1, <3>1, QuietStepAlone DEF Saved
  <2>5. CASE PutRecord(q)
    <3>1. /\ UNCHANGED <<item, left>> /\ call[q].op = "insert" /\ at'[q] = "done"
          /\ \A r \in Records : dek'[r] \in {dek[r], call[q].envelope.cmk}
      BY <2>2, <2>5 DEF PutRecord, Answer, KeysInv, StepsFit, TypeOK
    <3>2. q \in last /\ \A p \in last : p = q
      BY <2>1 DEF AloneInv, OneIsAtWork
    <3>3. \A p \in Requests \ {q} : Saved(p)' <=> Saved(p)
      BY <2>1 DEF Saved
    <3>4. OneIsAtWork'
      BY <2>1, <3>1, <3>2 DEF AloneInv, OneIsAtWork, Active
    <3>8. /\ \A wraps : Indexed(wraps) => Indexed(wraps)'
          /\ \A p \in Requests : /\ RegisteredAgain(p)' <=> RegisteredAgain(p)
                                 /\ LeftOut(p)' <=> LeftOut(p)
      BY <2>1, <3>1, HistoryStays
    <3>5. IndexCoversWraps' /\ RotationIsCurrent'
      <4>1. Indexed(item.envelope.wraps)'
        BY <3>1, <3>8 DEF AloneInv, IndexCoversWraps
      <4>2. QED
        BY <2>1, <3>1, <3>2, <4>1 DEF AloneInv, IndexCoversWraps, RotationIsCurrent, Rotating
    <3>6. RevokedLeftIndex' /\ GrantedStays'
      BY <2>1, <3>1, <3>2, <3>3, <3>8
      DEF AloneInv, RevokedLeftIndex, GrantedStays, Gone, Revokes, Revoking
    <3>9. KeysAreOne'
      <4>1. call[q].envelope.cmk = item.envelope.cmk
        BY <3>1, <3>2 DEF AloneInv, KeysAreOne
      <4>2. RotationsAnswered' => RotationsAnswered
        BY <2>1, <3>1 DEF RotationsAnswered, Sent, Rotating
      <4>3. QED
        BY <2>1, <3>1, <4>1, <4>2 DEF AloneInv, KeysAreOne
    <3>7. QED
      BY <3>4, <3>5, <3>6, <3>9 DEF AloneInv
  <2>6. CASE (Grant(q) /\ item.index.exists) \/ GrantFirst(q)
    BY <2>6, GrantAlone
  <2>7. CASE Grant(q) /\ ~item.index.exists
    <3>1. /\ UNCHANGED <<dek, left, snap, answer>> /\ at[q] = "grant"
          /\ at'[q] = "grantFirst" /\ item' = item
      BY <2>2, <2>7 DEF Grant, Goto
    <3>2. snap[q] = item
      BY <3>1 DEF AloneInv, OneIsAtWork
    <3>3. QED
      BY <2>1, <2>3, <2>7, <3>1, <3>2, QuietStepAlone DEF Saved
  <2>8. CASE Rewrap(q)
    BY <2>8, RewrapAlone
  <2>9. CASE Save(q)
    BY <2>9, SaveAlone
  <2>10. CASE Publish(q) \/ Log(q) \/ Crash(q)
    <3>1. /\ UNCHANGED <<item, dek, left>>
          /\ at'[q] \in {"done", "log"}
          /\ at'[q] = "log" \/ answer'[q] = "ok" => at[q] \in {"publish", "log"}
      BY <2>2, <2>3, <2>10 DEF Publish, Log, Crash, Goto, Answer
    <3>2. QED
      BY <2>1, <3>1, QuietStepAlone DEF Saved
  <2>11. QED
    BY <1>3, <2>4, <2>5, <2>6, <2>7, <2>8, <2>9, <2>10
<1>4. QED
  BY <1>2, <1>3, SubmitAlone DEF Next, Step, Replicate

LEMMA SerialAlways == Spec => [](KeysInv /\ SerialInv)
<1>1. Init => KeysInv /\ SerialInv
  BY KeysInit, AloneInit DEF SerialInv
<1>2. KeysInv /\ SerialInv /\ [Next]_vars => (KeysInv /\ SerialInv)'
  BY NextKeepsKeys, NextKeepsSerial
<1>3. QED
  BY <1>1, <1>2, PTL DEF Spec

\* One request at a time, the wraps of the collection are what the answers said they
\* would be: a revoked app has none, an authorized app has one; deaths and calls that
\* are sent again included.
THEOREM WrapsAreAsAnswered == Spec => []EnvelopeIsSound
<1>1. ASSUME KeysInv, AloneInv PROVE RevokedHasNoWrap
  <2> SUFFICES ASSUME NEW q \in Requests, Succeeded(q, Revoking),
                      ~OtherMandate(call[q].mandate), ~RegisteredAgain(q),
                      ~KeptOnRevoking(Grantee[call[q].mandate]),
                      NEW w \in WrapsOf(item.envelope.wraps, call[q].mandate)
               PROVE  FALSE
    BY DEF RevokedHasNoWrap
  <2>1. call[q].mandate \notin item.index.mandates
    BY <1>1 DEF AloneInv, RevokedLeftIndex, Saved, Revokes, Succeeded
  <2>2. PICK m \in item.index.mandates : Grantee[m] = Grantee[call[q].mandate]
    BY <1>1 DEF AloneInv, IndexCoversWraps, Indexed, WrapsOf
  <2>3. PICK p \in Requests : Sent(p) /\ call[p].op = "authorize" /\ call[p].mandate = m
    BY <1>1 DEF AloneInv, IndexCoversWraps
  <2>4. QED
    BY <2>1, <2>2, <2>3 DEF OtherMandate, Sent
<1>2. ASSUME AloneInv PROVE AuthorizedHasWrap
  BY <1>2 DEF AloneInv, GrantedStays, AuthorizedHasWrap, Succeeded, Saved, Sent, Gone,
              Revokes, WrapsOf
<1>3. KeysInv /\ SerialInv => EnvelopeIsSound
  BY <1>1, <1>2 DEF SerialInv, EnvelopeIsSound, WrapsFollowAnswers, KeysInv
<1>4. QED
  BY <1>3, SerialAlways, PTL

\* One request at a time, a rotation that has answered leaves every record readable
\* with the key of the envelope, also when it had died half way and was sent again.
THEOREM RetriesComplete == Spec => []RetryCompletesRotation
<1>1. ASSUME KeysInv, AloneInv, NEW q \in last, Succeeded(q, Rotating), NEW r \in Records
      PROVE  dek[r] \in {0, item.envelope.cmk}
  <2>1. Saved(q) /\ call[q].op \in Rotating
    BY <1>1 DEF Succeeded, Saved
  <2>2. left[q] = {} /\ item.envelope = call[q].envelope
    BY <1>1, <2>1 DEF AloneInv, RotationIsCurrent
  <2>3. dek[r] # 0 => dek[r] = call[q].envelope.cmk
    BY <1>1, <2>1, <2>2 DEF AloneInv, RotationIsCurrent, Succeeded
  <2>4. QED
    BY <2>2, <2>3
<1>2. KeysInv /\ SerialInv => RetryCompletesRotation
  BY <1>1 DEF SerialInv, RetryCompletesRotation
<1>3. QED
  BY <1>2, SerialAlways, PTL

\* One request at a time and with no rotation given up, whoever has a wrap reads every
\* record: no grant, insert or rotation, dead and sent again, parts the keys.
THEOREM ReadersRead == Spec => []ReadersCanRead
<1>1. KeysInv /\ SerialInv => ReadersCanRead
  BY DEF SerialInv, AloneInv, KeysAreOne, ReadersCanRead
<1>2. QED
  BY <1>1, SerialAlways, PTL
=============================================================================
