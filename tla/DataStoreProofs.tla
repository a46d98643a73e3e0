-------------------------- MODULE DataStoreProofs --------------------------
(***************************************************************************)
(* Theorems about the two stores of the data PDS: RecordStore, for any     *)
(* number of records and requests, and SchemaRegistry, for any numbers of  *)
(* instances, identifiers and documents.                                   *)
(*                                                                         *)
(* Records: a handler stamps its write with a clock reading, and as long   *)
(* as no two readings agree the stamp names the request that wrote the     *)
(* version.  So two rows with the same modified_at have the same content,  *)
(* and the condition modified_at = :expected compares contents.  The       *)
(* book-keeping is counted: each increment of record_count that is still   *)
(* to come is matched with the insert that owes it.                        *)
(*                                                                         *)
(* Schemas: the conditional put is the one place where the table changes,  *)
(* and only where there was nothing: what a cache or an answer says of a   *)
(* document stays true.  The loser of a race knows that a row is there,    *)
(* which its second read may miss.  The quota is overrun by registrations  *)
(* that have passed the count, and an instance carries one at a time.      *)
(***************************************************************************)
EXTENDS RecordStore, SchemaRegistry, FiniteSetTheorems, TLAPS

\* NoCall names some record.
LEMMA NoCallType == NoCall \in Call
<1>1. (CHOOSE r \in Records : TRUE) \in Records
  BY RecordsAssumption
<1> QED
  BY <1>1 DEF NoCall, Call, AllOps, AllCallers, Payload

\* What a request writes is a payload.
LEMMA WrittenType == ASSUME NEW q \in Requests PROVE Written(q) \in Payload
  BY DEF Written, Payload

\* The absent row is a row.
LEMMA AbsentType == Absent \in Row
  BY DEF Absent, Row, Payload

\* Every variable keeps its type: the statement about the step.
LEMMA TypeStep == TypeOK /\ [Next]_vars => TypeOK'
<1> SUFFICES ASSUME TypeOK, [Next]_vars PROVE TypeOK'
  OBVIOUS
<1> USE AbsentType
<1>1. CASE UNCHANGED vars
  BY <1>1 DEF vars, TypeOK
<1>2. CASE CreateCollection
  BY <1>2 DEF CreateCollection, TypeOK
<1>3. ASSUME NEW q \in Requests, Step(q) PROVE TypeOK'
  <2>1. CASE Submit(q)
    <3>1. PICK op \in Ops, r \in Records, who \in Callers :
            \E read \in ClientReads(op, r) :
               /\ call' = [call EXCEPT ![q] =
                             [op |-> op, rec |-> r, caller |-> who,
                              expected |-> read.expected, base |-> read.base]]
               /\ \/ pc' = [pc EXCEPT ![q] = "get"] /\ UNCHANGED outcome
                  \/ Answer(q, "forbidden")
      BY <2>1 DEF Submit
    <3>2. PICK read \in ClientReads(op, r) :
               /\ call' = [call EXCEPT ![q] =
                             [op |-> op, rec |-> r, caller |-> who,
                              expected |-> read.expected, base |-> read.base]]
               /\ \/ pc' = [pc EXCEPT ![q] = "get"] /\ UNCHANGED outcome
                  \/ Answer(q, "forbidden")
      BY <3>1
    <3>3. read.expected \in Nat /\ read.base \in Payload
      BY <3>2 DEF ClientReads, Readable, TypeOK, Row, Payload
    <3>4. call' \in [Requests -> Call]
      BY <3>2, <3>3, OpsAssumption, CallersAssumption DEF TypeOK, Call
    <3>5. pc' \in [Requests -> Steps] /\ outcome' \in [Requests -> Outcomes]
      BY <3>2 DEF TypeOK, Answer, Steps, Outcomes
    <3> QED
      BY <2>1, <3>4, <3>5 DEF Submit, TypeOK
  <2>2. CASE GetCollection(q)
    BY <2>2 DEF GetCollection, Advance, Answer, TypeOK, Steps, Outcomes
  <2>3. CASE GetRow(q)
    <3>1. snap' \in [Requests -> Row]
      BY <2>3 DEF GetRow, Readable, TypeOK, Call
    <3>2. pc' \in [Requests -> Steps] /\ outcome' \in [Requests -> Outcomes]
      BY <2>3 DEF GetRow, Answer, TypeOK, Steps, Outcomes
    <3> QED
      BY <2>3, <3>1, <3>2 DEF GetRow, TypeOK
  <2>4. CASE Stamp(q)
    BY <2>4 DEF Stamp, Advance, TypeOK, Steps
  <2>5. CASE Refuse(q)
    BY <2>5 DEF Refuse, Answer, TypeOK, Steps, Outcomes
  <2>6. ASSUME NEW row \in Row, WriteRow(q, row) PROVE TypeOK'
    BY <2>6 DEF WriteRow, Advance, TypeOK, Steps, Call
  <2>7. ASSUME NEW result \in Outcomes, ConditionFails(q, result) PROVE TypeOK'
    BY <2>7 DEF ConditionFails, Answer, TypeOK, Steps
  <2>8. CASE PutInsert(q)
    <3>1. [exists |-> TRUE, deleted |-> FALSE, payload |-> Written(q),
           modified_at |-> now[q]] \in Row
      BY WrittenType DEF Row, TypeOK
    <3> QED
      BY <2>6, <2>7, <2>8, <3>1 DEF PutInsert, Outcomes
  <2>9. CASE PutUpdate(q)
    <3>1. [exists |-> TRUE, deleted |-> snap[q].deleted, payload |-> Written(q),
           modified_at |-> now[q]] \in Row
      BY WrittenType DEF Row, TypeOK
    <3> QED
      BY <2>6, <2>7, <2>9, <3>1 DEF PutUpdate, Outcomes
  <2>10. CASE SoftDelete(q)
    <3>1. [exists |-> TRUE, deleted |-> TRUE, payload |-> Written(q),
           modified_at |-> now[q]] \in Row
      BY WrittenType DEF Row, TypeOK
    <3> QED
      BY <2>6, <2>10, <3>1 DEF SoftDelete
  <2>11. CASE HardDelete(q)
    BY <2>6, <2>11 DEF HardDelete
  <2>12. CASE BumpCount(q)
    <3>1. CountChange(call[q].op) \in Int
      BY DEF CountChange
    <3> QED
      BY <2>12, <3>1 DEF BumpCount, Advance, TypeOK, Steps
  <2>13. CASE Audit(q)
    BY <2>13 DEF Audit, Answer, TypeOK, Steps, Outcomes
  <2>14. CASE Crash(q)
    BY <2>14 DEF Crash, Answer, TypeOK, Steps, Outcomes
  <2> QED
    BY <1>3, <2>1, <2>2, <2>3, <2>4, <2>5, <2>8, <2>9, <2>10, <2>11, <2>12,
       <2>13, <2>14 DEF Step
<1>4. ASSUME NEW r \in Records, Replicate(r) PROVE TypeOK'
  BY <1>4 DEF Replicate, TypeOK
<1> QED
  BY <1>1, <1>2, <1>3, <1>4 DEF Next

\* Every variable keeps its type, whatever requests do to each other.
THEOREM TypeCorrect == Spec => []TypeOK
<1>1. Init => TypeOK
  BY NoCallType, AbsentType DEF Init, TypeOK, Steps, Outcomes
<1> QED
  BY <1>1, TypeStep, PTL DEF Spec
-----------------------------------------------------------------------------
\* A request that has read its clock keeps its stamp and what it asked for.
LEMMA StampsStay ==
    ASSUME TypeOK, StampsUnique, [Next]_vars, NEW w \in Requests, now[w] > 0
    PROVE  now'[w] = now[w] /\ call'[w] = call[w]
<1>1. pc[w] \notin {"idle", "get", "stamp"}
  BY DEF StampsUnique, TypeOK
<1>2. CASE UNCHANGED vars
  BY <1>2 DEF vars
<1>3. CASE CreateCollection
  BY <1>3 DEF CreateCollection
<1>4. ASSUME NEW r \in Records, Replicate(r)
      PROVE  now'[w] = now[w] /\ call'[w] = call[w]
  BY <1>4 DEF Replicate
<1>5. ASSUME NEW q \in Requests, Submit(q)
      PROVE  now'[w] = now[w] /\ call'[w] = call[w]
  BY <1>1, <1>5 DEF Submit, TypeOK
<1>6. ASSUME NEW q \in Requests, Stamp(q)
      PROVE  now'[w] = now[w] /\ call'[w] = call[w]
  BY <1>1, <1>6 DEF Stamp, Advance, TypeOK
<1>7. ASSUME NEW q \in Requests, Step(q), ~Submit(q), ~Stamp(q)
      PROVE  now'[w] = now[w] /\ call'[w] = call[w]
  BY <1>7 DEF Step, GetCollection, GetRow, Refuse, PutInsert, PutUpdate,
              SoftDelete, HardDelete, WriteRow, ConditionFails, BumpCount,
              Audit, Crash
<1> QED
  BY <1>2, <1>3, <1>4, <1>5, <1>6, <1>7 DEF Next

\* What was attributed to a request stays attributed to it.
LEMMA AttributionStays ==
    ASSUME TypeOK, StampsUnique, [Next]_vars, NEW v, NEW r, Attributed(v, r)
    PROVE  Attributed(v, r)'
<1> SUFFICES ASSUME v.exists PROVE \E w \in Requests : WrittenBy(v, r, w)'
  BY DEF Attributed
<1>1. PICK w \in Requests : WrittenBy(v, r, w)
  BY DEF Attributed
<1>2. now'[w] = now[w] /\ call'[w] = call[w]
  BY <1>1, StampsStay DEF WrittenBy
<1>3. WrittenBy(v, r, w)'
  BY <1>1, <1>2 DEF WrittenBy, Written
<1> QED
  BY <1>3

\* The row that a write leaves is attributed to the request that wrote it.
LEMMA WriteAttributed ==
    ASSUME TypeOK, StampsUnique, [Next]_vars, NEW q \in Requests, NEW row,
           pc[q] = "put", call[q].op \in {"insert", "update", "delete"},
           row.payload = Written(q), row.modified_at = now[q],
           row.deleted = (call[q].op = "delete"), NEW r, r = call[q].rec
    PROVE  Attributed(row, r)'
<1>1. now[q] > 0
  BY DEF StampsUnique
<1>2. now'[q] = now[q] /\ call'[q] = call[q]
  BY <1>1, StampsStay
<1>3. WrittenBy(row, r, q)'
  BY <1>1, <1>2 DEF WrittenBy, Written
<1> QED
  BY <1>3 DEF Attributed

\* No step of a handler makes two requests share a clock reading.
LEMMA StampsUniqueStep ==
    ASSUME TypeOK, StampsUnique, ~CoarseClock, [Next]_vars
    PROVE  StampsUnique'
<1>1. CASE UNCHANGED vars
  BY <1>1 DEF vars, StampsUnique
<1>2. CASE CreateCollection
  BY <1>2 DEF CreateCollection, StampsUnique
<1>3. ASSUME NEW r \in Records, Replicate(r) PROVE StampsUnique'
  BY <1>3 DEF Replicate, StampsUnique
<1>4. ASSUME NEW q \in Requests, Stamp(q) PROVE StampsUnique'
  <2>1. /\ clock' = clock + 1
        /\ now' = [now EXCEPT ![q] = clock + 1]
        /\ pc' = [pc EXCEPT ![q] = "put"]
        /\ clock \in Nat
    BY <1>4 DEF Stamp, Advance, TypeOK
  <2>2. \A p \in Requests : now[p] \in Nat /\ now[p] <= clock
    BY DEF StampsUnique, TypeOK
  <2>3. ASSUME NEW p1 \in Requests, NEW p2 \in Requests,
               now'[p1] = now'[p2], now'[p1] > 0
        PROVE  p1 = p2
    <3>1. \A p \in Requests : now'[p] = IF p = q THEN clock + 1 ELSE now[p]
      BY <2>1 DEF TypeOK
    <3>2. \A p \in Requests : now[p] # clock + 1
      BY <2>1, <2>2
    <3> QED
      BY <2>3, <3>1, <3>2 DEF StampsUnique
  <2>4. ASSUME NEW p \in Requests
        PROVE  /\ now'[p] <= clock'
               /\ pc'[p] \in {"idle", "get", "stamp"} => now'[p] = 0
               /\ pc'[p] = "put" => now'[p] > 0
    BY <2>1, <2>2 DEF StampsUnique, TypeOK
  <2> QED
    BY <2>3, <2>4 DEF StampsUnique
<1>5. ASSUME NEW q \in Requests, Step(q), ~Stamp(q) PROVE StampsUnique'
  <2>1. UNCHANGED <<now, clock>>
    BY <1>5 DEF Step, Submit, GetCollection, GetRow, Refuse, PutInsert, PutUpdate,
                SoftDelete, HardDelete, WriteRow, ConditionFails, BumpCount,
                Audit, Crash
  <2>2. \E to \in Steps \ {"put"} :
            /\ pc' = [pc EXCEPT ![q] = to]
            /\ to \in {"idle", "get", "stamp"} => pc[q] \in {"idle", "get", "stamp"}
    BY <1>5 DEF Step, Submit, GetCollection, GetRow, Refuse, PutInsert, PutUpdate,
                SoftDelete, HardDelete, WriteRow, ConditionFails, BumpCount,
                Audit, Crash, Answer, Advance, Steps
  <2> QED
    BY <2>1, <2>2 DEF StampsUnique, TypeOK
<1> QED
  BY <1>1, <1>2, <1>3, <1>4, <1>5 DEF Next

\* Every version in the table or in a replica keeps its writer.
LEMMA RowsAttributedStep ==
    ASSUME TypeOK, StampsUnique, RowsAttributed, SnapsAttributed, [Next]_vars
    PROVE  RowsAttributed'
<1> SUFFICES ASSUME NEW r \in Records
             PROVE  Attributed(rows[r], r)' /\ Attributed(replica[r], r)'
  BY DEF RowsAttributed
<1>1. ASSUME NEW old, Attributed(old, r), rows'[r] = old
      PROVE  Attributed(rows[r], r)'
  <2>1. Attributed(old, r)'
    BY <1>1, AttributionStays
  <2> QED
    BY <1>1, <2>1 DEF Attributed, WrittenBy
<1>2. ASSUME NEW old, Attributed(old, r), replica'[r] = old
      PROVE  Attributed(replica[r], r)'
  <2>1. Attributed(old, r)'
    BY <1>2, AttributionStays
  <2> QED
    BY <1>2, <2>1 DEF Attributed, WrittenBy
<1>3. Attributed(rows[r], r) /\ Attributed(replica[r], r)
  BY DEF RowsAttributed
<1>4. ASSUME UNCHANGED <<rows, replica>>
      PROVE  Attributed(rows[r], r)' /\ Attributed(replica[r], r)'
  BY <1>1, <1>2, <1>3, <1>4
<1>5. ASSUME NEW s \in Records, Replicate(s)
      PROVE  Attributed(rows[r], r)' /\ Attributed(replica[r], r)'
  <2>1. rows'[r] = rows[r] /\ replica'[r] \in {rows[r], replica[r]}
    BY <1>5 DEF Replicate, TypeOK
  <2> QED
    BY <1>1, <1>2, <1>3, <2>1
<1>6. ASSUME NEW q \in Requests, NEW row, WriteRow(q, row), pc[q] = "put",
             call[q].op \in {"insert", "update", "delete"},
             row.payload = Written(q), row.modified_at = now[q],
             row.deleted = (call[q].op = "delete")
      PROVE  Attributed(rows[r], r)' /\ Attributed(replica[r], r)'
  <2>1. r = call[q].rec => Attributed(row, r)'
    BY <1>6, WriteAttributed
  <2>2. /\ replica' = replica
        /\ rows'[r] = IF r = call[q].rec THEN row ELSE rows[r]
    BY <1>6 DEF WriteRow, TypeOK
  <2>3. CASE r = call[q].rec
    <3>1. Attributed(rows[r], r)'
      BY <2>1, <2>2, <2>3 DEF Attributed, WrittenBy
    <3> QED
      BY <1>2, <1>3, <2>2, <3>1
  <2>4. CASE r # call[q].rec
    BY <1>1, <1>2, <1>3, <2>2, <2>4
  <2> QED
    BY <2>3, <2>4
<1>7. ASSUME NEW q \in Requests, Step(q)
      PROVE  Attributed(rows[r], r)' /\ Attributed(replica[r], r)'
  <2>1. CASE PutInsert(q)
    <3> DEFINE row == [exists |-> TRUE, deleted |-> FALSE,
                       payload |-> Written(q), modified_at |-> now[q]]
    <3>1. CASE WriteRow(q, row)
      <4>1. /\ pc[q] = "put" /\ call[q].op = "insert"
            /\ row.payload = Written(q) /\ row.modified_at = now[q]
            /\ row.deleted = (call[q].op = "delete")
        BY <2>1, <3>1 DEF PutInsert, WriteRow, Advance
      <4> QED
        BY ONLY <1>6, <3>1, <4>1, q \in Requests
    <3>2. CASE ConditionFails(q, "exists")
      BY <1>4, <3>2 DEF ConditionFails
    <3> QED
      BY <2>1, <3>1, <3>2 DEF PutInsert
  <2>2. CASE PutUpdate(q)
    <3> DEFINE row == [exists |-> TRUE, deleted |-> snap[q].deleted,
                       payload |-> Written(q), modified_at |-> now[q]]
    <3>1. CASE WriteRow(q, row)
      <4>1. pc[q] = "put" /\ call[q].op = "update"
        BY <2>2, <3>1 DEF PutUpdate, WriteRow, Advance
      <4>2. ~snap[q].deleted /\ snap[q] \in Row
        BY <4>1 DEF SnapsAttributed, Visible, TypeOK
      <4>3. /\ row.payload = Written(q) /\ row.modified_at = now[q]
            /\ row.deleted = (call[q].op = "delete")
        BY <4>1, <4>2 DEF Row
      <4> QED
        BY ONLY <1>6, <3>1, <4>1, <4>3, q \in Requests
    <3>2. CASE ConditionFails(q, "condition_failed")
      BY <1>4, <3>2 DEF ConditionFails
    <3> QED
      BY <2>2, <3>1, <3>2 DEF PutUpdate
  <2>3. CASE SoftDelete(q)
    <3> DEFINE row == [exists |-> TRUE, deleted |-> TRUE,
                       payload |-> Written(q), modified_at |-> now[q]]
    <3>1. /\ WriteRow(q, row) /\ pc[q] = "put" /\ call[q].op = "delete"
          /\ row.payload = Written(q) /\ row.modified_at = now[q]
          /\ row.deleted = (call[q].op = "delete")
      BY <2>3 DEF SoftDelete, WriteRow, Advance
    <3> QED
      BY ONLY <1>6, <3>1, q \in Requests
  <2>4. CASE HardDelete(q)
    <3>1. rows'[r] \in {rows[r], Absent} /\ replica' = replica
      BY <2>4 DEF HardDelete, WriteRow, TypeOK
    <3>2. Attributed(Absent, r)
      BY DEF Attributed, Absent
    <3> QED
      BY <1>1, <1>2, <1>3, <3>1, <3>2
  <2>5. CASE \/ Submit(q) \/ GetCollection(q) \/ GetRow(q) \/ Stamp(q)
             \/ Refuse(q) \/ BumpCount(q) \/ Audit(q) \/ Crash(q)
    BY <1>4, <2>5 DEF Submit, GetCollection, GetRow, Stamp, Refuse, BumpCount,
                      Audit, Crash
  <2> QED
    BY <1>7, <2>1, <2>2, <2>3, <2>4, <2>5 DEF Step
<1>8. CASE CreateCollection
  BY <1>4, <1>8 DEF CreateCollection
<1> QED
  BY <1>4, <1>5, <1>7, <1>8 DEF Next, vars

\* Between its Get and its put a request holds an attributed, visible row.
LEMMA SnapsAttributedStep ==
    ASSUME TypeOK, StampsUnique, RowsAttributed, SnapsAttributed, [Next]_vars
    PROVE  SnapsAttributed'
<1> SUFFICES ASSUME NEW q \in Requests, pc'[q] \in {"stamp", "put"},
                    call'[q].op # "insert"
             PROVE  /\ Visible(snap[q])'
                    /\ Attributed(snap[q], call[q].rec)'
                    /\ call'[q].expected \in {0, snap'[q].modified_at}
  BY DEF SnapsAttributed
<1> DEFINE Held(row) == /\ Visible(row)
                        /\ Attributed(row, call[q].rec)
                        /\ call[q].expected \in {0, row.modified_at}
<1>1. ASSUME NEW row, Held(row), snap'[q] = row, call'[q] = call[q]
      PROVE  /\ Visible(snap[q])'
             /\ Attributed(snap[q], call[q].rec)'
             /\ call'[q].expected \in {0, snap'[q].modified_at}
  <2>1. Attributed(row, call[q].rec)'
    BY <1>1, AttributionStays
  <2>2. Attributed(snap[q], call[q].rec)'
    BY <1>1, <2>1 DEF Attributed, WrittenBy
  <2> QED
    BY <1>1, <2>2 DEF Visible
<1>2. CASE pc[q] \in {"stamp", "put"} /\ UNCHANGED <<snap, call>>
  BY <1>1, <1>2 DEF SnapsAttributed
<1>3. CASE GetRow(q)
  <2>1. PICK row \in Readable(call[q].rec) :
            /\ Visible(row)
            /\ call[q].expected \in {0, row.modified_at}
            /\ snap'[q] = row
    BY <1>3 DEF GetRow, Answer, TypeOK
  <2>2. Attributed(row, call[q].rec)
    BY <2>1 DEF Readable, RowsAttributed, TypeOK, Call
  <2> QED
    BY <1>1, <1>3, <2>1, <2>2 DEF GetRow
<1>4. CASE UNCHANGED vars
  BY <1>2, <1>4 DEF vars
<1>5. CASE CreateCollection
  BY <1>2, <1>5 DEF CreateCollection
<1>6. ASSUME NEW r \in Records, Replicate(r)
      PROVE  pc[q] \in {"stamp", "put"} /\ UNCHANGED <<snap, call>>
  BY <1>6 DEF Replicate
<1>7. ASSUME NEW p \in Requests, Step(p), p # q
      PROVE  pc'[q] = pc[q] /\ snap'[q] = snap[q] /\ call'[q] = call[q]
  BY <1>7 DEF Step, Submit, GetCollection, GetRow, Stamp, Refuse, PutInsert,
              PutUpdate, SoftDelete, HardDelete, WriteRow, ConditionFails,
              BumpCount, Audit, Crash, Answer, Advance, TypeOK
<1>8. ASSUME NEW p \in Requests, Step(p), p # q
      PROVE  /\ Visible(snap[q])'
             /\ Attributed(snap[q], call[q].rec)'
             /\ call'[q].expected \in {0, snap'[q].modified_at}
  BY <1>1, <1>7, <1>8 DEF SnapsAttributed
<1>9. CASE Step(q) /\ ~GetRow(q)
  <2>1. pc[q] \in {"stamp", "put"} /\ UNCHANGED <<snap, call>>
    BY <1>9 DEF Step, Submit, GetCollection, Stamp, Refuse, PutInsert,
                PutUpdate, SoftDelete, HardDelete, WriteRow, ConditionFails,
                BumpCount, Audit, Crash, Answer, Advance, TypeOK
  <2> QED
    BY <1>2, <2>1
<1> QED
  BY <1>2, <1>3, <1>4, <1>5, <1>6, <1>8, <1>9 DEF Next

\* What a client of an update can hold: nothing, or a version and its content.
LEMMA ClientReadsAttributed ==
    ASSUME TypeOK, RowsAttributed, NEW op, NEW r \in Records,
           NEW read \in ClientReads(op, r)
    PROVE  /\ read.expected # 0 =>
                \E w \in Requests : /\ now[w] = read.expected /\ now[w] > 0
                                    /\ read.base = Written(w)
           /\ ~BareUpdates /\ op = "update" => read.expected # 0
<1>1. CASE read = [expected |-> 0, base |-> Wiped] /\ (BareUpdates \/ op # "update")
  BY <1>1
<1>2. ASSUME NEW v \in Readable(r), Visible(v),
             read = [expected |-> v.modified_at, base |-> v.payload]
      PROVE  /\ \E w \in Requests : /\ now[w] = read.expected /\ now[w] > 0
                                    /\ read.base = Written(w)
             /\ read.expected # 0
  <2>1. v.exists /\ Attributed(v, r)
    BY <1>2 DEF Readable, RowsAttributed, Visible
  <2>2. PICK w \in Requests : WrittenBy(v, r, w)
    BY <2>1 DEF Attributed
  <2>3. now[w] \in Nat /\ now[w] = read.expected /\ now[w] > 0
        /\ read.base = Written(w)
    BY <1>2, <2>2 DEF WrittenBy, TypeOK
  <2> QED
    BY <2>3
<1>3. \/ read = [expected |-> 0, base |-> Wiped] /\ (BareUpdates \/ op # "update")
      \/ \E v \in Readable(r) :
            Visible(v) /\ read = [expected |-> v.modified_at, base |-> v.payload]
  BY DEF ClientReads
<1> QED
  BY <1>1, <1>2, <1>3

\* The expectation that a request carries is sent once and for all.
LEMMA ExpectationsStep ==
    ASSUME TypeOK, StampsUnique, RowsAttributed, ExpectationsAttributed,
           UpdatesCarryExpectations, [Next]_vars
    PROVE  ExpectationsAttributed' /\ UpdatesCarryExpectations'
<1> DEFINE Named(expected, base) ==
             \E w \in Requests : /\ now[w] = expected /\ now[w] > 0
                                 /\ base = Written(w)
           Stays(expected, base) ==
             \E w \in Requests : /\ now'[w] = expected /\ now'[w] > 0
                                 /\ base = Written(w)'
<1>1. ASSUME NEW expected, NEW base, Named(expected, base)
      PROVE  Stays(expected, base)
  <2>1. PICK w \in Requests : now[w] = expected /\ now[w] > 0 /\ base = Written(w)
    BY <1>1
  <2>2. now'[w] = now[w] /\ call'[w] = call[w]
    BY <2>1, StampsStay
  <2> QED
    BY <2>1, <2>2 DEF Written
<1>2. ASSUME NEW q \in Requests
      PROVE  /\ call'[q].expected # 0 => Stays(call'[q].expected, call'[q].base)
             /\ ~BareUpdates /\ call'[q].op = "update" => call'[q].expected # 0
  <2>1. CASE call'[q] = call[q]
    <3>1. call[q].expected # 0 => Named(call[q].expected, call[q].base)
      BY DEF ExpectationsAttributed
    <3> QED
      BY <1>1, <2>1, <3>1 DEF UpdatesCarryExpectations
  <2>2. CASE Submit(q)
    <3>1. PICK op \in Ops, r \in Records, who \in Callers :
            \E read \in ClientReads(op, r) :
               call' = [call EXCEPT ![q] =
                             [op |-> op, rec |-> r, caller |-> who,
                              expected |-> read.expected, base |-> read.base]]
      BY <2>2 DEF Submit
    <3>2. PICK read \in ClientReads(op, r) :
               call'[q] = [op |-> op, rec |-> r, caller |-> who,
                           expected |-> read.expected, base |-> read.base]
      BY <3>1 DEF TypeOK
    <3>3. /\ read.expected # 0 => Named(read.expected, read.base)
          /\ ~BareUpdates /\ op = "update" => read.expected # 0
      BY ClientReadsAttributed
    <3>4. read.expected # 0 => Stays(read.expected, read.base)
      BY <1>1, <3>3
    <3> HIDE DEF Stays, Named
    <3> QED
      BY <3>2, <3>3, <3>4
  <2>3. ASSUME NEW p \in Requests, Submit(p), p # q PROVE call'[q] = call[q]
    BY <2>3 DEF Submit, TypeOK
  <2>4. ASSUME NEW p \in Requests, Step(p), ~Submit(p) PROVE call'[q] = call[q]
    BY <2>4 DEF Step, GetCollection, GetRow, Stamp, Refuse, PutInsert, PutUpdate,
                SoftDelete, HardDelete, WriteRow, ConditionFails, BumpCount,
                Audit, Crash
  <2>5. ~(\E p \in Requests : Step(p)) => call'[q] = call[q]
    BY DEF Next, vars, CreateCollection, Replicate
  <2> QED
    BY <2>1, <2>2, <2>3, <2>4, <2>5
<1>3. ExpectationsAttributed'
  BY <1>2 DEF ExpectationsAttributed, Written
<1>4. UpdatesCarryExpectations'
  BY <1>2 DEF UpdatesCarryExpectations
<1> QED
  BY <1>3, <1>4

\* Every version of a row names the request that wrote it, as long as no two
\* handlers read the same millisecond.
THEOREM EveryVersionNamesItsWriter ==
    ASSUME ~CoarseClock PROVE Spec => [](TypeOK /\ VersionsNameTheirWriter)
<1>1. Init => VersionsNameTheirWriter
  BY DEF Init, VersionsNameTheirWriter, RowsAttributed, Attributed, Absent,
         StampsUnique, SnapsAttributed, ExpectationsAttributed,
         UpdatesCarryExpectations, NoCall
<1>2. TypeOK /\ VersionsNameTheirWriter /\ [Next]_vars => VersionsNameTheirWriter'
  BY RowsAttributedStep, StampsUniqueStep, SnapsAttributedStep, ExpectationsStep
     DEF VersionsNameTheirWriter
<1>3. Spec => []TypeOK
  BY TypeCorrect
<1> QED
  BY <1>1, <1>2, <1>3, PTL DEF Spec
-----------------------------------------------------------------------------
\* A conditional write finds the very content that its client and its handler
\* had read: equal stamps mean equal writers.
LEMMA ConditionComparesContents ==
    ASSUME TypeOK, VersionsNameTheirWriter, NEW q \in Requests,
           pc[q] = "put", call[q].op = "update", call[q].expected # 0,
           UpdateCondition(q)
    PROVE  LET row == rows[call[q].rec] IN
           Visible(row) /\ row.payload = call[q].base
                        /\ row.payload = snap[q].payload
<1> DEFINE r == call[q].rec
<1>1. /\ r \in Records /\ rows[r] \in Row /\ snap[q] \in Row
      /\ call[q].expected \in Nat
  BY DEF TypeOK, Call
<1>2. rows[r].exists /\ rows[r].modified_at = call[q].expected
  BY DEF UpdateCondition
<1>3. PICK w \in Requests : WrittenBy(rows[r], r, w)
  BY <1>1, <1>2 DEF VersionsNameTheirWriter, RowsAttributed, Attributed
<1>4. /\ Visible(snap[q]) /\ Attributed(snap[q], r)
      /\ snap[q].modified_at = call[q].expected
  BY DEF VersionsNameTheirWriter, SnapsAttributed
<1>5. PICK g \in Requests : WrittenBy(snap[q], r, g)
  BY <1>4 DEF Attributed, Visible
<1>6. PICK b \in Requests : /\ now[b] = call[q].expected /\ now[b] > 0
                            /\ call[q].base = Written(b)
  BY DEF VersionsNameTheirWriter, ExpectationsAttributed
<1>7. g = w /\ b = w
  BY <1>2, <1>3, <1>4, <1>5, <1>6
     DEF WrittenBy, VersionsNameTheirWriter, StampsUnique
<1> QED
  BY <1>1, <1>2, <1>3, <1>4, <1>5, <1>6, <1>7 DEF WrittenBy, Visible, Row

\* Optimistic locking works: an update sent with expected_modified_at replaces
\* the content its client had read.
THEOREM OptimisticLocking ==
    ASSUME ~CoarseClock PROVE Spec => UpdateReplacesWhatWasRead
<1>1. ASSUME TypeOK, VersionsNameTheirWriter, [Next]_vars,
             NEW q \in Requests, CasWrites(q)
      PROVE  UpdateCondition(q)
  <2>1. pc[q] = "put" /\ pc'[q] = "bump" /\ call[q].op = "update"
    BY <1>1 DEF CasWrites
  <2>2. ASSUME NEW p \in Requests, Step(p), p # q PROVE pc'[q] = pc[q]
    BY <1>1, <2>2 DEF Step, Submit, GetCollection, GetRow, Stamp, Refuse, PutInsert,
                PutUpdate, SoftDelete, HardDelete, WriteRow, ConditionFails,
                BumpCount, Audit, Crash, Answer, Advance, TypeOK
  <2>3. Step(q)
    BY <1>1, <2>1, <2>2 DEF Next, vars, CreateCollection, Replicate
  <2>4. PutUpdate(q) \/ Crash(q)
    BY <2>1, <2>3 DEF Step, Submit, GetCollection, GetRow, Stamp, Refuse,
              PutInsert, SoftDelete, HardDelete, BumpCount, Audit, Advance
  <2>5. ~Crash(q)
    BY <1>1, <2>1 DEF Crash, Answer, TypeOK
  <2>6. \A result : ~ConditionFails(q, result)
    BY <1>1, <2>1 DEF ConditionFails, Answer, TypeOK
  <2> QED
    BY <2>4, <2>5, <2>6 DEF PutUpdate
<1>2. TypeOK /\ VersionsNameTheirWriter /\ [Next]_vars =>
        [\A q \in Requests : CasWrites(q) =>
          LET row == rows[call[q].rec] IN
          Visible(row) /\ row.payload = call[q].base
                       /\ row.payload = snap[q].payload]_vars
  BY <1>1, ConditionComparesContents DEF CasWrites
<1>3. Spec => [](TypeOK /\ VersionsNameTheirWriter)
  BY EveryVersionNamesItsWriter
<1> QED
  BY <1>2, <1>3, PTL DEF Spec, UpdateReplacesWhatWasRead
-----------------------------------------------------------------------------
\* The version that request q writes.
Version(q, deleted) == [exists |-> TRUE, deleted |-> deleted,
                        payload |-> Written(q), modified_at |-> now[q]]

\* What the write of q does to the table, and under which condition.
Effect(q) ==
    LET r == call[q].rec IN
    \/ /\ call[q].op = "insert" /\ ~rows[r].exists
       /\ rows' = [rows EXCEPT ![r] = Version(q, FALSE)]
    \/ /\ call[q].op = "update" /\ UpdateCondition(q)
       /\ rows' = [rows EXCEPT ![r] = Version(q, snap[q].deleted)]
    \/ /\ call[q].op = "delete"
       /\ rows' = [rows EXCEPT ![r] = Version(q, TRUE)]
    \/ /\ call[q].op = "hard_delete"
       /\ rows' = [rows EXCEPT ![r] = Absent]

\* A step changes the table only by the write of one request.
LEMMA Writes ==
    ASSUME TypeOK, [Next]_vars
    PROVE  \/ UNCHANGED <<rows, committed>>
           \/ \E q \in Requests : /\ pc[q] = "put"
                                  /\ committed' = committed \cup {q}
                                  /\ Effect(q)
<1>1. CASE UNCHANGED vars
  BY <1>1 DEF vars
<1>2. CASE CreateCollection \/ \E r \in Records : Replicate(r)
  BY <1>2 DEF CreateCollection, Replicate
<1>3. ASSUME NEW q \in Requests, Step(q)
      PROVE  \/ UNCHANGED <<rows, committed>>
             \/ pc[q] = "put" /\ committed' = committed \cup {q} /\ Effect(q)
  <2>1. CASE \/ Submit(q) \/ GetCollection(q) \/ GetRow(q) \/ Stamp(q)
             \/ Refuse(q) \/ BumpCount(q) \/ Audit(q) \/ Crash(q)
    BY <2>1 DEF Submit, GetCollection, GetRow, Stamp, Refuse, BumpCount,
                Audit, Crash
  <2>2. CASE PutInsert(q)
    BY <2>2 DEF PutInsert, WriteRow, ConditionFails, Advance, Effect, Version
  <2>3. CASE PutUpdate(q)
    BY <2>3 DEF PutUpdate, WriteRow, ConditionFails, Advance, Effect, Version
  <2>4. CASE SoftDelete(q)
    BY <2>4 DEF SoftDelete, WriteRow, Advance, Effect, Version
  <2>5. CASE HardDelete(q)
    BY <2>5 DEF HardDelete, WriteRow, Advance, Effect
  <2> QED
    BY <1>3, <2>1, <2>2, <2>3, <2>4, <2>5 DEF Step
<1> QED
  BY <1>1, <1>2, <1>3 DEF Next

\* A tombstone comes back by an update without expected_modified_at only: no
\* interleaving of inserts, deletes, erasures and updates that lock revives it.
THEOREM TombstonesStay ==
    ASSUME ~CoarseClock PROVE Spec => OnlyBareUpdatesRevive
<1>1. ASSUME TypeOK, VersionsNameTheirWriter, [Next]_vars,
             NEW r \in Records, rows[r].exists, rows[r].deleted, Visible(rows'[r])
      PROVE  \E q \in Requests :
                 /\ pc[q] = "put" /\ q \in committed'
                 /\ call[q].op = "update" /\ call[q].rec = r
                 /\ call[q].expected = 0 /\ Visible(snap[q])
  <2>1. rows' # rows
    BY <1>1 DEF Visible
  <2>2. PICK q \in Requests : pc[q] = "put" /\ committed' = committed \cup {q} /\ Effect(q)
    BY <1>1, <2>1, Writes
  <2>3. call[q].rec \in Records
    BY <1>1 DEF TypeOK, Call
  <2>4. r = call[q].rec
    BY <1>1, <2>2, <2>3 DEF Effect, Visible, TypeOK
  <2>5. call[q].op = "update"
    BY <1>1, <2>2, <2>3, <2>4 DEF Effect, Version, Visible, Absent, TypeOK
  <2>6. UpdateCondition(q)
    BY <2>2, <2>5 DEF Effect
  <2>7. call[q].expected = 0
    <3>1. call[q].expected # 0 => Visible(rows[r])
      BY <1>1, <2>2, <2>4, <2>5, <2>6, ConditionComparesContents
    <3> QED
      BY <1>1, <3>1 DEF Visible
  <2>8. Visible(snap[q])
    BY <1>1, <2>2, <2>5 DEF VersionsNameTheirWriter, SnapsAttributed
  <2> QED
    BY <2>2, <2>4, <2>5, <2>7, <2>8
<1>2. TypeOK /\ VersionsNameTheirWriter /\ [Next]_vars =>
        [\A r \in Records :
            rows[r].exists /\ rows[r].deleted /\ Visible(rows'[r]) =>
              \E q \in Requests :
                  /\ pc[q] = "put" /\ q \in committed'
                  /\ call[q].op = "update" /\ call[q].rec = r
                  /\ call[q].expected = 0 /\ Visible(snap[q])]_vars
  BY <1>1
<1>3. Spec => [](TypeOK /\ VersionsNameTheirWriter)
  BY EveryVersionNamesItsWriter
<1> QED
  BY <1>2, <1>3, PTL DEF Spec, OnlyBareUpdatesRevive
-----------------------------------------------------------------------------
\* How far a request has come tells what it has done, and a request that is
\* under way has passed requireScope.
ProgressTells ==
    \A q \in Requests :
        /\ pc[q] \in {"idle", "get", "stamp", "put"} => q \notin committed
        /\ pc[q] \in {"bump", "audit"} => q \in committed
        /\ pc[q] # "done" => outcome[q] = "none"
        /\ pc[q] \notin {"idle", "done"} => Granted(call[q].caller, Needs(call[q].op))

\* Every step of a handler keeps its place, its commitment and its answer in line.
LEMMA ProgressStep ==
    ASSUME TypeOK, ProgressTells, AnswersTellTheTruth, [Next]_vars
    PROVE  ProgressTells' /\ AnswersTellTheTruth'
<1> USE DEF TypeOK, ProgressTells, AnswersTellTheTruth, Rejections
<1>1. CASE UNCHANGED vars
  BY <1>1 DEF vars
<1>2. CASE CreateCollection \/ \E r \in Records : Replicate(r)
  BY <1>2 DEF CreateCollection, Replicate
<1>3. ASSUME NEW q \in Requests, Step(q)
      PROVE  ProgressTells' /\ AnswersTellTheTruth'
  <2>1. CASE Submit(q)
    <3>1. PICK op \in Ops, who \in Callers :
            /\ call'[q].op = op /\ call'[q].caller = who
            /\ \/ Granted(who, Needs(op)) /\ pc' = [pc EXCEPT ![q] = "get"]
                  /\ UNCHANGED outcome
               \/ Answer(q, "forbidden")
      BY <2>1 DEF Submit
    <3>2. /\ UNCHANGED <<gamma, committed>> /\ pc[q] = "idle"
          /\ \A p \in Requests \ {q} : call'[p] = call[p]
      BY <2>1 DEF Submit
    <3> QED
      BY <3>1, <3>2 DEF Answer
  <2>2. CASE GetCollection(q)
    BY <2>2 DEF GetCollection, Advance, Answer
  <2>3. CASE GetRow(q)
    BY <2>3 DEF GetRow, Answer
  <2>4. CASE Stamp(q)
    BY <2>4 DEF Stamp, Advance
  <2>5. CASE Refuse(q)
    BY <2>5 DEF Refuse, Answer
  <2>6. ASSUME NEW row, WriteRow(q, row)
        PROVE  ProgressTells' /\ AnswersTellTheTruth'
    BY <2>6 DEF WriteRow, Advance
  <2>7. ASSUME NEW result \in Rejections, ConditionFails(q, result)
        PROVE  ProgressTells' /\ AnswersTellTheTruth'
    BY <2>7 DEF ConditionFails, Answer
  <2>8. CASE PutInsert(q)
    BY <2>6, <2>7, <2>8 DEF PutInsert
  <2>9. CASE PutUpdate(q)
    BY <2>6, <2>7, <2>9 DEF PutUpdate
  <2>10. CASE SoftDelete(q)
    BY <2>6, <2>10 DEF SoftDelete
  <2>11. CASE HardDelete(q)
    BY <2>6, <2>11 DEF HardDelete
  <2>12. CASE BumpCount(q)
    BY <2>12 DEF BumpCount, Advance
  <2>13. CASE Audit(q)
    BY <2>13 DEF Audit, Answer
  <2>14. CASE Crash(q)
    BY <2>14 DEF Crash, Answer
  <2> QED
    BY <1>3, <2>1, <2>2, <2>3, <2>4, <2>5, <2>8, <2>9, <2>10, <2>11, <2>12,
       <2>13, <2>14 DEF Step
<1> QED
  BY <1>1, <1>2, <1>3 DEF Next

\* Throughout, what a handler has done and answered follows from where it is.
LEMMA Progress == Spec => [](TypeOK /\ ProgressTells /\ AnswersTellTheTruth)
<1>1. Init => ProgressTells /\ AnswersTellTheTruth
  BY DEF Init, ProgressTells, AnswersTellTheTruth, Rejections
<1>2. Spec => []TypeOK
  BY TypeCorrect
<1> QED
  BY <1>1, <1>2, ProgressStep, PTL DEF Spec

\* Answers are true: success means a write and its audit entry, a refusal
\* means neither, and the log speaks of no write that did not happen.
THEOREM AnswersAreTrue == Spec => []AnswersTellTheTruth
BY Progress, PTL

\* A delegate that may only append changes no record that is there.
THEOREM AppendOnly == Spec => AppendNeverOverwrites
<1>1. ASSUME TypeOK, ProgressTells, [Next]_vars, NEW q \in Requests,
             call[q].caller = "append", q \in committed' \ committed
      PROVE  ~rows[call[q].rec].exists
  <2>1. PICK p \in Requests : /\ pc[p] = "put"
                              /\ committed' = committed \cup {p}
                              /\ Effect(p)
    BY <1>1, Writes
  <2>2. p = q
    BY <1>1, <2>1
  <2>3. Granted("append", Needs(call[q].op))
    BY <1>1, <2>1, <2>2 DEF ProgressTells
  <2>4. call[q].op = "insert"
    BY <2>3 DEF Granted, Needs
  <2> QED
    BY <2>1, <2>2, <2>4 DEF Effect
<1>2. TypeOK /\ ProgressTells /\ [Next]_vars =>
        [\A q \in Requests :
          call[q].caller = "append" /\ q \in committed' \ committed
             => ~rows[call[q].rec].exists]_vars
  BY <1>1
<1> QED
  BY <1>2, Progress, PTL DEF Spec, AppendNeverOverwrites
-----------------------------------------------------------------------------
\* Without hard deletes a row stays, and so does a row that somebody has seen.
RowsStay ==
    /\ \A q \in Requests : call[q].op # "hard_delete"
    /\ \A r \in Records : replica[r].exists => rows[r].exists
    /\ \A q \in Requests : pc[q] \in {"stamp", "put"} /\ call[q].op # "insert"
                              => rows[call[q].rec].exists

\* Where nothing is hard-deleted, no step of a handler removes a row that is there.
LEMMA RowsStayStep ==
    ASSUME TypeOK, RowsStay, "hard_delete" \notin Ops, [Next]_vars
    PROVE  RowsStay' /\ \A r \in Records : rows[r].exists => rows'[r].exists
<1>1. ASSUME NEW r \in Records, rows[r].exists PROVE rows'[r].exists
  <2>1. ASSUME NEW q \in Requests, Effect(q) PROVE rows'[r].exists
    BY <1>1, <2>1 DEF Effect, Version, RowsStay, TypeOK
  <2> QED
    BY <1>1, <2>1, Writes
<1>2. ASSUME NEW q \in Requests PROVE call'[q].op # "hard_delete"
  <2>1. ASSUME NEW p \in Requests, Submit(p) PROVE call'[q].op # "hard_delete"
    BY <2>1 DEF Submit, RowsStay, TypeOK
  <2>2. ASSUME NEW p \in Requests, Step(p), ~Submit(p) PROVE call' = call
    BY <2>2 DEF Step, GetCollection, GetRow, Stamp, Refuse, PutInsert, PutUpdate,
                SoftDelete, HardDelete, WriteRow, ConditionFails, BumpCount,
                Audit, Crash
  <2>3. ~(\E p \in Requests : Step(p)) => call' = call
    BY DEF Next, vars, CreateCollection, Replicate
  <2> QED
    BY <2>1, <2>2, <2>3 DEF RowsStay
<1>3. ASSUME NEW r \in Records, replica'[r].exists PROVE rows'[r].exists
  <2>1. replica'[r] \in {replica[r], rows[r]}
    BY DEF Next, vars, CreateCollection, Replicate, Step, Submit, GetCollection,
           GetRow, Stamp, Refuse, PutInsert, PutUpdate, SoftDelete, HardDelete,
           WriteRow, ConditionFails, BumpCount, Audit, Crash, TypeOK
  <2> QED
    BY <1>1, <1>3, <2>1 DEF RowsStay
<1>4. ASSUME NEW q \in Requests, pc'[q] \in {"stamp", "put"},
             call'[q].op # "insert"
      PROVE  rows'[call'[q].rec].exists
  <2>1. call'[q].rec \in Records /\ call[q].rec \in Records
    BY TypeStep DEF TypeOK, Call
  <2>2. CASE pc[q] \in {"stamp", "put"} /\ call'[q] = call[q]
    BY <1>1, <1>4, <2>1, <2>2 DEF RowsStay
  <2>3. CASE GetRow(q)
    <3>1. \E row \in Readable(call[q].rec) : Visible(row)
      BY <1>4, <2>3 DEF GetRow, Answer, TypeOK
    <3>2. rows[call[q].rec].exists
      BY <2>1, <3>1 DEF Readable, Visible, RowsStay
    <3> QED
      BY <2>1, <2>3, <3>2 DEF GetRow
  <2>4. CASE Step(q) /\ ~GetRow(q)
    <3>1. pc[q] \in {"stamp", "put"} /\ call' = call
      BY <1>4, <2>4 DEF Step, Submit, GetCollection, Stamp, Refuse, PutInsert,
                PutUpdate, SoftDelete, HardDelete, WriteRow, ConditionFails,
                BumpCount, Audit, Crash, Answer, Advance, TypeOK
    <3> QED
      BY <2>2, <3>1
  <2>5. ASSUME NEW p \in Requests, Step(p), p # q
        PROVE  pc'[q] = pc[q] /\ call'[q] = call[q]
    BY <2>5 DEF Step, Submit, GetCollection, GetRow, Stamp, Refuse, PutInsert,
                PutUpdate, SoftDelete, HardDelete, WriteRow, ConditionFails,
                BumpCount, Audit, Crash, Answer, Advance, TypeOK
  <2>6. ~(\E p \in Requests : Step(p)) => UNCHANGED <<pc, call>>
    BY DEF Next, vars, CreateCollection, Replicate
  <2> QED
    BY <1>4, <2>2, <2>3, <2>4, <2>5, <2>6
<1> QED
  BY <1>1, <1>2, <1>3, <1>4 DEF RowsStay

\* As long as no two handlers read the same millisecond, the store is the atomic
\* register of RecordLifecycle, with or without bare updates and hard deletes.
THEOREM StoreImplementsLifecycle ==
    ASSUME ~CoarseClock PROVE Spec => ImplementsLifecycle
<1> DEFINE RowsHeld == "hard_delete" \notin Ops => RowsStay
<1> DEFINE life == [r \in Records |-> LifeOf(rows[r])]
           content == [r \in Records |-> rows[r].payload]
<1>1. Init => Lifecycle!Init
  BY DEF Init, Lifecycle!Init, LifeOf, Absent
<1>2. ASSUME TypeOK, VersionsNameTheirWriter, RowsHeld, [Next]_vars
      PROVE  [Lifecycle!Next]_<<life, content>>
  <2>1. CASE rows' = rows
    BY <2>1
  <2>2. ASSUME NEW q \in Requests, pc[q] = "put", Effect(q)
        PROVE  [Lifecycle!Next]_<<life, content>>
    <3>1. PICK r \in Records : r = call[q].rec /\ rows[r] \in Row
      BY <1>2 DEF TypeOK, Call
    <3>2. ASSUME NEW row, rows' = [rows EXCEPT ![r] = row]
          PROVE  Lifecycle!Become(r, LifeOf(row), row.payload)
      BY <1>2, <3>1, <3>2 DEF Lifecycle!Become, TypeOK
    <3>3. CASE call[q].op = "insert"
      <4>1. rows' = [rows EXCEPT ![r] = Version(q, FALSE)] /\ ~rows[r].exists
        BY <2>2, <3>1, <3>3 DEF Effect
      <4>2. /\ LifeOf(Version(q, FALSE)) = "ACTIVE"
            /\ Version(q, FALSE).payload = q
        BY <3>3 DEF LifeOf, Version, Written
      <4>3. Lifecycle!Become(r, "ACTIVE", q)
        BY <3>2, <4>1, <4>2
      <4>4. Lifecycle!Insert(r)
        BY <3>1, <4>1, <4>3 DEF Lifecycle!Insert, LifeOf
      <4> QED
        BY <3>1, <4>4 DEF Lifecycle!Next
    <3>4. CASE call[q].op = "update"
      <4>1. /\ rows' = [rows EXCEPT ![r] = Version(q, snap[q].deleted)]
            /\ UpdateCondition(q)
        BY <2>2, <3>1, <3>4 DEF Effect
      <4>2. rows[r].exists
        BY <3>1, <4>1 DEF UpdateCondition
      <4>3. ~snap[q].deleted
        BY <1>2, <2>2, <3>4 DEF VersionsNameTheirWriter, SnapsAttributed, Visible
      <4>4. /\ LifeOf(Version(q, snap[q].deleted)) = "ACTIVE"
            /\ Version(q, snap[q].deleted).payload = q
        BY <3>4, <4>3 DEF LifeOf, Version, Written
      <4>5. Lifecycle!Become(r, "ACTIVE", q)
        BY <3>2, <4>1, <4>4
      <4>6. CASE ~rows[r].deleted
        <5>1. Lifecycle!Update(r)
          BY <3>1, <4>2, <4>5, <4>6 DEF Lifecycle!Update, LifeOf
        <5> QED
          BY <3>1, <5>1 DEF Lifecycle!Next
      <4>7. CASE rows[r].deleted
        <5>1. call[q].expected = 0
          <6>1. call[q].expected # 0 => Visible(rows[r])
            BY <1>2, <2>2, <3>1, <3>4, <4>1, ConditionComparesContents
          <6> QED
            BY <4>7, <6>1 DEF Visible
        <5>2. BareUpdates
          BY <1>2, <3>4, <5>1, FlagsAssumption
             DEF VersionsNameTheirWriter, UpdatesCarryExpectations
        <5>3. Lifecycle!Revive(r)
          BY <3>1, <4>2, <4>5, <4>7, <5>2 DEF Lifecycle!Revive, LifeOf
        <5> QED
          BY <3>1, <5>3 DEF Lifecycle!Next
      <4> QED
        BY <4>6, <4>7
    <3>5. CASE call[q].op = "delete"
      <4>1. rows' = [rows EXCEPT ![r] = Version(q, TRUE)]
        BY <2>2, <3>1, <3>5 DEF Effect
      <4>2. /\ LifeOf(Version(q, TRUE)) = "SOFT_DELETED"
            /\ Version(q, TRUE).payload = Wiped
        BY <3>5 DEF LifeOf, Version, Written
      <4>3. Lifecycle!Become(r, "SOFT_DELETED", Wiped)
        BY <3>2, <4>1, <4>2
      <4>4. CASE ~(rows[r].exists /\ rows[r].deleted)
        <5>0. rows[r].exists \/ "hard_delete" \in Ops
          BY <1>2, <2>2, <3>1, <3>5 DEF RowsStay
        <5>1. Lifecycle!Delete(r)
          BY <3>1, <4>1, <4>3, <4>4, <5>0 DEF Lifecycle!Delete, LifeOf
        <5> QED
          BY <3>1, <5>1 DEF Lifecycle!Next
      <4>5. CASE rows[r].exists /\ rows[r].deleted
        <5>1. PICK w \in Requests : WrittenBy(rows[r], r, w)
          BY <1>2, <3>1, <4>5 DEF VersionsNameTheirWriter, RowsAttributed, Attributed
        <5>2. rows[r].payload = Wiped /\ LifeOf(rows[r]) = "SOFT_DELETED"
          BY <4>5, <5>1 DEF WrittenBy, Written, LifeOf
        <5>3. \A s \in Records : /\ LifeOf(rows'[s]) = LifeOf(rows[s])
                                /\ rows'[s].payload = rows[s].payload
          BY <1>2, <3>1, <4>1, <4>2, <5>2 DEF TypeOK
        <5>4. life' = life /\ content' = content
          BY <5>3
        <5> QED
          BY <5>4
      <4> QED
        BY <4>4, <4>5
    <3>6. CASE call[q].op = "hard_delete"
      <4>1. rows' = [rows EXCEPT ![r] = Absent] /\ "hard_delete" \in Ops
        BY <1>2, <2>2, <3>1, <3>6 DEF Effect, RowsStay
      <4>2. Lifecycle!Become(r, "NONE", Wiped)
        <5>1. LifeOf(Absent) = "NONE" /\ Absent.payload = Wiped
          BY DEF LifeOf, Absent
        <5> QED
          BY <3>2, <4>1, <5>1
      <4>3. Lifecycle!Erase(r)
        BY <4>1, <4>2 DEF Lifecycle!Erase
      <4> QED
        BY <3>1, <4>3 DEF Lifecycle!Next
    <3> QED
      BY <1>2, <3>1, <3>3, <3>4, <3>5, <3>6 DEF TypeOK, Call, AllOps
  <2> QED
    BY <1>2, <2>1, <2>2, Writes
<1>3. Init => RowsHeld
  BY DEF Init, RowsStay, Absent, NoCall
<1>4. TypeOK /\ RowsHeld /\ [Next]_vars => RowsHeld'
  BY RowsStayStep
<1>5. Spec => [](TypeOK /\ VersionsNameTheirWriter)
  BY EveryVersionNamesItsWriter
<1> HIDE DEF RowsHeld
<1> QED
  BY <1>1, <1>2, <1>3, <1>4, <1>5, PTL DEF Spec, ImplementsLifecycle, Lifecycle!Spec

-----------------------------------------------------------------------------
(* The books of the collection *)

Of(r, op) == {q \in committed : call[q].rec = r /\ call[q].op = op}

\* A record that is there has been created once more than it was erased, at most.
ErasuresHold ==
    /\ IsFiniteSet(committed)
    /\ \A r \in Records :
          Cardinality(Of(r, "insert"))
              <= Cardinality(Of(r, "hard_delete")) + (IF rows[r].exists THEN 1 ELSE 0)

\* The visible records, the deletes that are not counted, the inserts that are counted
\* twice, and those whose increment is still to come.
VisibleNow == {r \in Records : Visible(rows[r])}
Uncounted == {q \in committed \ counted : call[q].op \in {"delete", "hard_delete"}}
Repeated == {q \in repeated : call[q].op = "insert"}
Coming == {q \in committed \ counted : call[q].op = "insert" /\ pc[q] = "bump"}

\* Nothing is counted before its bump, an update shows what it writes, and where there
\* is no collection there is nothing to count.
BooksTell ==
    \A q \in Requests :
        /\ pc[q] \in {"idle", "get", "stamp", "put", "bump"} => q \notin counted
        /\ pc[q] \in {"stamp", "put"} /\ call[q].op = "update" => ~snap[q].deleted
        /\ ~collection.exists => pc[q] \in {"idle", "get", "done"}

NothingBefore ==
    ~collection.exists =>
        /\ collection.record_count = 0
        /\ committed = {}
        /\ \A r \in Records : ~Visible(rows[r]) /\ ~Visible(replica[r])

CountHolds ==
    /\ IsFiniteSet(VisibleNow)
    /\ repeated \subseteq counted /\ counted \subseteq committed
    /\ collection.record_count + Cardinality(Coming)
           <= Cardinality(VisibleNow) + Cardinality(Uncounted) + Cardinality(Repeated)

BooksInv == ErasuresHold /\ BooksTell /\ NothingBefore /\ CountHolds

\* What was sent stays what it was.
LEMMA CommittedCallsStay ==
    ASSUME TypeOK, ProgressTells, [Next]_vars, NEW q \in Requests, pc[q] # "idle"
    PROVE  call'[q] = call[q]
<1>1. ASSUME NEW p \in Requests, Submit(p) PROVE call'[q] = call[q]
  <2>1. pc[p] = "idle" /\ \E c : call' = [call EXCEPT ![p] = c]
    BY <1>1 DEF Submit
  <2>2. QED
    BY <2>1 DEF TypeOK
<1>2. ASSUME NEW p \in Requests, Step(p), ~Submit(p) PROVE call' = call
  BY <1>2 DEF Step, GetCollection, GetRow, Stamp, Refuse, PutInsert, PutUpdate,
              SoftDelete, HardDelete, WriteRow, ConditionFails, BumpCount, Audit, Crash
<1>3. QED
  BY <1>1, <1>2 DEF Next, CreateCollection, Replicate, vars

\* A write is of one request, which is on its way to the count then.
LEMMA WriteIs ==
    ASSUME TypeOK, ProgressTells, [Next]_vars
    PROVE  \/ UNCHANGED <<rows, committed>>
           \/ \E q \in Requests :
                 /\ pc[q] = "put" /\ q \notin committed /\ Effect(q)
                 /\ committed' = committed \cup {q}
                 /\ pc' = [pc EXCEPT ![q] = "bump"]
                 /\ UNCHANGED <<collection, counted, repeated, call>>
<1>1. ASSUME NEW q \in Requests, NEW row, WriteRow(q, row)
      PROVE  /\ pc[q] = "put" /\ q \notin committed
             /\ committed' = committed \cup {q}
             /\ pc' = [pc EXCEPT ![q] = "bump"]
             /\ UNCHANGED <<collection, counted, repeated, call>>
             /\ rows' = [rows EXCEPT ![call[q].rec] = row]
  BY <1>1 DEF WriteRow, Advance, ProgressTells
<1>2. ASSUME NEW q \in Requests, PutInsert(q) \/ PutUpdate(q) \/ SoftDelete(q) \/ HardDelete(q)
      PROVE  \/ UNCHANGED <<rows, committed>>
             \/ Effect(q) /\ \E row : WriteRow(q, row)
  <2>1. CASE PutInsert(q)
    BY <2>1 DEF PutInsert, WriteRow, ConditionFails, Effect, Version
  <2>2. CASE PutUpdate(q)
    BY <2>2 DEF PutUpdate, WriteRow, ConditionFails, Effect, Version
  <2>3. CASE SoftDelete(q)
    BY <2>3 DEF SoftDelete, WriteRow, Effect, Version
  <2>4. CASE HardDelete(q)
    BY <2>4 DEF HardDelete, WriteRow, Effect
  <2>5. QED
    BY <1>2, <2>1, <2>2, <2>3, <2>4
<1>3. ASSUME NEW q \in Requests,
             \/ Submit(q) \/ GetCollection(q) \/ GetRow(q) \/ Stamp(q)
             \/ Refuse(q) \/ BumpCount(q) \/ Audit(q) \/ Crash(q)
      PROVE  UNCHANGED <<rows, committed>>
  BY <1>3 DEF Submit, GetCollection, GetRow, Stamp, Refuse, BumpCount, Audit, Crash
<1>4. CASE UNCHANGED vars \/ CreateCollection \/ \E r \in Records : Replicate(r)
  BY <1>4 DEF vars, CreateCollection, Replicate
<1>5. ASSUME NEW q \in Requests, Step(q)
      PROVE  \/ UNCHANGED <<rows, committed>>
             \/ Effect(q) /\ \E row : WriteRow(q, row)
  BY <1>2, <1>3, <1>5 DEF Step
<1>6. QED
  BY <1>1, <1>4, <1>5 DEF Next

LEMMA NextKeepsErasures ==
    ASSUME TypeOK, ProgressTells, ErasuresHold, [Next]_vars
    PROVE  ErasuresHold'
<1>1. \A q \in committed : call'[q] = call[q] /\ q \in Requests
  BY CommittedCallsStay DEF ProgressTells, TypeOK
<1>2. CASE UNCHANGED <<rows, committed>>
  <2>1. \A r \in Records : /\ Of(r, "insert")' = Of(r, "insert")
                           /\ Of(r, "hard_delete")' = Of(r, "hard_delete")
    BY <1>1, <1>2 DEF Of
  <2>2. QED
    BY <1>2, <2>1 DEF ErasuresHold
<1>3. ASSUME NEW q \in Requests, q \notin committed, Effect(q),
             committed' = committed \cup {q}, UNCHANGED call
      PROVE  ErasuresHold'
  <2>1. IsFiniteSet(committed')
    BY <1>3, FS_AddElement DEF ErasuresHold
  <2>2. ASSUME NEW r \in Records, NEW op
        PROVE  /\ IsFiniteSet(Of(r, op)) /\ Cardinality(Of(r, op)) \in Nat
               /\ Cardinality(Of(r, op)') =
                     Cardinality(Of(r, op))
                         + (IF call[q].rec = r /\ call[q].op = op THEN 1 ELSE 0)
    <3>1. Of(r, op) \in SUBSET committed
      BY DEF Of
    <3>2. IsFiniteSet(Of(r, op)) /\ Cardinality(Of(r, op)) \in Nat
      BY <3>1, FS_Subset, FS_CardinalityType DEF ErasuresHold
    <3>3. CASE call[q].rec = r /\ call[q].op = op
      <4>1. Of(r, op)' = Of(r, op) \cup {q} /\ q \notin Of(r, op)
        BY <1>3, <3>3 DEF Of
      <4>2. QED
        BY <3>2, <3>3, <4>1, FS_AddElement
    <3>4. CASE ~(call[q].rec = r /\ call[q].op = op)
      <4>1. Of(r, op)' = Of(r, op)
        BY <1>3, <3>4 DEF Of
      <4>2. QED
        BY <3>2, <3>4, <4>1
    <3>5. QED
      BY <3>3, <3>4
  <2>3. ASSUME NEW r \in Records
        PROVE  Cardinality(Of(r, "insert")')
                 <= Cardinality(Of(r, "hard_delete")') + (IF rows'[r].exists THEN 1 ELSE 0)
    <3>1. Cardinality(Of(r, "insert"))
            <= Cardinality(Of(r, "hard_delete")) + (IF rows[r].exists THEN 1 ELSE 0)
      BY DEF ErasuresHold
    <3>2. CASE call[q].rec # r
      <4>1. rows'[r] = rows[r]
        BY <1>3, <3>2 DEF Effect, TypeOK
      <4>2. QED
        BY <2>2, <3>1, <3>2, <4>1
    <3>3. CASE call[q].rec = r /\ call[q].op = "hard_delete"
      BY <2>2, <3>1, <3>3
    <3>4. CASE call[q].rec = r /\ call[q].op = "insert"
      <4>1. ~rows[r].exists /\ rows'[r].exists
        BY <1>3, <3>4 DEF Effect, Version, TypeOK
      <4>2. QED
        BY <2>2, <3>1, <3>4, <4>1
    <3>5. CASE call[q].rec = r /\ call[q].op \in {"update", "delete"}
      <4>1. rows'[r].exists
        BY <1>3, <3>5 DEF Effect, Version, TypeOK
      <4>2. QED
        BY <2>2, <3>1, <3>5, <4>1
    <3>6. QED
      BY <1>3, <3>2, <3>3, <3>4, <3>5 DEF Effect
  <2>4. QED
    BY <2>1, <2>3 DEF ErasuresHold
<1>4. QED
  BY <1>2, <1>3, WriteIs

\* Where a request goes next, and what it takes along.
LEMMA NextKeepsBooksTell ==
    ASSUME TypeOK, ProgressTells, BooksTell, NothingBefore, [Next]_vars
    PROVE  BooksTell'
<1> DEFINE Tells(q) ==
      /\ pc[q] \in {"idle", "get", "stamp", "put", "bump"} => q \notin counted
      /\ pc[q] \in {"stamp", "put"} /\ call[q].op = "update" => ~snap[q].deleted
      /\ ~collection.exists => pc[q] \in {"idle", "get", "done"}
<1>1. \A q \in Requests : Tells(q)
  BY DEF BooksTell
<1>2. CASE UNCHANGED vars \/ CreateCollection \/ \E r \in Records : Replicate(r)
  BY <1>2 DEF vars, CreateCollection, Replicate, BooksTell
<1>3. ASSUME NEW q \in Requests, Step(q) PROVE \A p \in Requests : Tells(p)'
  <2>1. ASSUME NEW to, pc' = [pc EXCEPT ![q] = to], collection'.exists = collection.exists,
               counted' \ counted \subseteq {q},
               \A p \in Requests \ {q} : snap'[p] = snap[p] /\ call'[p] = call[p],
               Tells(q)'
        PROVE  \A p \in Requests : Tells(p)'
    <3>1. ASSUME NEW p \in Requests, p # q PROVE Tells(p)'
      BY <1>1, <2>1, <3>1 DEF TypeOK
    <3>2. QED
      BY <2>1, <3>1
  <2>2. CASE Submit(q)
    <3>1. /\ UNCHANGED <<collection, counted, snap>>
          /\ \A p \in Requests \ {q} : call'[p] = call[p]
          /\ \E to \in {"get", "done"} : pc' = [pc EXCEPT ![q] = to]
      BY <2>2 DEF Submit, Answer, TypeOK
    <3>2. pc'[q] \in {"get", "done"} /\ q \notin counted'
      BY <1>1, <2>2, <3>1 DEF Submit, TypeOK
    <3>3. QED
      BY <2>1, <3>1, <3>2
  <2>3. CASE GetCollection(q)
    <3>1. /\ UNCHANGED <<collection, counted, snap, call>>
          /\ call[q].op = "insert" /\ pc[q] = "get"
          /\ \/ pc' = [pc EXCEPT ![q] = "stamp"] /\ collection.exists
             \/ pc' = [pc EXCEPT ![q] = "done"]
      BY <2>3 DEF GetCollection, Advance, Answer
    <3>2. Tells(q)'
      BY <1>1, <3>1 DEF TypeOK
    <3>3. QED
      BY <2>1, <3>1, <3>2
  <2>4. CASE GetRow(q)
    <3>1. /\ UNCHANGED <<collection, counted, call>> /\ pc[q] = "get"
          /\ \A p \in Requests \ {q} : snap'[p] = snap[p]
          /\ \/ pc' = [pc EXCEPT ![q] = "done"]
             \/ /\ pc' = [pc EXCEPT ![q] = "stamp"] /\ Visible(snap'[q])
                /\ \E row \in Readable(call[q].rec) : Visible(row)
      BY <2>4 DEF GetRow, Answer, TypeOK
    <3>2. (\E row \in Readable(call[q].rec) : Visible(row)) => collection.exists
      BY DEF Readable, NothingBefore, TypeOK, Call
    <3>3. Tells(q)'
      BY <1>1, <3>1, <3>2 DEF Visible, TypeOK
    <3>4. QED
      BY <2>1, <3>1, <3>3
  <2>5. CASE Stamp(q) \/ Refuse(q) \/ Audit(q) \/ Crash(q)
    <3>1. /\ UNCHANGED <<collection, counted, snap, call>>
          /\ \/ pc' = [pc EXCEPT ![q] = "done"]
             \/ pc[q] = "stamp" /\ pc' = [pc EXCEPT ![q] = "put"]
      BY <2>5 DEF Stamp, Refuse, Audit, Crash, Advance, Answer
    <3>2. Tells(q)'
      BY <1>1, <3>1 DEF TypeOK
    <3>3. QED
      BY <2>1, <3>1, <3>2
  <2>6. CASE PutInsert(q) \/ PutUpdate(q) \/ SoftDelete(q) \/ HardDelete(q)
    <3>1. /\ UNCHANGED <<collection, counted, snap, call>> /\ pc[q] = "put"
          /\ \E to \in {"bump", "done"} : pc' = [pc EXCEPT ![q] = to]
      BY <2>6 DEF PutInsert, PutUpdate, SoftDelete, HardDelete, WriteRow,
                  ConditionFails, Advance, Answer
    <3>2. Tells(q)'
      BY <1>1, <3>1 DEF TypeOK
    <3>3. QED
      BY <2>1, <3>1, <3>2
  <2>7. CASE BumpCount(q)
    <3>1. /\ UNCHANGED <<snap, call>> /\ pc[q] = "bump"
          /\ pc' = [pc EXCEPT ![q] = "audit"]
          /\ collection'.exists = collection.exists
          /\ counted' \ counted \subseteq {q}
      BY <2>7 DEF BumpCount, Advance, TypeOK
    <3>2. Tells(q)'
      BY <1>1, <3>1 DEF TypeOK
    <3>3. QED
      BY <2>1, <3>1, <3>2
  <2>8. QED
    BY <1>3, <2>2, <2>3, <2>4, <2>5, <2>6, <2>7 DEF Step
<1>4. QED
  BY <1>2, <1>3 DEF Next, BooksTell

\* Where there is no collection, no request has come as far as a write.
LEMMA NextKeepsNothingBefore ==
    ASSUME TypeOK, ProgressTells, BooksTell, NothingBefore, [Next]_vars
    PROVE  NothingBefore'
<1> SUFFICES ASSUME ~collection'.exists PROVE NothingBefore'
  BY DEF NothingBefore
<1>1. UNCHANGED collection
  <2>1. ASSUME NEW q \in Requests, Step(q) PROVE UNCHANGED collection
    <3>1. CASE BumpCount(q)
      <4>1. collection'.exists = collection.exists /\ pc[q] = "bump"
        BY <3>1 DEF BumpCount, Advance, TypeOK
      <4>2. QED
        BY <4>1 DEF BooksTell
    <3>2. CASE ~BumpCount(q)
      BY <2>1, <3>2 DEF Step, Submit, GetCollection, GetRow, Stamp, Refuse, PutInsert,
           PutUpdate, SoftDelete, HardDelete, WriteRow, ConditionFails, Audit, Crash
    <3>3. QED
      BY <3>1, <3>2
  <2>2. ~CreateCollection
    BY DEF CreateCollection
  <2>3. QED
    BY <2>1, <2>2 DEF Next, Replicate, vars
<1>2. UNCHANGED <<rows, committed>>
  BY <1>1, WriteIs DEF BooksTell
<1>3. \A r \in Records : replica'[r] \in {replica[r], rows[r]}
  BY DEF Next, vars, CreateCollection, Replicate, Step, Submit, GetCollection,
         GetRow, Stamp, Refuse, PutInsert, PutUpdate, SoftDelete, HardDelete,
         WriteRow, ConditionFails, BumpCount, Audit, Crash, TypeOK
<1>4. QED
  BY <1>1, <1>2, <1>3 DEF NothingBefore, Visible

\* The sets that the count is compared with are finite.
LEMMA BooksAreFinite ==
    ASSUME ErasuresHold, CountHolds
    PROVE  /\ IsFiniteSet(VisibleNow) /\ Cardinality(VisibleNow) \in Nat
           /\ IsFiniteSet(Uncounted) /\ Cardinality(Uncounted) \in Nat
           /\ IsFiniteSet(Coming) /\ Cardinality(Coming) \in Nat
           /\ IsFiniteSet(Repeated) /\ Cardinality(Repeated) \in Nat
<1>1. /\ Uncounted \in SUBSET committed /\ Coming \in SUBSET committed
      /\ Repeated \in SUBSET committed
  BY DEF Uncounted, Coming, Repeated, CountHolds
<1>2. IsFiniteSet(Uncounted) /\ IsFiniteSet(Coming) /\ IsFiniteSet(Repeated)
  BY <1>1, FS_Subset DEF ErasuresHold
<1>3. QED
  BY <1>2, FS_CardinalityType DEF CountHolds

\* Whatever happens to the requests, while the table and the count stay.
LEMMA QuietKeepsCount ==
    ASSUME TypeOK, ErasuresHold, CountHolds,
           UNCHANGED <<rows, committed, counted, repeated, collection>>,
           \A q \in committed : call'[q] = call[q] /\ (pc'[q] = "bump" => pc[q] = "bump")
    PROVE  CountHolds'
<1>1. VisibleNow' = VisibleNow /\ Uncounted' = Uncounted /\ Repeated' = Repeated
  BY DEF VisibleNow, Uncounted, Repeated, CountHolds
<1>2. Coming' \in SUBSET Coming
  BY DEF Coming
<1>3. Cardinality(Coming') <= Cardinality(Coming) /\ Cardinality(Coming') \in Nat
  BY <1>2, BooksAreFinite, FS_Subset, FS_CardinalityType
<1>4. QED
  BY <1>1, <1>3, BooksAreFinite, collection' = collection
     DEF CountHolds, TypeOK

\* A write moves the visible records and what is still to be counted together.
LEMMA WriteKeepsCount ==
    ASSUME TypeOK, ErasuresHold, BooksTell, CountHolds, NEW q \in Requests,
           pc[q] = "put", q \notin committed, Effect(q), committed' = committed \cup {q},
           pc' = [pc EXCEPT ![q] = "bump"], UNCHANGED <<collection, counted, repeated, call>>
    PROVE  CountHolds'
<1> DEFINE r == call[q].rec
<1>1. r \in Records /\ q \notin counted
  BY DEF TypeOK, Call, BooksTell
<1>2. \A p \in committed : pc'[p] = pc[p]
  BY DEF TypeOK
<1>3. pc'[q] = "bump"
  BY DEF TypeOK
<1>0. /\ Repeated' = Repeated
      /\ repeated' \subseteq counted' /\ counted' \subseteq committed'
  BY DEF Repeated, CountHolds
<1>4. CASE call[q].op = "insert"
  <2>1. ~rows[r].exists /\ rows' = [rows EXCEPT ![r] = Version(q, FALSE)]
    BY <1>4 DEF Effect
  <2>2. VisibleNow' = VisibleNow \cup {r} /\ r \notin VisibleNow
    BY <1>1, <2>1 DEF VisibleNow, Visible, Version, TypeOK
  <2>3. Coming' = Coming \cup {q} /\ q \notin Coming
    BY <1>1, <1>2, <1>3, <1>4 DEF Coming
  <2>4. Uncounted' = Uncounted
    BY <1>4 DEF Uncounted
  <2>5. /\ IsFiniteSet(VisibleNow') /\ Cardinality(VisibleNow') = Cardinality(VisibleNow) + 1
        /\ Cardinality(Coming') = Cardinality(Coming) + 1
    BY <2>2, <2>3, BooksAreFinite, FS_AddElement
  <2>6. QED
    BY <2>4, <2>5, <1>0, BooksAreFinite DEF CountHolds, TypeOK
<1>5. CASE call[q].op = "update"
  <2>1. rows' = [rows EXCEPT ![r] = Version(q, snap[q].deleted)] /\ ~snap[q].deleted
    BY <1>5 DEF Effect, BooksTell
  <2>2. VisibleNow' = VisibleNow \cup {r}
    BY <1>1, <2>1 DEF VisibleNow, Visible, Version, TypeOK
  <2>3. Coming' = Coming /\ Uncounted' = Uncounted
    BY <1>2, <1>5 DEF Coming, Uncounted
  <2>4. /\ IsFiniteSet(VisibleNow') /\ Cardinality(VisibleNow') \in Nat
        /\ Cardinality(VisibleNow') >= Cardinality(VisibleNow)
    <3>1. IsFiniteSet(VisibleNow \cup {r}) /\ Cardinality(VisibleNow \cup {r}) \in Nat
      BY BooksAreFinite, FS_AddElement, FS_CardinalityType
    <3>2. Cardinality(VisibleNow \cup {r})
            = IF r \in VisibleNow THEN Cardinality(VisibleNow) ELSE Cardinality(VisibleNow) + 1
      BY BooksAreFinite, FS_AddElement
    <3>3. QED
      BY <2>2, <3>1, <3>2, BooksAreFinite
  <2>5. QED
    BY <2>3, <2>4, <1>0, BooksAreFinite DEF CountHolds, TypeOK
<1>6. CASE call[q].op \in {"delete", "hard_delete"}
  <2>1. rows' = [rows EXCEPT ![r] = Version(q, TRUE)] \/ rows' = [rows EXCEPT ![r] = Absent]
    BY <1>6 DEF Effect
  <2>2. VisibleNow' = VisibleNow \ {r}
    BY <1>1, <2>1 DEF VisibleNow, Visible, Version, Absent, TypeOK
  <2>3. Coming' = Coming
    BY <1>2, <1>6 DEF Coming
  <2>4. Uncounted' = Uncounted \cup {q} /\ q \notin Uncounted
    BY <1>1, <1>6 DEF Uncounted
  <2>5. /\ IsFiniteSet(VisibleNow') /\ Cardinality(VisibleNow') \in Nat
        /\ Cardinality(VisibleNow') >= Cardinality(VisibleNow) - 1
    <3>1. IsFiniteSet(VisibleNow \ {r}) /\ Cardinality(VisibleNow \ {r}) \in Nat
      BY BooksAreFinite, FS_RemoveElement, FS_CardinalityType
    <3>2. Cardinality(VisibleNow \ {r})
            = IF r \in VisibleNow THEN Cardinality(VisibleNow) - 1 ELSE Cardinality(VisibleNow)
      BY BooksAreFinite, FS_RemoveElement
    <3>3. QED
      BY <2>2, <3>1, <3>2, BooksAreFinite
  <2>6. Cardinality(Uncounted') = Cardinality(Uncounted) + 1
    BY <2>4, BooksAreFinite, FS_AddElement
  <2>7. QED
    BY <2>3, <2>5, <2>6, <1>0, BooksAreFinite DEF CountHolds, TypeOK
<1>7. QED
  BY <1>4, <1>5, <1>6 DEF Effect

\* The increment of an insert, once or twice, the decrements of a delete, or neither.
LEMMA BumpKeepsCount ==
    ASSUME TypeOK, ProgressTells, ErasuresHold, BooksTell, CountHolds,
           NEW q \in Requests, BumpCount(q)
    PROVE  CountHolds'
<1>1. /\ pc[q] = "bump" /\ pc' = [pc EXCEPT ![q] = "audit"]
      /\ UNCHANGED <<rows, committed, call>>
  BY DEF BumpCount, Advance
<1>2. q \in committed /\ q \notin counted /\ q \notin repeated /\ pc'[q] = "audit"
  BY <1>1 DEF ProgressTells, BooksTell, CountHolds, TypeOK
<1>3. \A p \in committed : p # q => pc'[p] = pc[p]
  BY <1>1 DEF TypeOK
<1>4. PICK times \in IF call[q].op = "update" THEN {0} ELSE 0..2 :
         /\ collection' = [collection EXCEPT !.record_count = @ + times * CountChange(call[q].op)]
         /\ counted' = counted \cup {p \in {q} : times > 0}
         /\ repeated' = repeated \cup {p \in {q} : times = 2}
  BY DEF BumpCount
<1>5. VisibleNow' = VisibleNow
  BY <1>1 DEF VisibleNow
<1>6. /\ collection'.record_count = collection.record_count + times * CountChange(call[q].op)
      /\ times \in 0..2
  BY <1>4 DEF TypeOK
<1>7. repeated' \subseteq counted' /\ counted' \subseteq committed'
  BY <1>1, <1>2, <1>4, <1>6 DEF CountHolds
<1>8. CASE times = 0
  <2>1. collection'.record_count = collection.record_count
    BY <1>6, <1>8 DEF TypeOK, CountChange
  <2>2. counted' = counted /\ repeated' = repeated
    BY <1>4, <1>8
  <2>3. Uncounted' = Uncounted /\ Repeated' = Repeated
    BY <1>1, <2>2 DEF Uncounted, Repeated
  <2>4. Coming' \in SUBSET Coming
    BY <1>1, <1>2, <1>3, <2>2 DEF Coming
  <2>5. Cardinality(Coming') <= Cardinality(Coming) /\ Cardinality(Coming') \in Nat
    BY <2>4, BooksAreFinite, FS_Subset, FS_CardinalityType
  <2> QED
    BY <1>5, <1>7, <2>1, <2>3, <2>5, BooksAreFinite DEF CountHolds, TypeOK
<1>9. CASE times # 0 /\ call[q].op = "insert"
  <2>1. /\ Coming' = Coming \ {q} /\ q \in Coming
        /\ Uncounted' = Uncounted
    BY <1>1, <1>2, <1>3, <1>4, <1>6, <1>9 DEF Coming, Uncounted
  <2>2. Cardinality(Coming') = Cardinality(Coming) - 1
    BY <2>1, BooksAreFinite, FS_RemoveElement
  <2>3. Cardinality(Repeated') = Cardinality(Repeated) + (IF times = 2 THEN 1 ELSE 0)
    <3>1. CASE times = 2
      <4>1. Repeated' = Repeated \cup {q} /\ q \notin Repeated
        BY <1>1, <1>2, <1>4, <1>9, <3>1 DEF Repeated
      <4> QED
        BY <3>1, <4>1, BooksAreFinite, FS_AddElement
    <3>2. CASE times # 2
      <4>1. Repeated' = Repeated
        BY <1>1, <1>4, <3>2 DEF Repeated
      <4> QED
        BY <3>2, <4>1, BooksAreFinite
    <3> QED
      BY <3>1, <3>2
  <2>4. collection'.record_count = collection.record_count + times
    BY <1>6, <1>9 DEF CountChange, TypeOK
  <2> QED
    BY <1>5, <1>6, <1>7, <1>9, <2>1, <2>2, <2>3, <2>4, BooksAreFinite DEF CountHolds, TypeOK
<1>10. CASE times # 0 /\ call[q].op # "insert"
  <2>1. call[q].op \in {"delete", "hard_delete"}
    BY <1>4, <1>10 DEF TypeOK, Call, AllOps
  <2>2. Coming' = Coming /\ Repeated' = Repeated
    BY <1>1, <1>2, <1>3, <1>4, <1>10 DEF Coming, Repeated
  <2>3. Uncounted' = Uncounted \ {q} /\ q \in Uncounted
    BY <1>1, <1>2, <1>4, <1>6, <1>10, <2>1 DEF Uncounted
  <2>4. Cardinality(Uncounted') = Cardinality(Uncounted) - 1
    BY <2>3, BooksAreFinite, FS_RemoveElement
  <2>5. collection'.record_count = collection.record_count - times
    BY <1>6, <1>10 DEF CountChange, TypeOK
  <2> QED
    BY <1>5, <1>6, <1>7, <1>10, <2>2, <2>4, <2>5, BooksAreFinite DEF CountHolds, TypeOK
<1> QED
  BY <1>8, <1>9, <1>10

\* No step of a handler makes the count overstate.
LEMMA NextKeepsCount ==
    ASSUME TypeOK, ProgressTells, BooksInv, [Next]_vars
    PROVE  CountHolds'
<1> USE DEF BooksInv
<1>1. \A q \in committed : call'[q] = call[q]
  BY CommittedCallsStay DEF ProgressTells, TypeOK
<1>2. CASE CreateCollection
  <2>1. /\ collection'.record_count = 0 /\ committed' = {} /\ UNCHANGED rows
        /\ counted' = {} /\ repeated' = {}
    BY <1>2 DEF CreateCollection, NothingBefore, CountHolds
  <2>2. VisibleNow' = VisibleNow /\ Uncounted' = {} /\ Coming' = {} /\ Repeated' = {}
    BY <2>1 DEF VisibleNow, Uncounted, Coming, Repeated
  <2>3. QED
    BY <2>1, <2>2, BooksAreFinite, FS_EmptySet DEF CountHolds
<1>3. CASE UNCHANGED vars \/ \E r \in Records : Replicate(r)
  <2>1. UNCHANGED <<rows, committed, counted, repeated, collection, pc>>
    BY <1>3 DEF vars, Replicate
  <2>2. QED
    BY <1>1, <2>1, QuietKeepsCount
<1>4. ASSUME NEW q \in Requests, Step(q), ~BumpCount(q) PROVE CountHolds'
  <2>1. CASE UNCHANGED <<rows, committed>>
    <3>1. UNCHANGED <<counted, repeated, collection>>
      BY <1>4 DEF Step, Submit, GetCollection, GetRow, Stamp, Refuse, PutInsert,
           PutUpdate, SoftDelete, HardDelete, WriteRow, ConditionFails, Audit, Crash
    <3>2. \A p \in committed : pc[p] \notin {"idle", "get", "stamp", "put"}
      BY DEF ProgressTells, TypeOK
    <3>3. ASSUME NEW p \in committed, pc'[p] = "bump" PROVE pc[p] = "bump"
      <4>1. \E to \in Steps : pc' = [pc EXCEPT ![q] = to] /\ (to = "bump" => pc[q] = "put")
        BY <1>4 DEF Step, Submit, GetCollection, GetRow, Stamp, Refuse, PutInsert,
             PutUpdate, SoftDelete, HardDelete, WriteRow, ConditionFails, Audit, Crash,
             Advance, Answer, Steps
      <4>2. PICK to \in Steps : pc' = [pc EXCEPT ![q] = to] /\ (to = "bump" => pc[q] = "put")
        BY <4>1
      <4>3. p \in Requests /\ pc \in [Requests -> Steps]
        BY DEF TypeOK
      <4>4. CASE p = q
        <5>1. to = "bump"
          BY <3>3, <4>2, <4>3, <4>4
        <5>2. QED
          BY <3>2, <4>2, <4>4, <5>1
      <4>5. CASE p # q
        BY <3>3, <4>2, <4>3, <4>5
      <4>6. QED
        BY <4>4, <4>5
    <3>4. QED
      BY <1>1, <2>1, <3>1, <3>3, QuietKeepsCount
  <2>2. CASE ~UNCHANGED <<rows, committed>>
    BY <2>2, WriteIs, WriteKeepsCount
  <2>3. QED
    BY <2>1, <2>2
<1>5. QED
  BY <1>2, <1>3, <1>4, BumpKeepsCount DEF Next

\* A record id is created again only after it was erased, and record_count exceeds
\* what is visible by no more than the deletes that are not counted: however inserts,
\* updates, deletes and erasures overlap, and wherever they die.
THEOREM BooksStayTrue == Spec => []BooksAreKept
<1>1. Init => BooksInv
  <2>1. ASSUME Init PROVE BooksInv
    <3>1. /\ VisibleNow = {} /\ Coming = {} /\ Uncounted = {} /\ committed = {}
          /\ Repeated = {} /\ repeated = {} /\ counted = {}
          /\ \A r \in Records : Of(r, "insert") = {} /\ Of(r, "hard_delete") = {}
      BY <2>1 DEF Init, VisibleNow, Coming, Uncounted, Repeated, Of, Visible, Absent
    <3>2. ErasuresHold
      <4>1. IsFiniteSet(committed)
        BY <3>1, FS_EmptySet
      <4>2. ASSUME NEW r \in Records
            PROVE  /\ Cardinality(Of(r, "insert")) = 0
                   /\ Cardinality(Of(r, "hard_delete")) = 0
                   /\ ~rows[r].exists
        BY <2>1, <3>1, FS_EmptySet DEF Init, Absent
      <4>3. QED
        BY <4>1, <4>2 DEF ErasuresHold
    <3>3. CountHolds
      BY <2>1, <3>1, FS_EmptySet DEF CountHolds, Init
    <3>4. BooksTell /\ NothingBefore
      BY <2>1 DEF Init, BooksTell, NothingBefore, Visible, Absent
    <3>5. QED
      BY <3>2, <3>3, <3>4 DEF BooksInv
  <2>2. QED
    BY <2>1
<1>2. TypeOK /\ ProgressTells /\ BooksInv /\ [Next]_vars => BooksInv'
  BY NextKeepsErasures, NextKeepsBooksTell, NextKeepsNothingBefore, NextKeepsCount
     DEF BooksInv
<1>3. TypeOK /\ BooksInv => BooksAreKept
  <2>1. ASSUME TypeOK, BooksInv PROVE BooksAreKept
    <3>1. ASSUME NEW r \in Records
          PROVE  Cardinality(Of(r, "insert")) <= 1 + Cardinality(Of(r, "hard_delete"))
      <4>1. Of(r, "insert") \in SUBSET committed /\ Of(r, "hard_delete") \in SUBSET committed
        BY DEF Of
      <4>2. /\ Cardinality(Of(r, "insert")) \in Nat
            /\ Cardinality(Of(r, "hard_delete")) \in Nat
        BY <2>1, <4>1, FS_Subset, FS_CardinalityType DEF BooksInv, ErasuresHold
      <4>3. QED
        BY <2>1, <4>2 DEF BooksInv, ErasuresHold
    <3>2. OneCreationPerErasure
      BY <3>1 DEF OneCreationPerErasure, Of
    <3>3. collection.record_count
            <= Cardinality(VisibleNow) + Cardinality(Uncounted) + Cardinality(Repeated)
      BY <2>1, BooksAreFinite DEF BooksInv, CountHolds, TypeOK
    <3>4. CountNeverOverstates
      BY <3>3 DEF CountNeverOverstates, VisibleNow, Uncounted, Repeated
    <3>5. QED
      BY <3>2, <3>4 DEF BooksAreKept
  <2>2. QED
    BY <2>1
<1>4. QED
  BY <1>1, <1>2, <1>3, Progress, PTL DEF Spec

------------------------------------------------------------------------------
(***************************************************************************)
(* The schema registry                                                     *)
(***************************************************************************)

\* Whoever lost the race reads again because there is a row.
LoserKnows == \A i \in Instances : at[i] = "reread" => table[req[i].id] # None

\* The inductive invariant of the registry.
RegistryInv == RegistryTypeOK /\ LoserKnows /\ CacheIsRegistered /\ RegistryTellsTheTruth

\* It holds when nothing is registered.
LEMMA RegistryInvInit == RegistryInit => RegistryInv
<1> SUFFICES ASSUME RegistryInit PROVE RegistryInv
  OBVIOUS
<1>1. RegistryTypeOK
  BY DEF RegistryInit, RegistryTypeOK, Registered, RegistrySteps
<1>2. LoserKnows /\ CacheIsRegistered /\ RegistryTellsTheTruth
  BY DEF RegistryInit, LoserKnows, CacheIsRegistered, RegistryTellsTheTruth
<1> QED
  BY <1>1, <1>2 DEF RegistryInv

\* A lookup finds the registered document or nothing, and remembers it.
LEMMA LookupFindsRegistered ==
    ASSUME RegistryInv, NEW i \in Instances, NEW s \in Ids,
           NEW found \in Docs \cup {None}, GetOwnerSchema(i, s, found),
           UNCHANGED table
    PROVE  /\ CacheIsRegistered'
           /\ cache' \in [Instances -> [Ids -> Docs \cup {None, Uncached}]]
           /\ calm' \in BOOLEAN /\ (calm' => calm)
<1> USE DEF RegistryInv
<1>1. CASE cache[i][s] # Uncached
  BY <1>1 DEF GetOwnerSchema, RegistryTypeOK, CacheIsRegistered
<1>2. CASE cache[i][s] = Uncached
  <2>1. found \in {None, table[s]}
    BY <1>2 DEF GetOwnerSchema, ReadableRow
  <2>2. cache' = [cache EXCEPT ![i] = [cache[i] EXCEPT ![s] = found]]
    BY <1>2 DEF GetOwnerSchema
  <2>3. cache' \in [Instances -> [Ids -> Docs \cup {None, Uncached}]]
    BY <2>2 DEF RegistryTypeOK
  <2>4. CacheIsRegistered'
    BY <2>1, <2>2 DEF RegistryTypeOK, CacheIsRegistered
  <2>5. calm' \in BOOLEAN /\ (calm' => calm)
    BY <1>2 DEF GetOwnerSchema
  <2> QED
    BY <2>3, <2>4, <2>5
<1> QED
  BY <1>1, <1>2

\* Validation touches the cache only.
LEMMA ValidateStep ==
    ASSUME RegistryInv, NEW i \in Instances, NEW s \in Ids, Validate(i, s)
    PROVE  RegistryInv'
<1> USE DEF RegistryInv
<1>1. PICK found \in Docs \cup {None} : GetOwnerSchema(i, s, found)
  BY DEF Validate
<1>2. UNCHANGED <<table, lagging, at, req, answer>>
  BY DEF Validate
<1>3. /\ CacheIsRegistered'
      /\ cache' \in [Instances -> [Ids -> Docs \cup {None, Uncached}]]
      /\ calm' \in BOOLEAN /\ (calm' => calm)
  BY <1>1, <1>2, LookupFindsRegistered
<1>4. RegistryTypeOK'
  BY <1>2, <1>3 DEF RegistryTypeOK, Registered
<1>5. LoserKnows' /\ RegistryTellsTheTruth'
  BY <1>2, <1>3 DEF LoserKnows, RegistryTellsTheTruth
<1> QED
  BY <1>3, <1>4, <1>5

\* A registration starts with a lookup.
LEMMA RegisterStep ==
    ASSUME RegistryInv, NEW i \in Instances, NEW r \in Proposals, Register(i, r)
    PROVE  RegistryInv'
<1> USE DEF RegistryInv
<1>1. r \in Request /\ r.id \in Ids
  BY ProposalsAssumption DEF Request
<1>2. PICK found \in Docs \cup {None} :
          /\ GetOwnerSchema(i, r.id, found)
          /\ at' = [at EXCEPT ![i] = IF found = None THEN "count" ELSE "check"]
  BY DEF Register, Goto
<1>3. /\ req' = [req EXCEPT ![i] = r]
      /\ answer' = [answer EXCEPT ![i] = None]
      /\ UNCHANGED <<table, lagging>>
  BY DEF Register
<1>4. /\ CacheIsRegistered'
      /\ cache' \in [Instances -> [Ids -> Docs \cup {None, Uncached}]]
      /\ calm' \in BOOLEAN /\ (calm' => calm)
  BY <1>1, <1>2, <1>3, LookupFindsRegistered
<1>5. RegistryTypeOK'
  BY <1>1, <1>2, <1>3, <1>4 DEF RegistryTypeOK, Registered, RegistrySteps
<1>6. LoserKnows'
  BY <1>2, <1>3 DEF RegistryTypeOK, LoserKnows
<1>7. RegistryTellsTheTruth'
  BY <1>3, <1>4 DEF RegistryTypeOK, RegistryTellsTheTruth
<1> QED
  BY <1>4, <1>5, <1>6, <1>7

\* The quota lets the registration go on, or ends it.
LEMMA CountStep ==
    ASSUME RegistryInv, NEW i \in Instances, Count(i)
    PROVE  RegistryInv'
<1> USE DEF RegistryInv
<1>1. /\ \/ at' = [at EXCEPT ![i] = "check"] /\ req' = req
         \/ at' = [at EXCEPT ![i] = "idle"] /\ req' = [req EXCEPT ![i] = None]
      /\ at[i] = "count"
  BY DEF Count, Goto, Finish
<1>2. /\ UNCHANGED <<table, lagging, cache, answer>>
      /\ calm' \in BOOLEAN /\ (calm' => calm)
  BY DEF Count
<1>3. RegistryTypeOK'
  BY <1>1, <1>2 DEF RegistryTypeOK, Registered, RegistrySteps
<1>4. LoserKnows' /\ CacheIsRegistered' /\ RegistryTellsTheTruth'
  BY <1>1, <1>2 DEF RegistryTypeOK, LoserKnows, CacheIsRegistered, RegistryTellsTheTruth
<1> QED
  BY <1>3, <1>4

\* An answer ends the registration: if it is true, all answers are.
LEMMA AnswerStep ==
    ASSUME RegistryInv, NEW i \in Instances, NEW result \in Results,
           AnswerRegistration(i, result), at[i] # "idle",
           \A s \in Ids : table[s] # None => table'[s] = table[s],
           calm' \in BOOLEAN, calm' => calm,
           result = "registered" => table'[req[i].id] = req[i].doc,
           calm' /\ result = "immutable" => table'[req[i].id] \notin {None, req[i].doc}
    PROVE  /\ RegistryTellsTheTruth' /\ LoserKnows'
           /\ at' \in [Instances -> RegistrySteps]
           /\ req' \in [Instances -> Request \cup {None}]
           /\ \A j \in Instances : at'[j] # "idle" => req'[j] \in Request
           /\ answer' \in [Instances -> [req: Request, result: Results] \cup {None}]
<1> USE DEF RegistryInv
<1> DEFINE new == [req |-> req[i], result |-> result]
<1>1. /\ at' = [at EXCEPT ![i] = "idle"]
      /\ req' = [req EXCEPT ![i] = None]
      /\ answer' = [answer EXCEPT ![i] = new]
  BY DEF AnswerRegistration, Finish, Goto
<1>2. req[i] \in Request /\ new \in [req: Request, result: Results]
  BY DEF RegistryTypeOK
<1>3. /\ at' \in [Instances -> RegistrySteps]
      /\ req' \in [Instances -> Request \cup {None}]
      /\ \A j \in Instances : at'[j] # "idle" => req'[j] \in Request
  BY <1>1 DEF RegistryTypeOK, RegistrySteps
<1>4. answer' \in [Instances -> [req: Request, result: Results] \cup {None}]
  BY <1>1, <1>2 DEF RegistryTypeOK
<1>5. LoserKnows'
  BY <1>1 DEF RegistryTypeOK, LoserKnows, Request
<1>6. RegistryTellsTheTruth'
  <2>1. ASSUME NEW j \in Instances, answer'[j] # None
        PROVE  /\ answer'[j].result = "registered" =>
                      table'[answer'[j].req.id] = answer'[j].req.doc
               /\ calm' /\ answer'[j].result = "immutable" =>
                      table'[answer'[j].req.id] \notin {None, answer'[j].req.doc}
    <3>1. CASE j = i
      <4>1. answer'[j].req = req[i] /\ answer'[j].result = result
        BY <1>1, <3>1 DEF RegistryTypeOK
      <4> QED
        BY <4>1
    <3>2. CASE j # i
      <4>1. answer'[j] = answer[j]
        BY <1>1, <3>2 DEF RegistryTypeOK
      <4>2. answer[j] \in [req: Request, result: Results]
        BY <2>1, <4>1 DEF RegistryTypeOK
      <4>3. answer[j].req.id \in Ids /\ answer[j].req.doc \in Docs
        BY <4>2 DEF Request
      <4>4. /\ answer[j].result = "registered" =>
                   table[answer[j].req.id] = answer[j].req.doc
            /\ calm /\ answer[j].result = "immutable" =>
                   table[answer[j].req.id] \notin {None, answer[j].req.doc}
        BY <2>1, <4>1 DEF RegistryTellsTheTruth
      <4> QED
        BY <4>1, <4>3, <4>4, NoneAssumption
    <3> QED
      BY <3>1, <3>2
  <2> QED
    BY <2>1 DEF RegistryTellsTheTruth
<1> QED
  BY <1>3, <1>4, <1>5, <1>6

\* The uncached read decides, or the put is tried.
LEMMA CheckStep ==
    ASSUME RegistryInv, NEW i \in Instances, Check(i)
    PROVE  RegistryInv'
<1> USE DEF RegistryInv
<1>1. PICK found \in ReadableRow(req[i].id) :
          /\ calm' = (calm /\ found = table[req[i].id])
          /\ \/ found = None /\ Goto(i, "put") /\ UNCHANGED <<req, answer>>
             \/ found = req[i].doc /\ AnswerRegistration(i, "registered")
             \/ found \notin {None, req[i].doc} /\ AnswerRegistration(i, "immutable")
  BY DEF Check
<1>2. at[i] = "check" /\ UNCHANGED <<table, lagging, cache>>
  BY DEF Check
<1>3. req[i] \in Request /\ req[i].doc \in Docs /\ req[i].doc # None
  BY <1>2, NoneAssumption DEF RegistryTypeOK, Request
<1>4. found \in {None, table[req[i].id]}
  BY <1>1 DEF ReadableRow
<1>5. calm' \in BOOLEAN /\ (calm' => calm) /\ (calm' => found = table[req[i].id])
  BY <1>1
<1>6. CacheIsRegistered'
  BY <1>2 DEF CacheIsRegistered
<1>7. CASE found = None /\ Goto(i, "put") /\ UNCHANGED <<req, answer>>
  <2>1. RegistryTypeOK'
    BY <1>2, <1>3, <1>5, <1>7 DEF RegistryTypeOK, Goto, Registered, RegistrySteps
  <2>2. LoserKnows' /\ RegistryTellsTheTruth'
    BY <1>2, <1>5, <1>7 DEF RegistryTypeOK, Goto, LoserKnows, RegistryTellsTheTruth
  <2> QED
    BY <1>6, <2>1, <2>2
<1>8. CASE found = req[i].doc /\ AnswerRegistration(i, "registered")
  <2>1. table'[req[i].id] = req[i].doc
    BY <1>2, <1>3, <1>4, <1>8
  <2>2. /\ RegistryTellsTheTruth' /\ LoserKnows'
        /\ at' \in [Instances -> RegistrySteps]
        /\ req' \in [Instances -> Request \cup {None}]
        /\ \A j \in Instances : at'[j] # "idle" => req'[j] \in Request
        /\ answer' \in [Instances -> [req: Request, result: Results] \cup {None}]
    BY <1>2, <1>5, <1>8, <2>1, AnswerStep DEF Results
  <2>3. RegistryTypeOK'
    BY <1>2, <1>5, <2>2 DEF RegistryTypeOK, Registered
  <2> QED
    BY <1>6, <2>2, <2>3
<1>9. CASE found \notin {None, req[i].doc} /\ AnswerRegistration(i, "immutable")
  <2>1. calm' => table'[req[i].id] \notin {None, req[i].doc}
    BY <1>2, <1>5, <1>9
  <2>2. /\ RegistryTellsTheTruth' /\ LoserKnows'
        /\ at' \in [Instances -> RegistrySteps]
        /\ req' \in [Instances -> Request \cup {None}]
        /\ \A j \in Instances : at'[j] # "idle" => req'[j] \in Request
        /\ answer' \in [Instances -> [req: Request, result: Results] \cup {None}]
    BY <1>2, <1>5, <1>9, <2>1, AnswerStep DEF Results
  <2>3. RegistryTypeOK'
    BY <1>2, <1>5, <2>2 DEF RegistryTypeOK, Registered
  <2> QED
    BY <1>6, <2>2, <2>3
<1> QED
  BY <1>1, <1>7, <1>8, <1>9

\* The row is put where there was none, or the race is lost.
LEMMA PutStep ==
    ASSUME RegistryInv, NEW i \in Instances, Put(i)
    PROVE  RegistryInv'
<1> USE DEF RegistryInv
<1> DEFINE s == req[i].id
<1>1. at[i] = "put" /\ calm' = calm
  BY DEF Put
<1>2. req[i] \in Request /\ s \in Ids /\ req[i].doc \in Docs /\ req[i].doc # None
  BY <1>1, NoneAssumption DEF RegistryTypeOK, Request
<1>3. CASE /\ table[s] = None
           /\ table' = [table EXCEPT ![s] = req[i].doc]
           /\ lagging' = lagging \cup {s}
           /\ cache' = Warmed(i)
           /\ AnswerRegistration(i, "registered")
  <2>1. table'[s] = req[i].doc /\ \A t \in Ids : table[t] # None => table'[t] = table[t]
    BY <1>2, <1>3 DEF RegistryTypeOK
  <2>2. /\ RegistryTellsTheTruth' /\ LoserKnows'
        /\ at' \in [Instances -> RegistrySteps]
        /\ req' \in [Instances -> Request \cup {None}]
        /\ \A j \in Instances : at'[j] # "idle" => req'[j] \in Request
        /\ answer' \in [Instances -> [req: Request, result: Results] \cup {None}]
    <3>1. calm \in BOOLEAN
      BY DEF RegistryTypeOK
    <3> QED
      BY <1>1, <1>3, <2>1, <3>1, AnswerStep DEF Results
  <2>3. cache' = [cache EXCEPT ![i] = [cache[i] EXCEPT ![s] = req[i].doc]]
    BY <1>3 DEF Warmed
  <2>4. cache' \in [Instances -> [Ids -> Docs \cup {None, Uncached}]]
    BY <1>2, <2>3 DEF RegistryTypeOK
  <2>5. ASSUME NEW j \in Instances, NEW t \in Ids
        PROVE  cache'[j][t] \in {None, Uncached, table'[t]}
    <3>1. CASE j = i /\ t = s
      BY <2>1, <2>3, <3>1 DEF RegistryTypeOK
    <3>2. CASE ~(j = i /\ t = s)
      <4>1. cache'[j][t] = cache[j][t]
        BY <1>2, <2>3, <3>2 DEF RegistryTypeOK
      <4>2. cache[j][t] \in {None, Uncached, table[t]}
        BY DEF CacheIsRegistered
      <4> QED
        BY <2>1, <4>1, <4>2
    <3> QED
      BY <3>1, <3>2
  <2>6. table' \in [Ids -> Docs \cup {None}]
    BY <1>2, <1>3 DEF RegistryTypeOK
  <2>7. lagging' \subseteq Registered'
    BY <1>2, <1>3, <2>1 DEF RegistryTypeOK, Registered
  <2>8. RegistryTypeOK'
    BY <1>1, <2>2, <2>4, <2>6, <2>7 DEF RegistryTypeOK
  <2> QED
    BY <2>2, <2>5, <2>8 DEF CacheIsRegistered
<1>4. CASE /\ table[s] # None
           /\ Goto(i, "reread")
           /\ UNCHANGED <<table, lagging, cache, req, answer>>
  <2>1. RegistryTypeOK'
    BY <1>1, <1>2, <1>4 DEF RegistryTypeOK, Goto, Registered, RegistrySteps
  <2>2. LoserKnows' /\ CacheIsRegistered' /\ RegistryTellsTheTruth'
    BY <1>1, <1>4 DEF RegistryTypeOK, Goto, LoserKnows, CacheIsRegistered, RegistryTellsTheTruth
  <2> QED
    BY <2>1, <2>2
<1> QED
  BY <1>3, <1>4 DEF Put

\* The loser of the race finds its document, or another one, or, in a replica
\* that lags, none.
LEMMA RereadStep ==
    ASSUME RegistryInv, NEW i \in Instances, Reread(i)
    PROVE  RegistryInv'
<1> USE DEF RegistryInv
<1> DEFINE s == req[i].id
<1>1. PICK found \in ReadableRow(s) :
          /\ calm' = (calm /\ found = table[s])
          /\ \/ /\ found = req[i].doc
                /\ cache' = Warmed(i)
                /\ AnswerRegistration(i, "registered")
             \/ /\ found # req[i].doc
                /\ AnswerRegistration(i, "immutable")
                /\ UNCHANGED cache
  BY DEF Reread
<1>2. at[i] = "reread" /\ UNCHANGED <<table, lagging>>
  BY DEF Reread
<1>3. req[i] \in Request /\ s \in Ids /\ req[i].doc \in Docs /\ req[i].doc # None
  BY <1>2, NoneAssumption DEF RegistryTypeOK, Request
<1>4. found \in {None, table[s]} /\ table[s] # None
  BY <1>1, <1>2 DEF ReadableRow, LoserKnows
<1>5. calm' \in BOOLEAN /\ (calm' => calm) /\ (calm' => found = table[s])
  BY <1>1
<1>6. CASE found = req[i].doc /\ cache' = Warmed(i) /\ AnswerRegistration(i, "registered")
  <2>1. table'[s] = req[i].doc
    BY <1>2, <1>3, <1>4, <1>6
  <2>2. /\ RegistryTellsTheTruth' /\ LoserKnows'
        /\ at' \in [Instances -> RegistrySteps]
        /\ req' \in [Instances -> Request \cup {None}]
        /\ \A j \in Instances : at'[j] # "idle" => req'[j] \in Request
        /\ answer' \in [Instances -> [req: Request, result: Results] \cup {None}]
    BY <1>2, <1>5, <1>6, <2>1, AnswerStep DEF Results
  <2>3. cache' = [cache EXCEPT ![i] = [cache[i] EXCEPT ![s] = req[i].doc]]
    BY <1>6 DEF Warmed
  <2>4. cache' \in [Instances -> [Ids -> Docs \cup {None, Uncached}]]
    BY <1>3, <2>3 DEF RegistryTypeOK
  <2>5. CacheIsRegistered'
    BY <1>2, <1>3, <2>1, <2>3 DEF RegistryTypeOK, CacheIsRegistered
  <2>6. RegistryTypeOK'
    BY <1>2, <1>5, <2>2, <2>4 DEF RegistryTypeOK, Registered
  <2> QED
    BY <2>2, <2>5, <2>6
<1>7. CASE found # req[i].doc /\ AnswerRegistration(i, "immutable") /\ UNCHANGED cache
  <2>1. calm' => table'[s] \notin {None, req[i].doc}
    BY <1>2, <1>4, <1>5, <1>7
  <2>2. /\ RegistryTellsTheTruth' /\ LoserKnows'
        /\ at' \in [Instances -> RegistrySteps]
        /\ req' \in [Instances -> Request \cup {None}]
        /\ \A j \in Instances : at'[j] # "idle" => req'[j] \in Request
        /\ answer' \in [Instances -> [req: Request, result: Results] \cup {None}]
    BY <1>2, <1>5, <1>7, <2>1, AnswerStep DEF Results
  <2>3. RegistryTypeOK'
    BY <1>2, <1>5, <1>7, <2>2 DEF RegistryTypeOK, Registered
  <2>4. CacheIsRegistered'
    BY <1>2, <1>7 DEF CacheIsRegistered
  <2> QED
    BY <2>2, <2>3, <2>4
<1> QED
  BY <1>1, <1>6, <1>7

\* Caches are forgotten, one entry or all with their instance; rows are replicated.
LEMMA ForgettingStep ==
    ASSUME RegistryInv, NEW i \in Instances, NEW s \in Ids,
           Forget(i, s) \/ InstanceCrash(i) \/ RowReplicates(s)
    PROVE  RegistryInv'
<1> USE DEF RegistryInv
<1>1. CASE Forget(i, s)
  <2>1. cache' = [cache EXCEPT ![i] = [cache[i] EXCEPT ![s] = Uncached]]
    BY <1>1 DEF Forget
  <2>2. RegistryTypeOK' /\ CacheIsRegistered'
    BY <1>1, <2>1 DEF Forget, RegistryTypeOK, CacheIsRegistered, Registered
  <2>3. LoserKnows' /\ RegistryTellsTheTruth'
    BY <1>1 DEF Forget, LoserKnows, RegistryTellsTheTruth
  <2> QED
    BY <2>2, <2>3
<1>2. CASE InstanceCrash(i)
  <2>1. /\ cache' \in [Instances -> [Ids -> Docs \cup {None, Uncached}]]
        /\ CacheIsRegistered'
    <3>1. CASE cache' = cache
      BY <1>2, <3>1 DEF InstanceCrash, RegistryTypeOK, CacheIsRegistered
    <3>2. CASE cache' = [cache EXCEPT ![i] = [x \in Ids |-> Uncached]]
      BY <1>2, <3>2 DEF InstanceCrash, RegistryTypeOK, CacheIsRegistered
    <3> QED
      BY <1>2, <3>1, <3>2 DEF InstanceCrash
  <2>2. RegistryTypeOK'
    BY <1>2, <2>1 DEF InstanceCrash, Finish, Goto, RegistryTypeOK, Registered, RegistrySteps
  <2>3. LoserKnows' /\ RegistryTellsTheTruth'
    BY <1>2 DEF InstanceCrash, Finish, Goto, RegistryTypeOK, LoserKnows, RegistryTellsTheTruth
  <2> QED
    BY <2>1, <2>2, <2>3
<1>3. CASE RowReplicates(s)
  BY <1>3 DEF RowReplicates, RegistryTypeOK, LoserKnows, CacheIsRegistered, RegistryTellsTheTruth,
              Registered
<1> QED
  BY <1>1, <1>2, <1>3

\* Every step keeps the invariant.
LEMMA RegistryStep == RegistryInv /\ [RegistryNext]_registryVars => RegistryInv'
<1> SUFFICES ASSUME RegistryInv, [RegistryNext]_registryVars PROVE RegistryInv'
  OBVIOUS
<1>1. CASE UNCHANGED registryVars
  BY <1>1 DEF registryVars, RegistryInv, RegistryTypeOK, LoserKnows, CacheIsRegistered,
              RegistryTellsTheTruth, Registered
<1>2. CASE \E i \in Instances : \E s \in Ids : Validate(i, s) \/ Forget(i, s)
  BY <1>2, ValidateStep, ForgettingStep
<1>3. CASE \E i \in Instances : \E r \in Proposals : Register(i, r)
  BY <1>3, RegisterStep
<1>4. ASSUME NEW i \in Instances, Count(i) \/ Check(i) \/ Put(i) \/ Reread(i)
      PROVE  RegistryInv'
  BY <1>4, CountStep, CheckStep, PutStep, RereadStep
<1>5. ASSUME NEW i \in Instances, InstanceCrash(i)
      PROVE  RegistryInv'
  <2>1. req[i] \in Request
    BY <1>5 DEF RegistryInv, RegistryTypeOK, InstanceCrash
  <2>2. req[i].id \in Ids
    BY <2>1 DEF Request
  <2> QED
    BY <1>5, <2>2, ForgettingStep
<1>6. ASSUME NEW s \in Ids, RowReplicates(s)
      PROVE  RegistryInv'
  BY <1>6 DEF RegistryInv, RowReplicates, RegistryTypeOK, LoserKnows, CacheIsRegistered,
              RegistryTellsTheTruth, Registered
<1> QED
  BY <1>1, <1>2, <1>3, <1>4, <1>5, <1>6 DEF RegistryNext

\* Every variable keeps its type, for any number of instances.
THEOREM RegistryTypeCorrect == RegistrySpec => []RegistryTypeOK
<1>1. RegistryInv => RegistryTypeOK
  BY DEF RegistryInv
<1> QED
  BY <1>1, RegistryInvInit, RegistryStep, PTL DEF RegistrySpec

\* No instance validates metadata against a document that is not the registered
\* one, for any number of instances, races, stale reads and old cache entries:
\* why getOwnerSchema may cache what it finds.
THEOREM CachingIsSafe == RegistrySpec => []CacheIsRegistered
<1>1. RegistryInv => CacheIsRegistered
  BY DEF RegistryInv
<1> QED
  BY <1>1, RegistryInvInit, RegistryStep, PTL DEF RegistrySpec

\* An answer of register_schema stays true: success means that this document is
\* registered, and, where every read was current, a refusal that another one is.
THEOREM RegistrationAnswersAreTrue == RegistrySpec => []RegistryTellsTheTruth
<1>1. RegistryInv => RegistryTellsTheTruth
  BY DEF RegistryInv
<1> QED
  BY <1>1, RegistryInvInit, RegistryStep, PTL DEF RegistrySpec

-----------------------------------------------------------------------------
(* The quota *)

\* The registrations that are past the count and may yet add a row.
Hopeful == {i \in Instances : at[i] \in {"check", "put"} /\ table[req[i].id] = None}

\* What is registered and what is yet to come.
QuotaHolds ==
    /\ IsFiniteSet(Registered)
    /\ calm => Cardinality(Registered) + Cardinality(Hopeful)
                   <= MaxSchemas + Cardinality(Instances) - 1

SomeInstances == IsFiniteSet(Instances) /\ Instances # {}

LEMMA SomeInstancesAreCounted ==
    ASSUME SomeInstances
    PROVE  /\ Cardinality(Instances) \in Nat /\ Cardinality(Instances) >= 1
           /\ \A S \in SUBSET Instances : /\ IsFiniteSet(S) /\ Cardinality(S) \in Nat
                                          /\ Cardinality(S) <= Cardinality(Instances)
<1>1. Cardinality(Instances) \in Nat /\ Cardinality(Instances) # 0
  BY FS_CardinalityType, FS_EmptySet DEF SomeInstances
<1>2. ASSUME NEW S \in SUBSET Instances
      PROVE  /\ IsFiniteSet(S) /\ Cardinality(S) \in Nat
             /\ Cardinality(S) <= Cardinality(Instances)
  BY FS_Subset, FS_CardinalityType DEF SomeInstances
<1>3. QED
  BY <1>1, <1>2

\* A step that registers nothing and lets nobody past the count.
LEMMA FewerHopesKeepQuota ==
    ASSUME SomeInstances, QuotaHolds, Registered' = Registered, Hopeful' \subseteq Hopeful,
           calm' => calm
    PROVE  QuotaHolds'
<1>1. Hopeful \in SUBSET Instances
  BY DEF Hopeful
<1>2. IsFiniteSet(Hopeful)
  BY <1>1, SomeInstancesAreCounted
<1>3. Cardinality(Hopeful') <= Cardinality(Hopeful)
  BY <1>2, FS_Subset
<1>4. Cardinality(Hopeful') \in Nat /\ Cardinality(Hopeful) \in Nat
  BY <1>2, FS_Subset, FS_CardinalityType
<1>5. Cardinality(Registered) \in Nat /\ MaxSchemas \in Nat /\ Cardinality(Instances) \in Nat
  BY FS_CardinalityType, MaxSchemasAssumption, SomeInstancesAreCounted DEF QuotaHolds
<1>6. IsFiniteSet(Registered') /\ Cardinality(Registered') = Cardinality(Registered)
  BY DEF QuotaHolds
<1>7. calm' => Cardinality(Registered') + Cardinality(Hopeful')
                  <= MaxSchemas + Cardinality(Instances) - 1
  BY <1>3, <1>4, <1>5, <1>6 DEF QuotaHolds
<1>8. QED
  BY <1>6, <1>7 DEF QuotaHolds

\* The count lets a registration through while there is room, so that even if all
\* instances were past it there would be no more than one too many for each other one.
LEMMA CountKeepsQuota ==
    ASSUME SomeInstances, RegistryInv, QuotaHolds, NEW i \in Instances, Count(i)
    PROVE  QuotaHolds'
<1>1. UNCHANGED table /\ Registered' = Registered /\ (calm' => calm)
  BY DEF Count, Registered
<1>2. CASE ~calm' \/ at' = [at EXCEPT ![i] = "idle"]
  <2>1. CASE at' = [at EXCEPT ![i] = "idle"]
    <3>1. \A j \in Instances : at'[j] = "idle" \/ (at'[j] = at[j] /\ req'[j] = req[j])
      BY <2>1 DEF Count, Goto, Finish, RegistryInv, RegistryTypeOK
    <3>2. Hopeful' \subseteq Hopeful
      BY <1>1, <3>1 DEF Hopeful
    <3>3. QED
      BY <1>1, <3>2, FewerHopesKeepQuota
  <2>2. CASE ~calm'
    BY <1>1, <2>2 DEF QuotaHolds
  <2>3. QED
    BY <1>2, <2>1, <2>2
<1>3. CASE calm' /\ HasRoom(Registered)
  <2>1. Cardinality(Registered) <= MaxSchemas - 1 /\ Cardinality(Registered) \in Nat
    BY <1>3, FS_CardinalityType, MaxSchemasAssumption DEF HasRoom, QuotaHolds
  <2>2. /\ Cardinality(Hopeful') \in Nat /\ Cardinality(Hopeful') <= Cardinality(Instances)
        /\ Cardinality(Instances) \in Nat
    <3>1. Hopeful' \in SUBSET Instances
      BY DEF Hopeful
    <3>2. QED
      BY <3>1, SomeInstancesAreCounted
  <2>3. Cardinality(Registered) + Cardinality(Hopeful')
            <= MaxSchemas + Cardinality(Instances) - 1
    BY <2>1, <2>2, MaxSchemasAssumption
  <2>4. QED
    BY <1>1, <2>3 DEF QuotaHolds
<1>4. QED
  <2>1. PICK missed \in SUBSET lagging :
          /\ calm' = (calm /\ missed = {})
          /\ \/ HasRoom(Registered \ missed)
             \/ at' = [at EXCEPT ![i] = "idle"]
    BY DEF Count, Finish, Goto
  <2>2. missed = {} => Registered \ missed = Registered
    OBVIOUS
  <2>3. QED
    BY <1>2, <1>3, <2>1, <2>2

\* The put takes a row for its instance, which hopes no longer.
LEMMA PutKeepsQuota ==
    ASSUME SomeInstances, RegistryInv, QuotaHolds, NEW i \in Instances, Put(i)
    PROVE  QuotaHolds'
<1> DEFINE s == req[i].id
<1>1. at[i] = "put" /\ req[i] \in Request /\ s \in Ids /\ req[i].doc # None
  BY NoneAssumption DEF Put, RegistryInv, RegistryTypeOK, Request
<1>2. \A j \in Instances : at[j] \in {"check", "put"} => req[j].id \in Ids
  BY DEF RegistryInv, RegistryTypeOK, Request
<1>3. CASE table[s] # None
  <2>1. /\ UNCHANGED <<table, req>> /\ calm' = calm
        /\ at'[i] = "reread" /\ \A j \in Instances : j # i => at'[j] = at[j]
    BY <1>3 DEF Put, Goto, RegistryInv, RegistryTypeOK
  <2>2. Registered' = Registered /\ Hopeful' \subseteq Hopeful
    BY <2>1 DEF Registered, Hopeful
  <2>3. QED
    BY <2>1, <2>2, FewerHopesKeepQuota
<1>4. CASE table[s] = None
  <2>1. /\ table' = [table EXCEPT ![s] = req[i].doc]
        /\ at' = [at EXCEPT ![i] = "idle"] /\ req' = [req EXCEPT ![i] = None]
        /\ calm' = calm
    BY <1>4 DEF Put, AnswerRegistration, Finish, Goto
  <2>2. Registered' = Registered \cup {s} /\ s \notin Registered
    BY <1>1, <1>4, <2>1 DEF Registered, RegistryInv, RegistryTypeOK
  <2>3. i \in Hopeful
    BY <1>1, <1>4 DEF Hopeful
  <2>4. Hopeful' \subseteq Hopeful \ {i}
    <3>1. ASSUME NEW j \in Hopeful' PROVE j \in Hopeful /\ j # i
      <4>1. j \in Instances /\ at'[j] \in {"check", "put"} /\ table'[req'[j].id] = None
        BY DEF Hopeful
      <4>2. j # i /\ at[j] = at'[j] /\ req'[j] = req[j]
        BY <2>1, <4>1 DEF RegistryInv, RegistryTypeOK
      <4>3. req[j].id # s
        BY <1>1, <2>1, <4>1, <4>2 DEF RegistryInv, RegistryTypeOK
      <4>4. table'[req[j].id] = table[req[j].id]
        BY <1>2, <2>1, <4>1, <4>2, <4>3 DEF RegistryInv, RegistryTypeOK
      <4>5. QED
        BY <4>1, <4>2, <4>4 DEF Hopeful
    <3>2. QED
      BY <3>1
  <2>5. IsFiniteSet(Hopeful) /\ Cardinality(Hopeful) \in Nat
    <3>1. Hopeful \in SUBSET Instances
      BY DEF Hopeful
    <3>2. QED
      BY <3>1, SomeInstancesAreCounted
  <2>6. IsFiniteSet(Hopeful \ {i}) /\ Cardinality(Hopeful \ {i}) = Cardinality(Hopeful) - 1
    BY <2>3, <2>5, FS_RemoveElement
  <2>7. /\ Cardinality(Hopeful') <= Cardinality(Hopeful) - 1
        /\ Cardinality(Hopeful') \in Nat
    BY <2>4, <2>6, FS_Subset, FS_CardinalityType
  <2>8. /\ IsFiniteSet(Registered') /\ Cardinality(Registered') = Cardinality(Registered) + 1
        /\ Cardinality(Registered) \in Nat
    BY <2>2, FS_AddElement, FS_CardinalityType DEF QuotaHolds
  <2>9. Cardinality(Instances) \in Nat /\ MaxSchemas \in Nat
    BY SomeInstancesAreCounted, MaxSchemasAssumption
  <2>10. calm' => Cardinality(Registered') + Cardinality(Hopeful')
                     <= MaxSchemas + Cardinality(Instances) - 1
    BY <2>1, <2>5, <2>7, <2>8, <2>9 DEF QuotaHolds
  <2>11. QED
    BY <2>8, <2>10 DEF QuotaHolds
<1>5. QED
  BY <1>3, <1>4

\* What goes past the count without counting has found its row.
LEMMA RegisterKeepsQuota ==
    ASSUME SomeInstances, RegistryInv, QuotaHolds, NEW i \in Instances, NEW r \in Proposals,
           Register(i, r)
    PROVE  QuotaHolds'
<1>1. r \in Request /\ r.id \in Ids
  BY ProposalsAssumption DEF Request
<1>2. PICK found \in Docs \cup {None} :
          /\ GetOwnerSchema(i, r.id, found)
          /\ at' = [at EXCEPT ![i] = IF found = None THEN "count" ELSE "check"]
  BY DEF Register, Goto
<1>3. req' = [req EXCEPT ![i] = r] /\ UNCHANGED table /\ Registered' = Registered
  BY DEF Register, Registered
<1>4. found # None => table[r.id] # None
  BY <1>1, <1>2, NoneAssumption
  DEF GetOwnerSchema, ReadableRow, RegistryInv, RegistryTypeOK, CacheIsRegistered
<1>5. calm' => calm
  BY <1>2 DEF GetOwnerSchema
<1>6. ASSUME NEW j \in Hopeful' PROVE j \in Hopeful
  <2>1. CASE j = i
    BY <1>2, <1>3, <1>4, <2>1 DEF Hopeful, RegistryInv, RegistryTypeOK
  <2>2. CASE j # i
    BY <1>2, <1>3, <2>2 DEF Hopeful, RegistryInv, RegistryTypeOK
  <2>3. QED
    BY <2>1, <2>2
<1>7. QED
  BY <1>3, <1>5, <1>6, FewerHopesKeepQuota

LEMMA NextKeepsQuota ==
    ASSUME SomeInstances, RegistryInv, QuotaHolds, [RegistryNext]_registryVars
    PROVE  QuotaHolds'
<1>1. ASSUME UNCHANGED <<table, at, req>>, calm' => calm PROVE QuotaHolds'
  <2>1. Registered' = Registered /\ Hopeful' \subseteq Hopeful
    BY <1>1 DEF Registered, Hopeful
  <2>2. QED
    BY <1>1, <2>1, FewerHopesKeepQuota
<1>2. ASSUME NEW i \in Instances, Check(i) \/ Reread(i) \/ InstanceCrash(i) PROVE QuotaHolds'
  <2>1. UNCHANGED table /\ Registered' = Registered /\ (calm' => calm)
    <3>1. UNCHANGED table
      BY <1>2 DEF Check, Reread, InstanceCrash
    <3>2. CASE Check(i)
      <4>1. \E found : calm' = (calm /\ found = table[req[i].id])
        BY <3>2 DEF Check
      <4>2. QED
        BY <3>1, <4>1 DEF Registered
    <3>3. CASE Reread(i)
      <4>1. \E found : calm' = (calm /\ found = table[req[i].id])
        BY <3>3 DEF Reread
      <4>2. QED
        BY <3>1, <4>1 DEF Registered
    <3>4. CASE InstanceCrash(i)
      BY <3>1, <3>4 DEF InstanceCrash, Registered
    <3>5. QED
      BY <1>2, <3>2, <3>3, <3>4
  <2>2. \A j \in Instances : j # i => at'[j] = at[j] /\ req'[j] = req[j]
    BY <1>2 DEF Check, Reread, InstanceCrash, AnswerRegistration, Finish, Goto, RegistryInv, RegistryTypeOK
  <2>3. at'[i] = "idle" \/ (at'[i] = "put" /\ at[i] = "check" /\ req'[i] = req[i])
    BY <1>2 DEF Check, Reread, InstanceCrash, AnswerRegistration, Finish, Goto, RegistryInv, RegistryTypeOK
  <2>4. Hopeful' \subseteq Hopeful
    BY <2>1, <2>2, <2>3 DEF Hopeful
  <2>5. QED
    BY <2>1, <2>4, FewerHopesKeepQuota
<1>3. ASSUME NEW i \in Instances, NEW s \in Ids, Validate(i, s) \/ Forget(i, s)
      PROVE  QuotaHolds'
  BY <1>1, <1>3 DEF Validate, Forget, GetOwnerSchema
<1>4. ASSUME NEW s \in Ids, RowReplicates(s) PROVE QuotaHolds'
  BY <1>1, <1>4 DEF RowReplicates
<1>5. CASE UNCHANGED registryVars
  BY <1>1, <1>5 DEF registryVars
<1>6. QED
  BY <1>2, <1>3, <1>4, <1>5, CountKeepsQuota, PutKeepsQuota, RegisterKeepsQuota DEF RegistryNext

\* Counting and putting are two steps, but where every read was current an owner has at
\* most one schema too many for each other instance, for any quota.
THEOREM OverrunIsBounded == SomeInstances => (RegistrySpec => []QuotaOverrunIsBounded)
<1> SUFFICES ASSUME SomeInstances PROVE RegistrySpec => []QuotaOverrunIsBounded
  OBVIOUS
<1>1. RegistryInit => QuotaHolds
  <2> SUFFICES ASSUME RegistryInit PROVE QuotaHolds
    OBVIOUS
  <2>1. Registered = {} /\ Hopeful = {}
    BY DEF RegistryInit, Registered, Hopeful
  <2>2. Cardinality(Instances) \in Nat /\ Cardinality(Instances) >= 1
    BY SomeInstancesAreCounted
  <2>3. 0 + 0 <= MaxSchemas + Cardinality(Instances) - 1
    BY <2>2, MaxSchemasAssumption
  <2>4. QED
    BY <2>1, <2>3, FS_EmptySet DEF QuotaHolds
<1>2. RegistryInv /\ QuotaHolds /\ [RegistryNext]_registryVars => QuotaHolds'
  BY NextKeepsQuota
<1>3. QuotaHolds => QuotaOverrunIsBounded
  <2> SUFFICES ASSUME QuotaHolds, calm
               PROVE  Cardinality(Registered) <= MaxSchemas + Cardinality(Instances) - 1
    BY DEF QuotaOverrunIsBounded
  <2>1. Cardinality(Registered) \in Nat
    BY FS_CardinalityType DEF QuotaHolds
  <2>2. Cardinality(Hopeful) \in Nat
    <3>1. Hopeful \in SUBSET Instances
      BY DEF Hopeful
    <3>2. QED
      BY <3>1, SomeInstancesAreCounted
  <2>3. QED
    BY <2>1, <2>2, SomeInstancesAreCounted, MaxSchemasAssumption DEF QuotaHolds
<1>4. QED
  BY <1>1, <1>2, <1>3, RegistryInvInit, RegistryStep, PTL DEF RegistrySpec
================================================================================
