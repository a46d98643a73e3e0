----------------------------- MODULE EditSession -----------------------------
(***************************************************************************)
(* The edits of one MCP session: the write tools, ethos_commit and         *)
(* ethos_discard of packages/mcp/src/server.ts, over the edit functions of *)
(* packages/protocol-core/src/filesystem-storage.ts and bundle-edit.ts.    *)
(*                                                                         *)
(* Writes are staged in a transaction of the server instance and persisted *)
(* as one edition by ethos_commit, or one by one on a host that commits by *)
(* itself.  Handlers are asynchronous: every await lets the other calls of *)
(* the session run, and the client need not wait for one answer before it  *)
(* makes its next call.  Others write to the same ethos meanwhile, and     *)
(* mandates are revoked or expire.                                         *)
(*                                                                         *)
(* Abstractions.  A section is a zone and an id; what it holds is a title  *)
(* and a body, and a body is the sequence of the calls that wrote its      *)
(* parts.  Tags behave as the title does.  The session has one handle.     *)
(* What FilesystemStorage does between two awaits is one step: how an      *)
(* edition reaches the disk is in EthosKeystore.  A call that is refused   *)
(* before its first await changes nothing and is not recorded.             *)
(***************************************************************************)
EXTENDS Integers, Sequences, FiniteSetsExt, TLC

CONSTANTS
    Zones,    \* zones of the ethos
    Present,  \* the sections it has at first, pairs of a zone and an id
    Mandates, \* ids of the mandates a session may write under
    ZoneOf,   \* the zone whose ethos.write scope each carries
    Plans     \* bounds on what happens; a behaviour has one of them

Owner == "owner"
None == 0
Nothing == [x \in {} |-> x]
Blank == [title |-> None, body |-> <<>>]
WriteOps == {"add", "title", "body", "append", "delete"}
Ops == WriteOps \cup {"commit"}

\* calls: how many the client makes; overlap: may it make one before the answer
\* to the last; auto: does the host commit by itself; outside: writes by others.
ASSUME EditAssumption ==
    /\ Owner \notin Mandates
    /\ Present \subseteq Zones \X STRING
    /\ ZoneOf \in [Mandates -> Zones]
    /\ \A p \in Plans : /\ p.calls \in Nat /\ p.outside \in Nat
                        /\ p.overlap \in BOOLEAN /\ p.auto \in BOOLEAN
                        /\ p.ops \subseteq Ops
                        /\ p.authorities \subseteq Mandates \cup {Owner}
                        /\ p.deaths \subseteq {"revoked", "expired"}

VARIABLES
    plan,     \* the plan of this behaviour
    ethos,    \* what the persisted sections hold
    editions, \* the editions this session wrote, with what was there before
    tx,       \* the open transaction, or None
    batches,  \* every transaction there has been: its authority and its writes
    calls,    \* the calls of the session
    dead,     \* why a mandate is no longer live
    outside   \* how many writes others have made

\* History: what a client or an operator could have known.
VARIABLES
    discarded, \* transactions that were discarded
    raced,     \* writes in flight together with a commit or a discard
    crowded,   \* writes in flight together with another write
    contested, \* transactions with two commits, or a discard, at a time
    stale      \* transactions that others wrote beside

editHistory == <<discarded, raced, crowded, contested, stale>>
editVars == <<plan, ethos, editions, tx, batches, calls, dead, outside, editHistory>>

InFlight == {c \in DOMAIN calls : calls[c].step # "done"}
Writing == {c \in InFlight : calls[c].op \in WriteOps}
Committing == {c \in InFlight : calls[c].op = "commit"}
-----------------------------------------------------------------------------
(***************************************************************************)
(* Batched edits                                                           *)
(***************************************************************************)

\* One function laid over another, and functions with and without an argument.
Over(f, g) == [x \in DOMAIN f \cup DOMAIN g |-> IF x \in DOMAIN f THEN f[x] ELSE g[x]]
With(f, x, v) == [y \in DOMAIN f \cup {x} |-> IF y = x THEN v ELSE f[y]]
Without(f, xs) == [y \in DOMAIN f \ xs |-> f[y]]

\* applyChange: fields of the change over those of the section.
Changed(section, change) == Over(change, section)

\* One edit of a batch, given the persisted sections: upserts and deletes so far.
Resolve(persisted, acc, e) ==
    LET s == e.section
        was == IF s \in DOMAIN acc.upserts THEN acc.upserts[s]
               ELSE IF s \in DOMAIN persisted \ acc.deletes THEN persisted[s] ELSE Blank
    IN  IF e.op = "delete"
        THEN [upserts |-> Without(acc.upserts, {s}),
              deletes |-> acc.deletes \cup ({s} \cap DOMAIN persisted),
              missing |-> acc.missing \/ s \notin DOMAIN persisted \cup DOMAIN acc.upserts]
        ELSE [upserts |-> With(acc.upserts, s, Changed(was, e.change)),
              deletes |-> acc.deletes \ {s},
              missing |-> acc.missing]

Unedited == [upserts |-> Nothing, deletes |-> {}, missing |-> FALSE]

\* editSectionsV03: what a batch amounts to.
NetOf(persisted, writes) ==
    LET net[n \in 0 .. Len(writes)] ==
            IF n = 0 THEN Unedited ELSE Resolve(persisted, net[n - 1], writes[n])
    IN  net[Len(writes)]

\* Mutant: a batch of deletes is taken for nothing.
Upserting(net) == ~net.missing /\ DOMAIN net.upserts # {}

\* It throws on a delete of what is not there, and when nothing is left of it.
Applies(net) == ~net.missing /\ (DOMAIN net.upserts # {} \/ net.deletes # {})

\* patchEditionV03, by its sections.
Patched(persisted, net) == Over(net.upserts, Without(persisted, net.deletes))

\* assertCanWrite of the author of an edition, for its zones that are encrypted: the
\* window of the mandate, and not whether it is revoked.
CanWrite(auth, net) ==
    auth \in DOMAIN dead /\ dead[auth] = "expired" =>
        \A s \in DOMAIN net.upserts \cup net.deletes : s[1] = "public"
-----------------------------------------------------------------------------
(***************************************************************************)
(* Transactions                                                            *)
(***************************************************************************)

\* assertMandateLive.
MandateLive(auth) == auth \notin DOMAIN dead

\* resolveWriteFor: the mandate covers the zone and is live.
MayWrite(auth, zone) == auth # Owner => ZoneOf[auth] = zone /\ MandateLive(auth)

\* enroll: one authority per transaction.
CanEnroll(auth) == tx = None \/ batches[tx].auth = auth

\* The transaction a write enrols in.
Enrolled == IF tx = None THEN Len(batches) + 1 ELSE tx
BatchesWith(auth) ==
    IF tx = None THEN Append(batches, [auth |-> auth, writes |-> <<>>]) ELSE batches

\* Mutant: nothing that is staged counts.
PersistedView(writes, s) == [at |-> "storage", change |-> Nothing]

\* effectiveSection, up to its read: the last write that touched the section.  A
\* modify is laid over the add below it, or else over what is persisted; other
\* modifies in between are passed over.
View(writes, s) ==
    LET touching == {i \in DOMAIN writes : writes[i].section = s}
        below == {i \in touching \ {Max(touching)} : writes[i].op # "modify"}
        last == writes[Max(touching)]
        added == below # {} /\ writes[Max(below)].op = "add"
    IN  IF touching = {} THEN [at |-> "storage", change |-> Nothing]
        ELSE CASE last.op = "delete" -> [at |-> "gone", change |-> Nothing]
               [] last.op = "add" -> [at |-> "session", change |-> last.change]
               [] last.op = "modify" /\ added ->
                    [at |-> "session",
                     change |-> Over(last.change, writes[Max(below)].change)]
               [] OTHER -> [at |-> "storage", change |-> last.change]

\* The edit that a call stages, once it has seen the section.
EditOf(c) ==
    LET call == calls[c] IN
    [by |-> c, section |-> call.section,
     op |-> CASE call.op = "add" -> "add" [] call.op = "delete" -> "delete"
              [] OTHER -> "modify",
     change |-> CASE call.op = "add" -> [title |-> c, body |-> <<c>>]
                  [] call.op = "title" -> [title |-> c]
                  [] call.op = "body" -> [body |-> <<c>>]
                  [] call.op = "append" -> [body |-> Append(call.seen.body, c)]
                  [] call.op = "delete" -> Nothing]
-----------------------------------------------------------------------------
(***************************************************************************)
(* The tools                                                               *)
(***************************************************************************)

Answer(c, answer) == calls' = [calls EXCEPT ![c].step = "done", ![c].answer = answer]

\* A call arrives and is let in.
Arrive(op, auth, section, batch) ==
    calls' = Append(calls, [op |-> op, auth |-> auth, section |-> section,
                            batch |-> batch, step |-> "begun", view |-> "none",
                            seen |-> Blank, answer |-> "none"])

MayCall == Len(calls) < plan.calls /\ (plan.overlap \/ InFlight = {})

\* What a call may name: the sections there were, and those it was told of.
Known == Present \cup {calls[c].section : c \in {d \in DOMAIN calls :
                           calls[d].op = "add" /\ calls[d].answer \in {"staged", "written"}}}

\* A write tool is called: resolveHandle and resolveWriteFor.
BeginWrite(op, auth, section) ==
    /\ MayCall
    /\ op \in plan.ops \cap WriteOps
    /\ MayWrite(auth, section[1])
    /\ Arrive(op, auth, section, None)
    /\ raced' = IF Committing # {} THEN raced \cup {Len(calls) + 1} ELSE raced
    /\ crowded' = IF Writing # {} THEN crowded \cup Writing \cup {Len(calls) + 1}
                  ELSE crowded
    /\ UNCHANGED <<plan, ethos, editions, tx, batches, dead, outside, discarded,
                   contested, stale>>

\* A new section gets an id that nothing else has.
BeginAdd(auth, zone) == BeginWrite("add", auth, <<zone, ToString(Len(calls) + 1)>>)

Refuse(c) ==
    /\ Answer(c, "refused")
    /\ UNCHANGED <<plan, ethos, editions, tx, batches, dead, outside, editHistory>>

\* The write joins a transaction: its edit is pushed on the batch it has in hand.
Push(c, batch, all) ==
    /\ batches' = [all EXCEPT ![batch].writes = Append(@, EditOf(c))]
    /\ calls' = [calls EXCEPT ![c].step = "done", ![c].answer = "staged",
                              ![c].batch = batch]

\* ethos_add_section, and the end of ethos_append_section: enrol and push at once.
StageAtOnce(c) ==
    /\ ~plan.auto
    /\ \/ calls[c].op = "add" /\ calls[c].step = "begun"
       \/ calls[c].op = "append" /\ calls[c].step = "seen"
    /\ IF CanEnroll(calls[c].auth)
       THEN /\ tx' = Enrolled
            /\ Push(c, Enrolled, BatchesWith(calls[c].auth))
            /\ UNCHANGED <<plan, ethos, editions, dead, outside, editHistory>>
       ELSE Refuse(c)

\* Where a look at the section leads: to a read, to what was seen, or to a refusal.
Looked(c, view, batch) ==
    calls' = [calls EXCEPT
        ![c].batch = batch,
        ![c].view = IF view.at = "storage" /\ view.change # Nothing THEN "over" ELSE view.at,
        ![c].step = CASE view.at = "gone" -> "done" [] view.at = "session" -> "seen"
                      [] OTHER -> "reading",
        ![c].answer = IF view.at = "gone" THEN "refused" ELSE @,
        ![c].seen = Changed(Blank, view.change)]

\* ethos_update_section and ethos_delete_section enrol, and then look: a refusal
\* leaves the transaction that it has opened.
EnrollAndLook(c) ==
    /\ ~plan.auto
    /\ calls[c].op \in {"title", "body", "delete"} /\ calls[c].step = "begun"
    /\ IF CanEnroll(calls[c].auth)
       THEN /\ tx' = Enrolled
            /\ batches' = BatchesWith(calls[c].auth)
            /\ Looked(c, View(batches'[Enrolled].writes, calls[c].section), Enrolled)
            /\ UNCHANGED <<plan, ethos, editions, dead, outside, editHistory>>
       ELSE Refuse(c)

\* ethos_append_section looks first.
LookForAppend(c) ==
    /\ calls[c].op = "append" /\ calls[c].step = "begun"
    /\ Looked(c, View(IF tx = None THEN <<>> ELSE batches[tx].writes, calls[c].section),
              None)
    /\ UNCHANGED <<plan, ethos, editions, tx, batches, dead, outside, editHistory>>

\* persistedSection.  A staged modify is laid over what is there, if anything is.
\* (What the modify does not set is Blank in seen: the two are told apart by the
\* calls that set them.)
ReadPersisted(c) ==
    LET s == calls[c].section
        there == s \in DOMAIN ethos
        over == calls[c].seen
        base == IF there THEN ethos[s] ELSE Blank IN
    /\ calls[c].step = "reading"
    /\ IF there \/ calls[c].view = "over"
       THEN /\ calls' = [calls EXCEPT
                   ![c].step = "seen",
                   ![c].seen = [title |-> IF over.title # None THEN over.title ELSE base.title,
                                body |-> IF over.body # <<>> THEN over.body ELSE base.body]]
            /\ UNCHANGED <<plan, ethos, editions, tx, batches, dead, outside, editHistory>>
       ELSE Refuse(c)

\* The end of ethos_update_section and ethos_delete_section: the edit is pushed on
\* the transaction they enrolled in, whatever has become of it.
StageSeen(c) ==
    /\ ~plan.auto
    /\ calls[c].op \in {"title", "body", "delete"} /\ calls[c].step = "seen"
    /\ Push(c, calls[c].batch, batches)
    /\ UNCHANGED <<plan, ethos, editions, tx, dead, outside, editHistory>>

\* An edition of some writes: it is kept with what was there before.
Seal(c, auth, writes, batch) ==
    LET net == NetOf(ethos, writes) IN
    /\ ethos' = Patched(ethos, net)
    /\ editions' = Append(editions, [by |-> c, auth |-> auth, batch |-> batch,
                                     writes |-> writes, before |-> ethos, after |-> ethos'])

\* A host that commits by itself: addSection, modifySection and deleteSection of the
\* storage, each an edition of its own; only ethos_append_section looks first.
WriteNow(c) ==
    LET call == calls[c]
        net == NetOf(ethos, <<EditOf(c)>>) IN
    /\ plan.auto
    /\ call.op \in WriteOps
    /\ call.step = IF call.op = "append" THEN "seen" ELSE "begun"
    /\ IF Applies(net) /\ CanWrite(call.auth, net)
       THEN /\ Seal(c, call.auth, <<EditOf(c)>>, None)
            /\ Answer(c, "written")
            /\ UNCHANGED <<plan, tx, batches, dead, outside, editHistory>>
       ELSE Refuse(c)

\* ethos_commit, up to its liveness check: the batch is taken from tx.
BeginCommit ==
    /\ MayCall
    /\ "commit" \in plan.ops /\ ~plan.auto
    /\ tx # None /\ batches[tx].writes # <<>>
    /\ MandateLive(batches[tx].auth)
    /\ Arrive("commit", batches[tx].auth, <<>>, tx)
    /\ raced' = raced \cup Writing
    /\ contested' = IF \E c \in Committing : calls[c].batch = tx
                    THEN contested \cup {tx} ELSE contested
    /\ UNCHANGED <<plan, ethos, editions, tx, batches, dead, outside, discarded, crowded,
                   stale>>

\* applyEdits on the writes the batch has by now; an error leaves the transaction.
Apply(c) ==
    LET t == calls[c].batch
        writes == batches[t].writes
        net == NetOf(ethos, writes) IN
    /\ calls[c].op = "commit" /\ calls[c].step = "begun"
    /\ IF Applies(net) /\ CanWrite(batches[t].auth, net)
       THEN /\ Seal(c, batches[t].auth, writes, t)
            /\ calls' = [calls EXCEPT ![c].step = "applied"]
            /\ UNCHANGED <<plan, tx, batches, dead, outside, editHistory>>
       ELSE Refuse(c)

\* Mutant: the transaction stays.
Kept(t) == t

\* Whatever transaction there is now is dropped.
Cleared(t) == None

Finish(c) ==
    /\ calls[c].op = "commit" /\ calls[c].step = "applied"
    /\ tx' = Cleared(tx)
    /\ Answer(c, "committed")
    /\ UNCHANGED <<plan, ethos, editions, batches, dead, outside, editHistory>>

\* ethos_discard.
Discard ==
    /\ plan.overlap \/ InFlight = {}
    /\ tx # None
    /\ tx' = None
    /\ discarded' = discarded \cup {tx}
    /\ raced' = raced \cup Writing
    /\ contested' = IF \E c \in Committing : calls[c].batch = tx
                    THEN contested \cup {tx} ELSE contested
    /\ UNCHANGED <<plan, ethos, editions, batches, calls, dead, outside, crowded, stale>>
-----------------------------------------------------------------------------
(***************************************************************************)
(* Others                                                                  *)
(***************************************************************************)

\* Another session or a command writes the body of a section, or deletes it.
WriteBeside(s) ==
    /\ outside < plan.outside
    /\ s \in DOMAIN ethos
    /\ \/ ethos' = [ethos EXCEPT ![s].body = <<0 - outside - 1>>]
       \/ ethos' = Without(ethos, {s})
    /\ outside' = outside + 1
    /\ stale' = stale \cup ({tx} \ {None})
                \cup {calls[c].batch : c \in {d \in InFlight : calls[d].batch # None}}
    /\ crowded' = crowded \cup Writing
    /\ UNCHANGED <<plan, editions, tx, batches, calls, dead, discarded, raced, contested>>

\* A mandate is revoked, or its window closes.
MandateEnds(m, why) ==
    /\ m \notin DOMAIN dead
    /\ why \in plan.deaths
    /\ dead' = With(dead, m, why)
    /\ UNCHANGED <<plan, ethos, editions, tx, batches, calls, outside, editHistory>>

EditInit ==
    /\ plan \in Plans
    /\ ethos = [s \in Present |-> [title |-> None, body |-> <<None>>]]
    /\ editions = <<>> /\ batches = <<>> /\ calls = <<>>
    /\ tx = None
    /\ dead = Nothing
    /\ outside = 0
    /\ discarded = {} /\ raced = {} /\ crowded = {} /\ contested = {} /\ stale = {}

EditNext ==
    \/ \E auth \in plan.authorities :
          \/ \E z \in Zones : BeginAdd(auth, z)
          \/ \E s \in Known, op \in WriteOps \ {"add"} : BeginWrite(op, auth, s)
    \/ BeginCommit
    \/ \E c \in InFlight :
          \/ StageAtOnce(c) \/ EnrollAndLook(c) \/ LookForAppend(c) \/ ReadPersisted(c)
          \/ StageSeen(c) \/ WriteNow(c) \/ Apply(c) \/ Finish(c)
    \/ Discard
    \/ \E s \in Present : WriteBeside(s)
    \/ \E m \in Mandates, why \in {"revoked", "expired"} : MandateEnds(m, why)
-----------------------------------------------------------------------------
(***************************************************************************)
(* Properties                                                              *)
(***************************************************************************)

\* The editions that carry a write.
SealedIn(c) == {i \in DOMAIN editions : \E j \in DOMAIN editions[i].writes :
                                            editions[i].writes[j].by = c}

\* A client that commits and discards only while no other call of it is out loses
\* nothing and seals nothing twice: each write it was told is staged is in the
\* open transaction, or in exactly one edition, or was discarded.
StagedOnce ==
    \A c \in DOMAIN calls :
        calls[c].answer = "staged" /\ c \notin raced /\ calls[c].batch \notin contested =>
            LET t == calls[c].batch
                open == tx = t /\ ~\E d \in Committing :
                                      calls[d].batch = t /\ calls[d].step = "applied"
            IN  \/ open /\ SealedIn(c) = {} /\ t \notin discarded
                \/ ~open /\ Cardinality(SealedIn(c)) = 1 /\ t \notin discarded
                \/ ~open /\ SealedIn(c) = {} /\ t \in discarded

\* What a call was said to do to the sections, be it an append or not.
Said(sections, e, appends) ==
    LET s == e.section
        was == IF s \in DOMAIN sections THEN sections[s] ELSE Blank
    IN  IF e.op = "delete" THEN Without(sections, {s})
        ELSE With(sections, s, IF appends THEN [was EXCEPT !.body = Append(@, e.by)]
                               ELSE Changed(was, e.change))

\* What the calls of a batch were said to do, one after the other.
Meant(sections, writes) ==
    LET said[n \in 0 .. Len(writes)] ==
            IF n = 0 THEN sections
            ELSE Said(said[n - 1], writes[n], calls[writes[n].by].op = "append")
    IN  said[Len(writes)]

\* An append whose view of the section missed a staged body, because the last
\* modify below it sets something else.
Masked(writes) ==
    \E i, j, k \in DOMAIN writes :
        /\ i < j /\ j < k
        /\ \A n \in {i, j, k} : writes[n].section = writes[k].section /\ writes[n].op = "modify"
        /\ calls[writes[k].by].op = "append"
        /\ "body" \in DOMAIN writes[i].change /\ "body" \notin DOMAIN writes[j].change

\* An edition holds what its calls were said to do, in the order of their answers,
\* when the client made them one at a time and nobody wrote beside; but for an
\* append above a title above a body, which drops the body.
EditionsAreAsMeant ==
    \A i \in DOMAIN editions :
        LET e == editions[i] IN
        \/ \E j \in DOMAIN e.writes : e.writes[j].by \in crowded \cup raced
        \/ e.batch \in stale \cup contested
        \/ Masked(e.writes)
        \/ e.after = Meant(e.before, e.writes)

\* An edition is of one authority, which staged every write of it and, if it is a
\* mandate, covered its zone.
OneAuthorityPerEdition ==
    \A i \in DOMAIN editions : \A j \in DOMAIN editions[i].writes :
        LET w == editions[i].writes[j] IN
        /\ calls[w.by].auth = editions[i].auth
        /\ editions[i].auth # Owner => ZoneOf[editions[i].auth] = w.section[1]

\* An edition has one author that was entitled to all of it, and holds what its calls
\* were said to do.
EditionsAreSound == OneAuthorityPerEdition /\ EditionsAreAsMeant

\* A commit that fails once it is let in: its batch amounts to nothing, its mandate
\* expired, or something went on beside it.
CommitFailsForAReason ==
    \A c \in DOMAIN calls :
        calls[c].op = "commit" /\ calls[c].answer = "refused" =>
            LET t == calls[c].batch
                adds == {calls[d].section : d \in {x \in DOMAIN calls :
                             calls[x].op = "add" /\ calls[x].batch = t}}
            IN  \/ calls[c].auth \in DOMAIN dead
                \/ t \in stale \cup contested
                \/ \E d \in DOMAIN calls : calls[d].batch = t /\ d \in crowded \cup raced
                \/ \A j \in DOMAIN batches[t].writes :
                        batches[t].writes[j].by < c => batches[t].writes[j].section \in adds
=============================================================================
