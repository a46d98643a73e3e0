------------------------------ MODULE GammaChain ------------------------------
(***************************************************************************)
(* The gamma log of one subject (gamma/store.ts of the data PDS; the       *)
(* assets PDS has the same append): a table of entries keyed by ULID, each *)
(* with the hash of the entry that was the head when it was made.          *)
(*                                                                         *)
(* appendGammaEntry queries the head, draws a ULID and puts the entry with *)
(* no condition on the head.  An entry is its ULID and that of its         *)
(* predecessor (0: genesis); a hash names one entry, so prev_hash is the   *)
(* predecessor's ULID.                                                     *)
(***************************************************************************)
EXTENDS Integers, FiniteSetsExt

CONSTANTS
    Writers,     \* the requests that append an entry each
    MaxUlid,     \* ULIDs are 1..MaxUlid (bound)
    WalkLimit    \* how many entries verifyChain reads: 1000 in the code

ASSUME MaxUlidAssumption == MaxUlid \in Nat
ASSUME WalkLimitAssumption == WalkLimit \in Nat

VARIABLES
    entries,   \* the table
    visible,   \* the entries a lagging replica has
    pc,        \* the next step of each append
    head,      \* the head that the query returned, 0 if there is none
    ulid,      \* the ULID that the append drew, 0 before
    calm       \* history: appends came one at a time, each read the current
               \* head, and each drew a later ULID than those before it

vars == <<entries, visible, pc, head, ulid, calm>>
-----------------------------------------------------------------------------
Ulids == 1..MaxUlid

Entry == [id: Ulids, prev: 0..MaxUlid]

Steps == {"idle", "draw", "put", "done"}

Ids(S) == {e.id : e \in S}

\* Mutant: the query is not turned around.
OldestOf(S) == IF S = {} THEN 0 ELSE Min(Ids(S))

\* getHead: the entry with the latest ULID.
HeadOf(S) == IF S = {} THEN 0 ELSE Max(Ids(S))

Init ==
    /\ entries = {}
    /\ visible = {}
    /\ pc = [w \in Writers |-> "idle"]
    /\ head = [w \in Writers |-> 0]
    /\ ulid = [w \in Writers |-> 0]
    /\ calm = TRUE

\* The Query for the newest entry, without ConsistentRead.
ReadHead(w) ==
    /\ pc[w] = "idle"
    /\ \E S \in {entries, visible} :
          /\ head' = [head EXCEPT ![w] = HeadOf(S)]
          /\ calm' = (calm /\ HeadOf(S) = HeadOf(entries)
                           /\ \A v \in Writers : pc[v] \in {"idle", "done"})
    /\ pc' = [pc EXCEPT ![w] = "draw"]
    /\ UNCHANGED <<entries, visible, ulid>>

\* The reply is there: ulid() takes the time of this machine, which may be
\* behind that of another, and random bits, which no two draws share.
DrawUlid(w) ==
    /\ pc[w] = "draw"
    /\ \E id \in Ulids :
          /\ \A v \in Writers : id # ulid[v]
          /\ ulid' = [ulid EXCEPT ![w] = id]
          /\ calm' = (calm /\ \A v \in Writers : id > ulid[v])
    /\ pc' = [pc EXCEPT ![w] = "put"]
    /\ UNCHANGED <<entries, visible, head>>

\* Mutant: the entry points to itself.
EntryOfSelf(w) == [id |-> ulid[w], prev |-> ulid[w]]

EntryOf(w) == [id |-> ulid[w], prev |-> head[w]]

\* Mutant: the entry is seen by readers and not kept by the table.
PutAtReplica(w) ==
    /\ pc[w] = "put"
    /\ visible' = visible \cup {EntryOf(w)}
    /\ pc' = [pc EXCEPT ![w] = "done"]
    /\ UNCHANGED <<entries, head, ulid, calm>>

\* PutCommand with attribute_not_exists(entry_id).  Drawn ULIDs are unique.
PutEntry(w) ==
    /\ pc[w] = "put"
    /\ entries' = entries \cup {EntryOf(w)}
    /\ pc' = [pc EXCEPT ![w] = "done"]
    /\ UNCHANGED <<visible, head, ulid, calm>>

\* The invocation dies before its put.
Crash(w) ==
    /\ pc[w] \in {"draw", "put"}
    /\ pc' = [pc EXCEPT ![w] = "done"]
    /\ UNCHANGED <<entries, visible, head, ulid, calm>>

Replicate ==
    /\ visible # entries
    /\ visible' = entries
    /\ UNCHANGED <<entries, pc, head, ulid, calm>>

Next ==
    \/ \E w \in Writers : ReadHead(w) \/ DrawUlid(w) \/ PutEntry(w) \/ Crash(w)
    \/ Replicate

Spec == Init /\ [][Next]_vars
-----------------------------------------------------------------------------
Earlier(S, e) == {f \in S : f.id < e.id}

\* The entry names the one before it in the order of ULIDs.
Linked(S, e) == e.prev = HeadOf(Earlier(S, e))

\* Mutant: the verdict is that of the last entry walked.
VerifiedAtLast(S) ==
    \A e \in S : Cardinality(Earlier(S, e)) = Cardinality(S) - 1 => Linked(S, e)

\* verifyChain: the first WalkLimit entries, in the order of ULIDs.
Verified(S) ==
    \A e \in S : Cardinality(Earlier(S, e)) < WalkLimit => Linked(S, e)

Forked(S) == \E e, f \in S : e # f /\ e.prev = f.prev
-----------------------------------------------------------------------------
(***************************************************************************)
(* Properties                                                              *)
(***************************************************************************)

\* Every variable keeps its type.
TypeOK ==
    /\ entries \subseteq Entry
    /\ visible \subseteq entries
    /\ pc \in [Writers -> Steps]
    /\ head \in [Writers -> 0..MaxUlid]
    /\ ulid \in [Writers -> 0..MaxUlid]
    /\ calm \in BOOLEAN

\* The log is a tree rooted at genesis: an entry names genesis or an entry that
\* is there, and following the predecessors never comes back, although ULIDs
\* are drawn out of order, appends overlap and die, and heads are stale.
RootedAtGenesis ==
    /\ \A e \in entries : e.prev \in Ids(entries) \cup {0}
    /\ \A T \in (SUBSET entries) \ {{}} : \E e \in T : e.prev \notin Ids(T)

\* As long as appends came one at a time, read the current head and drew later
\* and later ULIDs, the chain verifies and has no fork, wherever appends died.
SerialAppendsVerify == calm => Verified(entries) /\ ~Forked(entries)

\* A chain that fails to verify stays so, until it outgrows the walk: no later or
\* delayed append mends it, so that a failed verification is not a matter of when
\* it was run.
BrokenStaysBroken ==
    [][Cardinality(entries') <= WalkLimit /\ ~Verified(entries)
          => ~Verified(entries')]_vars
=============================================================================
