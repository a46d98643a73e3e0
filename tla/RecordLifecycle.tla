--------------------------- MODULE RecordLifecycle ---------------------------
(***************************************************************************)
(* What the data PDS keeps of the life cycle of a record, as one atomic    *)
(* register per record.  It is that of the data model (insert makes a      *)
(* record ACTIVE, update keeps it ACTIVE, delete makes it SOFT-DELETED and *)
(* nothing leads back) with the exceptions of the code: a delete clears    *)
(* the content, as the chapter on the primitives has it and the data model *)
(* has not; an update without expected_modified_at may revive what was     *)
(* deleted; and what was erased may be created again.                      *)
(***************************************************************************)
CONSTANTS
    Records, Payloads, Wiped,
    Bare,       \* are there updates without expected_modified_at?
    Erasing     \* are there hard deletes?

VARIABLES life, content

States == {"NONE", "ACTIVE", "SOFT_DELETED"}

Init ==
    /\ life = [r \in Records |-> "NONE"]
    /\ content = [r \in Records |-> Wiped]

Become(r, state, payload) ==
    /\ life' = [life EXCEPT ![r] = state]
    /\ content' = [content EXCEPT ![r] = payload]

\* Insert gives a record its first content.
Insert(r) ==
    /\ life[r] = "NONE"
    /\ \E p \in Payloads : Become(r, "ACTIVE", p)

\* Update replaces the content of a record that is there.
Update(r) ==
    /\ life[r] = "ACTIVE"
    /\ \E p \in Payloads : Become(r, "ACTIVE", p)

\* A bare update gives a tombstone new content.
Revive(r) ==
    /\ Bare
    /\ life[r] = "SOFT_DELETED"
    /\ \E p \in Payloads : Become(r, "ACTIVE", p)

\* Delete leaves a tombstone without content, in the place of an erased record too.
Delete(r) ==
    /\ life[r] = "ACTIVE" \/ (Erasing /\ life[r] = "NONE")
    /\ Become(r, "SOFT_DELETED", Wiped)

\* Nothing is left.
Erase(r) ==
    /\ Erasing
    /\ Become(r, "NONE", Wiped)

Next == \E r \in Records : Insert(r) \/ Update(r) \/ Revive(r) \/ Delete(r) \/ Erase(r)

Spec == Init /\ [][Next]_<<life, content>>
=============================================================================
