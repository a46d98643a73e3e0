------------------------------- MODULE SealedKeys -------------------------------
(***************************************************************************)
(* The keys that clients seal for one another: packages/data-crypto and    *)
(* packages/assets-crypto.  A collection has a master key (CMK), wrapped   *)
(* for the owner and for each app; a record has a key (DEK) of its own,    *)
(* sealed under the CMK, or wrapped for the owner if it is a deposit; an   *)
(* asset has a key (AMK) that is wrapped like a CMK.                       *)
(*                                                                         *)
(* Abstractions.  The ciphers are ideal: a box opens with its key and the  *)
(* associated data it was sealed with, and with nothing else.  A key pair  *)
(* is its private key, and two of them agree on the set of their private   *)
(* keys.  Fresh keys are arguments.  Associated data are the parts that    *)
(* the code joins with NUL: DIDs, names and ids hold none.  Lengths,       *)
(* encodings and what a malformed box is refused for are left out.  A hash *)
(* is what was hashed.                                                     *)
(***************************************************************************)

CONSTANTS
    Failed, \* what an operation that throws returns
    Absent  \* a field that is not there

PublicKey(private) == [of |-> private]
SharedSecret(private, public) == {private, public.of}

Seal(key, aad, text) == [key |-> key, aad |-> aad, text |-> text]
Open(box, key, aad) == IF box.key = key /\ box.aad = aad THEN box.text ELSE Failed

\* A wrap of a key for one recipient.  use tells CMKs, deposits and AMKs apart, by
\* the salt of the derivation and by the associated data.
WrapKey(use, secret, url) == [salt |-> use, secret |-> secret, info |-> url]
WrapAAD(use, context, url) == [prefix |-> use, context |-> context, recipient |-> url]

WrapFor(use, key, url, public, context, ephemeral) ==
    [recipient |-> url, ephemeral |-> PublicKey(ephemeral),
     box |-> Seal(WrapKey(use, SharedSecret(ephemeral, public), url),
                  WrapAAD(use, context, url), key)]

Unwrap(use, wrap, private, context) ==
    Open(wrap.box, WrapKey(use, SharedSecret(private, wrap.ephemeral), wrap.recipient),
         WrapAAD(use, context, wrap.recipient))
-----------------------------------------------------------------------------
(***************************************************************************)
(* Records.  at: the subject, the collection and the id of the record.     *)
(***************************************************************************)

WrapDEKForCMK(dek, cmk, at) == Seal(cmk, <<"dek", at>>, dek)
UnwrapDEKFromCMK(wrapped, cmk, at) == Open(wrapped, cmk, <<"dek", at>>)

WrapDEKForRecipient(dek, url, public, at, ephemeral) ==
    WrapFor("deposit", dek, url, public, at, ephemeral)
UnwrapDEKForRecipient(wrap, private, at) == Unwrap("deposit", wrap, private, at)

EncryptRecord(payload, cmk, at, dek) ==
    [body |-> Seal(dek, <<"record", at>>, payload),
     forCMK |-> WrapDEKForCMK(dek, cmk, at), forOwner |-> Absent]

EncryptRecordForRecipient(payload, url, public, at, dek, ephemeral) ==
    [body |-> Seal(dek, <<"record", at>>, payload), forCMK |-> Absent,
     forOwner |-> WrapDEKForRecipient(dek, url, public, at, ephemeral)]

DecryptRecord(record, cmk, at) ==
    LET dek == UnwrapDEKFromCMK(record.forCMK, cmk, at) IN
    IF record.forCMK = Absent \/ dek = Failed THEN Failed
    ELSE Open(record.body, dek, <<"record", at>>)

DecryptDepositedRecord(record, private, at) ==
    LET dek == UnwrapDEKForRecipient(record.forOwner, private, at) IN
    IF record.forOwner = Absent \/ dek = Failed THEN Failed
    ELSE Open(record.body, dek, <<"record", at>>)

\* A deposit cannot be rewrapped.
RewrapRecordDEK(record, old, new, at) ==
    LET dek == UnwrapDEKFromCMK(record.forCMK, old, at) IN
    IF record.forCMK = Absent \/ dek = Failed THEN Failed
    ELSE [record EXCEPT !.forCMK = WrapDEKForCMK(dek, new, at)]
-----------------------------------------------------------------------------
(***************************************************************************)
(* Collections.  urn names the collection; wraps is a function from the    *)
(* recipients.                                                             *)
(***************************************************************************)

WrapCMKForRecipient(cmk, url, public, urn, ephemeral) ==
    WrapFor("cmk", cmk, url, public, urn, ephemeral)
UnwrapCMK(wrap, private, urn) == Unwrap("cmk", wrap, private, urn)

CreateCollection(urn, owner, public, cmk, ephemeral) ==
    [urn |-> urn,
     wraps |-> [u \in {owner} |-> WrapCMKForRecipient(cmk, u, public, urn, ephemeral)]]

\* The CMK, as one of its recipients finds it.
CMKOf(collection, holder, private) ==
    IF holder \in DOMAIN collection.wraps
    THEN UnwrapCMK(collection.wraps[holder], private, collection.urn)
    ELSE Failed

AuthorizeApp(collection, app, public, holder, private, ephemeral) ==
    LET cmk == CMKOf(collection, holder, private)
        wraps == collection.wraps IN
    IF app \in DOMAIN wraps \/ cmk = Failed THEN Failed
    ELSE [collection EXCEPT !.wraps =
            [u \in DOMAIN wraps \cup {app} |->
               IF u \in DOMAIN wraps THEN wraps[u]
               ELSE WrapCMKForRecipient(cmk, app, public, collection.urn, ephemeral)]]

\* Any recipient can be revoked but the last: the owner is one like the others.
RevokeApp(collection, app) ==
    LET rest == DOMAIN collection.wraps \ {app} IN
    IF app \notin DOMAIN collection.wraps \/ rest = {} THEN Failed
    ELSE [collection EXCEPT !.wraps = [u \in rest |-> collection.wraps[u]]]

\* retained: the public keys of those that keep their access; records: those to be
\* rewrapped; at: where each record is.
Rewrapped(records, old, new, at) ==
    [r \in DOMAIN records |-> RewrapRecordDEK(records[r], old, new, at[r])]

RotateCMK(collection, retained, records, at, holder, private, new, ephemerals) ==
    LET old == CMKOf(collection, holder, private)
        rewrapped == Rewrapped(records, old, new, at) IN
    IF \/ old = Failed \/ DOMAIN retained = {}
       \/ \E r \in DOMAIN records : rewrapped[r] = Failed
    THEN Failed
    ELSE [collection |-> [collection EXCEPT !.wraps =
             [u \in DOMAIN retained |->
                WrapCMKForRecipient(new, u, retained[u], collection.urn, ephemerals[u])]],
          records |-> rewrapped]
-----------------------------------------------------------------------------
(***************************************************************************)
(* Assets                                                                  *)
(***************************************************************************)

WrapAMKForRecipient(amk, url, public, urn, ephemeral) ==
    WrapFor("amk", amk, url, public, urn, ephemeral)
UnwrapAMK(wrap, private, urn) == Unwrap("amk", wrap, private, urn)

EncryptAssetBytes(amk, urn, plaintext) ==
    [blob |-> Seal(amk, <<"asset", urn>>, plaintext), hash |-> plaintext]

\* expected: the hash to check, or Absent.
DecryptAssetBytes(blob, amk, urn, expected) ==
    LET plaintext == Open(blob, amk, <<"asset", urn>>) IN
    IF expected \in {Absent, plaintext} THEN plaintext ELSE Failed
=============================================================================
