-------------------------------- MODULE GammaLog --------------------------------
(***************************************************************************)
(* The gamma log of an ethos: an entry per write, sealed to its readers,   *)
(* chained by hash and signed.  packages/protocol-core/src/gamma.ts.       *)
(* EthosEditions has the writes that append to it and the anchor that an   *)
(* edition keeps of it.                                                    *)
(*                                                                         *)
(* Ciphers, hashes and signatures are those of SealedKeys, a hash being    *)
(* what was hashed.  The nonce of a box is part of the box, that of a wrap *)
(* part of its ephemeral key.  Envelopes are a set, as the wraps of        *)
(* EthosBundle are.  Markers of versions, and ids, which are ULIDs, are    *)
(* values; the rename that replaces the file is one step.                  *)
(***************************************************************************)
EXTENDS EthosBundle, Sequences

-----------------------------------------------------------------------------
(***************************************************************************)
(* Readers: the spheres of the owner, agents that may read the log         *)
(***************************************************************************)

DefaultGammaReaderKeys(owner) ==
    {[recipient |-> KexLabel(owner.did, z), pubkey |-> PublicKey(owner.keys[z])] :
        z \in Spheres}

SubjectGammaReaderSecret(owner, zone) ==
    [recipient |-> KexLabel(owner.did, zone), secret |-> owner.keys[zone]]

\* The owner reads as the self sphere, an agent under its label.
ReaderSecretOf(author) ==
    IF author.kind = "owner" THEN SubjectGammaReaderSecret(author.owner, "self")
    ELSE [recipient |-> DelegateLabel(author.mandate.grantee.id, author.key),
          secret |-> author.key]

\* The wraps are those of the keys of zones and sections.
WrapEntryKey(key, reader, ephemeral) ==
    WrapDek(key, [did |-> reader.recipient, key |-> reader.pubkey], ephemeral)

UnwrapEntryKey(envelope, secret) == UnwrapDek(envelope, secret)

\* The wrapped key is left out.
ComputeReadersHash(envelopes) ==
    {[recipient |-> e.recipient, ephemeral |-> e.ephemeral] : e \in envelopes}
-----------------------------------------------------------------------------
(***************************************************************************)
(* Entries                                                                 *)
(***************************************************************************)

ComputeEntryHash(payload, header) ==
    [payload |-> payload, header |-> [header EXCEPT !.hash = Absent]]

SignableBytes(hash, key, by) == [hash |-> hash, by |-> by, key |-> key]

SphereGammaSigner(owner, zone) ==
    [keyId |-> Method(owner.did, zone), key |-> owner.keys[zone], mandate |-> Absent]

DelegateGammaSigner(mandate, key) == [keyId |-> key, key |-> key, mandate |-> mandate]

\* An agent that may not write the zone now gets none.
AuthorGammaSigner(author, zone, now) ==
    IF ~AssertCanWrite(author, zone, now) THEN Failed
    ELSE IF author.kind = "owner" THEN SphereGammaSigner(author.owner, zone)
    ELSE DelegateGammaSigner(author.mandate, author.key)

HeaderOf(input, envelopes) ==
    [id |-> input.id, at |-> input.at, subject |-> input.subject, zone |-> input.zone,
     op |-> input.op, target |-> input.target, prev |-> input.prev,
     prevSection |-> input.prevSection, readers |-> ComputeReadersHash(envelopes),
     hash |-> Absent]

SignatureOf(hash, signer) ==
    [key |-> signer.keyId, by |-> signer.mandate,
     value |-> [key |-> signer.key,
                over |-> SignableBytes(hash, signer.keyId, signer.mandate)]]

\* fresh: the key of the entry, and an ephemeral key for every reader.  The payload
\* has no associated data.
BuildGammaEntry(input, fresh) ==
    LET box == Seal(fresh.key, Absent, input.payload)
        envelopes == {WrapEntryKey(fresh.key, r, fresh.ephemerals[r]) : r \in input.readers}
        header == HeaderOf(input, envelopes)
        hash == ComputeEntryHash(box, header) IN
    IF input.readers = {} THEN Failed
    ELSE [payload |-> box, envelopes |-> envelopes,
          header |-> [header EXCEPT !.hash = hash],
          signature |-> SignatureOf(hash, input.signer)]
-----------------------------------------------------------------------------
(***************************************************************************)
(* Verification: of the chain and the signatures, without a key            *)
(***************************************************************************)

\* resolve: the pairs of key and mandate that the resolver of the caller accepts, or
\* Absent.
SignatureVerifies(signature, hash, doc, resolve) ==
    /\ signature.value.over = SignableBytes(hash, signature.key, signature.by)
    /\ IF signature.by = Absent THEN signature.value.key \in KeysOf(doc, signature.key)
       ELSE /\ resolve # Absent
            /\ <<signature.key, signature.by>> \in resolve
            /\ signature.value.key = signature.key

\* Follows the entry before, at a later millisecond.
Follows(header, prev) ==
    IF prev = Absent THEN header.prev = Absent
    ELSE header.prev = prev.header.hash /\ header.at > prev.header.at

VerifyGammaEntry(entry, doc, prev, resolve) ==
    /\ entry.header.readers = ComputeReadersHash(entry.envelopes)
    /\ entry.header.hash = ComputeEntryHash(entry.payload, entry.header)
    /\ Follows(entry.header, prev)
    /\ SignatureVerifies(entry.signature, entry.header.hash, doc, resolve)

Before(entries, i) == IF i = 1 THEN Absent ELSE entries[i - 1]

\* The places of the entries that do not verify.
VerifyGammaLog(entries, doc, resolve) ==
    {i \in DOMAIN entries : ~VerifyGammaEntry(entries[i], doc, Before(entries, i), resolve)}
-----------------------------------------------------------------------------
(***************************************************************************)
(* The file                                                                *)
(***************************************************************************)

\* file: Absent, or what is on the disk.
ReadGammaFile(file) ==
    IF file # Absent /\ file.version # "0.3.0" THEN Failed ELSE file

ReadGammaEntriesOnDisk(file) == IF file = Absent THEN <<>> ELSE ReadGammaFile(file).entries

\* What the file becomes.  Neither the chain nor the signer is looked at.
AppendGammaEntryOnDisk(file, entry) ==
    [version |-> "0.3.0", entries |-> Append(ReadGammaEntriesOnDisk(file), entry)]

GammaHead(file) ==
    LET entries == ReadGammaEntriesOnDisk(file) IN
    IF entries = <<>> THEN Absent ELSE entries[Len(entries)].header.hash

LatestGammaForSection(entries, id) ==
    LET about == {i \in DOMAIN entries : entries[i].header.target = id} IN
    IF about = {} THEN Absent
    ELSE entries[CHOOSE i \in about : \A j \in about : j <= i]

LatestGammaIdForSection(file, id) ==
    LET latest == LatestGammaForSection(ReadGammaEntriesOnDisk(file), id) IN
    IF latest = Absent THEN Absent ELSE latest.header.id
-----------------------------------------------------------------------------
(***************************************************************************)
(* Reading                                                                 *)
(***************************************************************************)

\* A reader without an envelope gets the header; one whose envelope does not open
\* makes the reading of the log fail.
OpenGammaEntry(entry, me) ==
    LET mine == {e \in entry.envelopes : e.recipient = me.recipient}
        key == UnwrapEntryKey(CHOOSE e \in mine : TRUE, me.secret)
        payload == Open(entry.payload, key, Absent) IN
    IF mine = {}
    THEN [header |-> entry.header, by |-> entry.signature.by, payload |-> Absent,
          denied |-> TRUE]
    ELSE IF key = Failed \/ payload = Failed THEN Failed
    ELSE [header |-> entry.header, by |-> entry.signature.by, payload |-> payload,
          denied |-> FALSE]

ReadGammaLogWith(file, me) ==
    LET entries == ReadGammaEntriesOnDisk(file)
        opened == [i \in DOMAIN entries |-> OpenGammaEntry(entries[i], me)] IN
    IF \E i \in DOMAIN entries : opened[i] = Failed THEN Failed ELSE opened

ReadGammaLogForAuthor(file, author) == ReadGammaLogWith(file, ReaderSecretOf(author))
=============================================================================
