------------------------------ MODULE EthosBundle ------------------------------
(***************************************************************************)
(* One edition of an ethos as a bundle that travels: who can open which    *)
(* section of it, what a new edition carries over from the one before, and *)
(* what a reader checks.  packages/protocol-core/src/bundle-v03.ts,        *)
(* bundle-v04.ts, bundle-v04-crypto.ts, identity.ts and the wraps and the  *)
(* recipients of ethos.ts.  EthosKeystore and EthosEditions have the       *)
(* directory these editions are installed in.                              *)
(*                                                                         *)
(* Ciphers and hashes are those of SealedKeys, signatures and scopes those *)
(* of Mandates; a sphere has one key, which signs and, converted, agrees.  *)
(* A bundle is a record of manifest, did document and files.  Wraps are a  *)
(* set: two under one label are for one key, and either serves.  The id of *)
(* a mandate is the mandate.  JSON, zip and names of sections that are not *)
(* well-formed are left out.                                               *)
(***************************************************************************)
EXTENDS SealedKeys, Mandates
-----------------------------------------------------------------------------
(***************************************************************************)
(* Identities.  The root key is the DID.                                   *)
(***************************************************************************)

DidOf(root) == [root |-> root]

CreateIdentity(root, keys) == [did |-> DidOf(root), root |-> root, keys |-> keys]

\* The root key signs the document and is not listed in it.
SignDidDocument(doc, root) ==
    [doc EXCEPT !.proof = [by |-> Method(doc.id, "root"), key |-> root, over |-> doc]]

BuildDidDocument(owner) ==
    [id |-> owner.did, epoch |-> NoKey, proof |-> Absent,
     methods |-> {[name |-> Method(owner.did, z), key |-> owner.keys[z]] : z \in Spheres}]

VerifyDidDocument(doc) ==
    /\ doc.proof # Absent
    /\ doc.proof.by = Method(doc.id, "root")
    /\ doc.id = DidOf(doc.proof.key)
    /\ doc.proof.over = [doc EXCEPT !.proof = Absent]
-----------------------------------------------------------------------------
(***************************************************************************)
(* Authors: the owner, or an agent with a mandate                          *)
(***************************************************************************)

OwnerAuthor(owner) == [kind |-> "owner", did |-> owner.did, owner |-> owner]

\* keys: those of the spheres, as the did document of the subject lists them.
DelegateAuthor(did, keys, key, mandate) ==
    IF mandate.grantee.key \in {NoKey, key} /\ mandate.issuer = did
    THEN [kind |-> "delegate", did |-> did, keys |-> keys, key |-> key,
          mandate |-> mandate]
    ELSE Failed

WholeZone(verb, zone) ==
    [family |-> "ethos", verb |-> verb, zone |-> zone,
     selector |-> [kind |-> "all", value |-> Absent]]

\* The exact scope, without a selector, and no clock skew.
AssertCanWrite(author, zone, now) ==
    author.kind = "delegate" =>
        /\ WholeZone("write", zone) \in author.mandate.scopes
        /\ author.mandate.sphere = zone
        /\ author.mandate.from <= now /\ now < author.mandate.until

AuthorCanRead(author, zone) ==
    author.kind = "delegate" =>
        {WholeZone("read", zone), WholeZone("write", zone), WholeZone("read", "all")}
            \cap author.mandate.scopes # {}
-----------------------------------------------------------------------------
(***************************************************************************)
(* Recipients: a label, the key to wrap for, and the mandate it comes from *)
(***************************************************************************)

KexLabel(did, zone) == [did |-> did, kex |-> zone]
DelegateLabel(id, key) == [grantee |-> id, key |-> key]

SubjectRecipient(did, keys, zone) ==
    [did |-> KexLabel(did, zone), key |-> PublicKey(keys[zone]), via |-> Absent]

GrantRecipient(m) ==
    [did |-> DelegateLabel(m.grantee.id, m.grantee.key),
     key |-> PublicKey(m.grantee.key), via |-> m]

\* on: the mandates and the revoked ones that the author's disk has.  Whether a
\* mandate is valid now, or verifies, is not asked.
ActiveGrants(on, did, zone) ==
    {m \in on.mandates \ on.revoked : /\ m.issuer = did
                                      /\ HasReadBearingEthosScopeForZone(m.scopes, zone)
                                      /\ m.grantee.key # NoKey}

\* An owner wraps for those whose scopes match the section, an agent for the
\* owner and itself.
ResolveZoneRecipients(author, zone, on, s) ==
    CASE zone = "public" -> {}
      [] zone # "public" /\ on.override # Absent -> on.override[zone]
      [] zone # "public" /\ on.override = Absent /\ author.kind = "owner" ->
            {SubjectRecipient(author.did, author.owner.keys, zone)} \cup
            {GrantRecipient(m) :
               m \in {g \in ActiveGrants(on, author.did, zone) :
                         CoversRead(g.scopes, zone, s) /\ SectionMatchesScope(s, g.sections)}}
      [] OTHER ->
            {SubjectRecipient(author.did, author.keys, zone),
             [did |-> DelegateLabel(author.mandate.grantee.id, author.key),
              key |-> PublicKey(author.key), via |-> author.mandate]}
-----------------------------------------------------------------------------
(***************************************************************************)
(* Sections.  A section has an id, a title, tags, the prefixes of its id,  *)
(* the gamma entry it comes from, and a body.  A title is a line: white    *)
(* space (lead), text, white space (tail).  A body is empty lines (lead),  *)
(* the comment with tags that it then begins with, if any, the rest, and   *)
(* white space (tail).  What is not there is Absent, and white space       *)
(* without text is tail.  An entry that is Absent is the empty one.        *)
(***************************************************************************)

EmptyTitle == [lead |-> Absent, text |-> Absent, tail |-> Absent]
EmptyBody == [lead |-> Absent, tags |-> Absent, text |-> Absent, tail |-> Absent]

IsBlank(body) == body.tags = Absent /\ body.text = Absent

\* White space at the end of all of it is left out.
RenderSectionMarkdown(s) ==
    [title |-> IF s.tags = {} /\ IsBlank(s.body) THEN [s.title EXCEPT !.tail = Absent]
               ELSE s.title,
     tags |-> s.tags,
     body |-> IF IsBlank(s.body) THEN EmptyBody ELSE [s.body EXCEPT !.tail = Absent]]

\* A heading has to have a character, if only a space.  What is around the title and
\* the empty lines before the body are lost, and the first comment with tags is
\* taken for the tags of the section.
ParseSectionMarkdown(md) ==
    LET taken == md.tags = {} /\ md.body.tags # Absent IN
    IF md.title = EmptyTitle THEN Failed
    ELSE [title |-> [lead |-> Absent, text |-> md.title.text, tail |-> Absent],
          tags |-> IF taken THEN md.body.tags ELSE md.tags,
          body |-> [lead |-> Absent, tags |-> IF taken THEN Absent ELSE md.body.tags,
                    text |-> md.body.text, tail |-> Absent]]

\* A wrap is bound to its recipient, not to what the key is for.
WrapDek(dek, r, ephemeral) == WrapFor("zone", dek, r.did, r.key, Absent, ephemeral)
UnwrapDek(wrap, secret) == Unwrap("zone", wrap, secret, Absent)

Labels(wraps) == {w.recipient : w \in wraps}

\* fresh: a key, and an ephemeral key for every recipient.
WrapsFor(recipients, fresh) ==
    {WrapDek(fresh.dek, r, fresh.ephemerals[r]) : r \in recipients}

OpenWith(box, wraps, aad, reader) ==
    LET wrap == CHOOSE w \in wraps : w.recipient = reader.did
        dek == UnwrapDek(wrap, reader.secret) IN
    IF reader.did \notin Labels(wraps) \/ dek = Failed THEN Failed
    ELSE Open(box, dek, aad)

SectionAad(subject, id) == <<"section", subject, id>>
TitleAad(subject, id) == <<"title", subject, id>>

EncryptSection(text, subject, id, recipients, fresh) ==
    [box |-> Seal(fresh.dek, SectionAad(subject, id), text),
     wraps |-> WrapsFor(recipients, fresh)]

DecryptSection(box, wraps, subject, id, reader) ==
    OpenWith(box, wraps, SectionAad(subject, id), reader)

EncryptSectionTitle(meta, subject, id, recipients, fresh) ==
    [box |-> Seal(fresh.dek, TitleAad(subject, id), meta),
     wraps |-> WrapsFor(recipients, fresh)]

DecryptSectionTitle(cipher, subject, id, reader) ==
    OpenWith(cipher.box, cipher.wraps, TitleAad(subject, id), reader)

Encrypted(zone) == zone # "public"
IndexEncrypted(zone) == zone = "self"

FileOf(zone, id) ==
    [zone |-> zone, id |-> id, ext |-> IF Encrypted(zone) THEN "enc" ELSE "md"]

TitleOf(s) == [title |-> s.title, tags |-> s.tags]

\* The descriptor for the manifest, and the file.  fresh.body and fresh.title: the
\* keys of each.
WriteSection(zone, subject, s, recipients, fresh) ==
    LET text == RenderSectionMarkdown(s)
        sealed == EncryptSection(text, subject, s.id, recipients, fresh.body)
        blob == IF Encrypted(zone) THEN sealed.box ELSE text IN
    [blob |-> blob,
     desc |-> [id |-> s.id, file |-> FileOf(zone, s.id), sha |-> text, ref |-> s.ref,
               blobSha |-> blob,
               wraps |-> IF Encrypted(zone) THEN sealed.wraps ELSE Absent,
               title |-> IF IndexEncrypted(zone) THEN Absent ELSE TitleOf(s),
               titleCipher |-> IF IndexEncrypted(zone)
                               THEN EncryptSectionTitle(TitleOf(s), subject, s.id,
                                                        recipients, fresh.title)
                               ELSE Absent]]

\* What a reader gets of a section, beside what the descriptor says; the hash of the
\* file as stored is not looked at.  Text that does not parse makes the reading of a
\* public section throw, and an encrypted one inaccessible.
ReadSection(encrypted, desc, files, subject, reader) ==
    LET text == IF ~encrypted THEN files[desc.file]
                ELSE DecryptSection(files[desc.file], desc.wraps, subject, desc.id, reader)
    IN  IF \/ desc.file \notin DOMAIN files
           \/ encrypted /\ (desc.wraps = Absent \/ reader = Absent)
           \/ text = Failed \/ text # desc.sha
        THEN Failed
        ELSE ParseSectionMarkdown(text)

\* The titles a reader sees, Absent where one is hidden.
ReadZoneIndex(zone, subject, reader) ==
    [i \in DOMAIN zone.sections |->
        LET d == zone.sections[i]
            meta == DecryptSectionTitle(d.titleCipher, subject, d.id, reader) IN
        IF ~zone.indexEncrypted THEN d.title
        ELSE IF reader = Absent \/ d.titleCipher = Absent \/ meta = Failed THEN Absent
        ELSE meta]
-----------------------------------------------------------------------------
(***************************************************************************)
(* The manifest and its signature                                          *)
(***************************************************************************)

Signed(m, key, by, value) ==
    [m EXCEPT !.signature = [key |-> key, by |-> by, value |-> value]]

Blank(m) == Signed(m, m.signature.key, m.signature.by, Absent)

\* The owner signs with the public sphere, an agent with its key, which names
\* its mandate.
SignManifest(author, m) ==
    LET owned == author.kind = "owner"
        signer == IF owned THEN author.owner.keys["public"] ELSE author.key
        key == IF owned THEN Method(author.did, "public") ELSE author.key
        by == IF owned THEN Absent ELSE author.mandate IN
    Signed(m, key, by, [key |-> signer, over |-> Signed(m, key, by, Absent)])

\* resolve: the pairs of key and mandate that the verifier's resolver accepts,
\* or Absent.
VerifyManifestSignature(m, doc, resolve) ==
    LET sig == m.signature IN
    /\ sig.value.over = Blank(m)
    /\ IF sig.by = Absent THEN sig.value.key \in KeysOf(doc, sig.key)
       ELSE resolve # Absent /\ <<sig.key, sig.by>> \in resolve /\ sig.value.key = sig.key
-----------------------------------------------------------------------------
(***************************************************************************)
(* Authoring an edition                                                    *)
(***************************************************************************)

\* Versions are a day and a number of that day.
AllocEditionVersion(day, version) ==
    [day |-> day,
     number |-> IF version # Absent /\ version.day = day THEN version.number + 1 ELSE 1]

\* after: the edition this one supersedes, or Absent.
Edition(day, after) ==
    IF after = Absent
    THEN [version |-> AllocEditionVersion(day, Absent), height |-> 1,
          supersedes |-> Absent, prevHash |-> Absent]
    ELSE [version |-> AllocEditionVersion(day, after.edition.version),
          height |-> after.edition.height + 1,
          supersedes |-> after.edition.version, prevHash |-> Blank(after)]

\* The labels of the wraps against the list of the recipients: as many, and
\* every recipient among them.
RecipientLabelsEqual(wraps, recipients) ==
    /\ Cardinality(Labels(wraps)) = Cardinality(recipients)
    /\ \A r \in recipients : r.did \in Labels(wraps)

\* The first one with this id, if any.
PrevDescriptors(prev, zone, id) ==
    LET all == prev.manifest.zones[zone].sections
        named == {i \in DOMAIN all : all[i].id = id} IN
    {all[i] : i \in {j \in named : \A k \in named : j <= k}}

\* Same text, same provenance, same readers: descriptor and file are kept.
CanCarry(prev, d, zone, s, recipients) ==
    /\ d.sha = RenderSectionMarkdown(s) /\ d.ref = s.ref
    /\ Encrypted(zone) =>
         RecipientLabelsEqual(IF d.wraps = Absent THEN {} ELSE d.wraps, recipients)
    /\ d.file \in DOMAIN prev.files

Carryable(prev, zone, s, recipients) ==
    IF prev = Absent THEN {}
    ELSE {d \in PrevDescriptors(prev, zone, s.id) : CanCarry(prev, d, zone, s, recipients)}

SectionEntry(author, zone, s, prev, on, fresh) ==
    LET recipients == ResolveZoneRecipients(author, zone, on, s)
        carryable == Carryable(prev, zone, s, recipients) IN
    IF carryable # {}
    THEN LET d == CHOOSE d \in carryable : TRUE IN [desc |-> d, blob |-> prev.files[d.file]]
    ELSE WriteSection(zone, author.did, s, recipients, fresh)

\* A delegate authors the zone of its mandate; the others are carried over whole.
Authors(author, zone) == author.kind = "owner" \/ author.mandate.sphere = zone

\* fresh: the keys for each zone and place, as every write draws its own.
Entries(author, zone, sections, prev, on, fresh) ==
    IF Authors(author, zone)
    THEN [i \in DOMAIN sections[zone] |->
             SectionEntry(author, zone, sections[zone][i], prev, on, fresh[zone][i])]
    ELSE [i \in DOMAIN prev.manifest.zones[zone].sections |->
             LET d == prev.manifest.zones[zone].sections[i] IN
             [desc |-> d, blob |-> prev.files[d.file]]]

\* What makes authorBundleV03 throw.  The window of a mandate is not looked at when
\* its zone is the public one.
MayAuthor(author, prev, now) ==
    \A zone \in Spheres :
        /\ Authors(author, zone) /\ Encrypted(zone) => AssertCanWrite(author, zone, now)
        /\ ~Authors(author, zone) =>
             /\ prev # Absent
             /\ \A i \in DOMAIN prev.manifest.zones[zone].sections :
                   prev.manifest.zones[zone].sections[i].file \in DOMAIN prev.files

ZoneOf(zone, entries) ==
    [format |-> "v2", encrypted |-> Encrypted(zone), indexEncrypted |-> IndexEncrypted(zone),
     sections |-> [i \in DOMAIN entries |-> entries[i].desc]]

\* Of the sections of a zone that have one file, the last one written leaves its own.
FilesOf(entries) ==
    LET places == UNION {{<<z, i>> : i \in DOMAIN entries[z]} : z \in Spheres}
        File(p) == entries[p[1]][p[2]].desc.file
        Last(f) == CHOOSE p \in places :
                      /\ File(p) = f
                      /\ \A q \in places : File(q) = f /\ q[1] = p[1] => q[2] <= p[2] IN
    [f \in {File(p) : p \in places} |-> entries[Last(f)[1]][Last(f)[2]].blob]

BuildManifest(author, did, edition, zones, gamma) ==
    [aithos |-> "0.3.0", subject |-> author.did, edition |-> edition, zones |-> zones,
     gamma |-> gamma, didHash |-> did, signature |-> [key |-> Method(author.did, "public"),
                                                      by |-> Absent, value |-> Absent]]

\* did: the did document; prev: the edition to carry from, or Absent; chain: without
\* it, the manifest to supersede, or Absent; anchor: the gamma anchor, or Absent to
\* keep the one of prev.
AuthorBundle(author, did, sections, prev, chain, on, day, anchor, fresh) ==
    LET entries == [z \in Spheres |-> Entries(author, z, sections, prev, on, fresh)]
        after == IF prev = Absent THEN chain ELSE prev.manifest
        gamma == IF anchor = Absent /\ prev # Absent THEN prev.manifest.gamma ELSE anchor IN
    [did |-> did, files |-> FilesOf(entries),
     manifest |-> SignManifest(author,
        BuildManifest(author, did, Edition(day, after),
                      [z \in Spheres |-> ZoneOf(z, entries[z])], gamma))]
-----------------------------------------------------------------------------
(***************************************************************************)
(* Verification                                                            *)
(***************************************************************************)

ReadersOf(readers, wraps) == {r \in readers : r.did \in Labels(wraps)}

\* The title is in the clear or sealed, by the zone.  An empty one counts as missing
\* where it is in the clear.
DescriptorErrors(zone, d) ==
    {e \in {"file", "title", "ref", "cipher"} :
        \/ e = "file" /\ d.file # FileOf(zone, d.id)
        \/ e = "title" /\ IndexEncrypted(zone)
                       /\ (d.title # Absent \/ d.titleCipher = Absent)
        \/ e = "title" /\ ~IndexEncrypted(zone)
                       /\ (d.title = Absent \/ d.title.title = EmptyTitle
                             \/ d.titleCipher # Absent)
        \/ e = "ref" /\ d.ref = Absent
        \/ e = "cipher" /\ (d.wraps # Absent) # Encrypted(zone)}

\* The title has to open for a reader that has a wrap of it.
TitleError(zone, d, bundle, readers) ==
    LET mine == ReadersOf(readers, d.titleCipher.wraps) IN
    /\ IndexEncrypted(zone) /\ d.titleCipher # Absent /\ mine # {}
    /\ DecryptSectionTitle(d.titleCipher, bundle.manifest.subject, d.id,
                           CHOOSE r \in mine : TRUE) = Failed

\* A public file has to hash to what the descriptor says, and an encrypted one to
\* open to that for a reader that has a wrap: when none has, nothing is asked.
ContentErrors(zone, d, bundle, readers) ==
    LET mine == IF d.wraps = Absent THEN {} ELSE ReadersOf(readers, d.wraps) IN
    {e \in {"missing", "sha", "decrypt"} :
        \/ e = "missing" /\ d.file \notin DOMAIN bundle.files
        \/ /\ e = "sha" /\ d.file \in DOMAIN bundle.files
           /\ ~Encrypted(zone) /\ bundle.files[d.file] # d.sha
        \/ /\ e = "decrypt" /\ d.file \in DOMAIN bundle.files
           /\ Encrypted(zone) /\ mine # {}
           /\ DecryptSection(bundle.files[d.file], d.wraps, bundle.manifest.subject, d.id,
                             CHOOSE r \in mine : TRUE) # d.sha}

\* A file of the zone's directory that no section declares.
Orphan(zone, sections, files) ==
    \E f \in DOMAIN files : /\ f.zone = zone
                            /\ \A i \in DOMAIN sections : f # FileOf(zone, sections[i].id)

ZoneErrors(zone, bundle, readers) ==
    LET zm == bundle.manifest.zones[zone] IN
    {e \in {"format", "encrypted", "index", "orphan"} :
        \/ e = "format" /\ zm.format # "v2"
        \/ e = "encrypted" /\ zm.encrypted # Encrypted(zone)
        \/ e = "index" /\ zm.indexEncrypted # IndexEncrypted(zone)
        \/ e = "orphan" /\ Orphan(zone, zm.sections, bundle.files)}
    \cup UNION {UNION {DescriptorErrors(zone, zm.sections[i]),
                       ContentErrors(zone, zm.sections[i], bundle, readers),
                       IF TitleError(zone, zm.sections[i], bundle, readers)
                       THEN {"index"} ELSE {}} : i \in DOMAIN zm.sections}

\* before: the manifest of the edition before, where the verifier has it.
BundleErrors(bundle, readers, resolve, before) ==
    LET m == bundle.manifest IN
    {e \in {"version", "did", "did-hash", "subject", "signature", "edition", "prev"} :
        \/ e = "version" /\ m.aithos # "0.3.0"
        \/ e = "did" /\ ~VerifyDidDocument(bundle.did)
        \/ e = "did-hash" /\ bundle.did # m.didHash
        \/ e = "subject" /\ m.subject # bundle.did.id
        \/ e = "signature" /\ ~VerifyManifestSignature(m, bundle.did, resolve)
        \/ e = "edition" /\ (m.edition.height < 1
                             \/ (m.edition.prevHash = Absent) # (m.edition.supersedes = Absent))
        \/ e = "prev" /\ before # Absent /\ m.edition.prevHash # Blank(before)}
    \cup UNION {ZoneErrors(z, bundle, readers) : z \in Spheres}

VerifyBundle(bundle, readers, resolve, before) ==
    BundleErrors(bundle, readers, resolve, before) = {}
-----------------------------------------------------------------------------
(***************************************************************************)
(* The format 0.4.0: shards of descriptors, and one key per zone that      *)
(* seals the keys of its sections                                          *)
(***************************************************************************)

ShardTarget == 128
ShardCounts == {1, 2, 4, 8, 16, 32, 64}

ShardCountForN(n) ==
    LET buckets == (n + ShardTarget - 1) \div ShardTarget IN
    IF buckets > 64 THEN 64
    ELSE CHOOSE c \in ShardCounts :
            c >= buckets /\ \A d \in ShardCounts : d >= buckets => c <= d

\* hash: the first four bytes of the hash of an id.
ShardIndexForSection(hash, id, count) == hash[id] % count

ShardEntries(entries, hash, count) ==
    [i \in 0 .. count - 1 |->
        {e \in entries : ShardIndexForSection(hash, e.id, count) = i}]

SealZoneKey(zk, r, ephemeral) == WrapDek(zk, r, ephemeral)
OpenZoneKey(entry, secret) == UnwrapDek(entry, secret)

DekAad(subject, zone, id, kid) == <<"dek", subject, zone, id, kid>>

EncryptDek(zk, dek, subject, zone, id) ==
    [kid |-> zk.kid, box |-> Seal(zk.key, DekAad(subject, zone, id, zk.kid), dek)]
DecryptDek(key, enc, subject, zone, id) ==
    Open(enc.box, key, DekAad(subject, zone, id, enc.kid))

TitleAadV2(subject, id) == <<"title2", subject, id>>

EncryptTitleV2(dek, subject, id, meta) == Seal(dek, TitleAadV2(subject, id), meta)
DecryptTitleV2(dek, subject, id, cipher) == Open(cipher, dek, TitleAadV2(subject, id))

BuildManifestV04(author, did, edition, zones, gamma) ==
    [BuildManifest(author, did, edition, zones, gamma) EXCEPT !.aithos = "0.4.0"]

\* Signing and verifying are as for 0.3.0.
SignManifestV04(author, m) == SignManifest(author, m)
VerifyManifestSignatureV04(m, doc, resolve) == VerifyManifestSignature(m, doc, resolve)
=============================================================================
