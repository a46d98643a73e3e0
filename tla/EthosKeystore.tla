--------------------------- MODULE EthosKeystore ---------------------------
(***************************************************************************)
(* The live ethos directory of one identity, ~/.aithos/identities/<handle>/ *)
(* ethos/, as the commands of the CLI and the tools of the MCP server       *)
(* change it: packages/protocol-core/src/keystore-v3.ts, bundle-edit.ts,    *)
(* bundle-v03.ts, bundle-migrate.ts, ethos.ts and the commands grant,       *)
(* revoke and ethos add-, modify- and delete-section.                       *)
(*                                                                          *)
(* The directory is in one of two formats.  v0.2 has one file per zone,     *)
(* encrypted under one key per zone; v0.3, the default, has one file per    *)
(* section.  The manifest carries the format, and for every zone or section *)
(* the key's wraps.  The first owner write migrates v0.2 to v0.3 in place.  *)
(* An edition is built in a temporary directory, the old manifest archived, *)
(* and the files copied one by one; a process may die after any of them.    *)
(*                                                                          *)
(* Abstractions.  A ciphertext and the descriptor that opens it carry the   *)
(* same seal, the number of the edition that made them (for a public file   *)
(* the seal is the hash the descriptor has); a text is the number of the    *)
(* edition that wrote it.  Every edition is of one day, so a version is its *)
(* counter.  The gamma log is carried by copy and left out, and so are      *)
(* delegates' writes to a v0.2 directory and AITHOS_FORMAT=v0.2.  Commands  *)
(* do not overlap: the code has no lock, its user is the lock.              *)
(***************************************************************************)
EXTENDS Integers, FiniteSetsExt, Functions

CONSTANTS
    Sections,     \* section ids
    ZoneOf,       \* the zone of each section
    Delegates,    \* agents, each with at most one mandate
    SphereOf,     \* the actor_sphere of each agent's mandate, its one zone
    Scoped,       \* the agents whose mandate has a section_scope
    Covers,       \* the sections each mandate's scopes and section_scope match
    MaxEditions   \* bound: editions built

Zones == {"public", "circle", "self"}
Encrypted == Zones \ {"public"}
Owner == "owner"
None == 0

ASSUME KeystoreAssumption ==
    /\ ZoneOf \in [Sections -> Zones]
    /\ SphereOf \in [Delegates -> Encrypted]
    /\ Scoped \in SUBSET Delegates
    /\ Covers \in [Delegates -> SUBSET Sections]
    /\ MaxEditions \in Nat \ {0}
    /\ Owner \notin Delegates
    /\ "manifest" \notin Sections

VARIABLES
    manifest,   \* manifest.json
    history,    \* history/<version>.manifest.json: the edition archived there
    blobs,      \* v0.3 files <zone>/<id>.md|enc
    mono,       \* v0.2 files public.md, circle.md.enc, self.md.enc
    mandates,   \* mandates on disk
    revoked,    \* mandates with a revocation on disk
    job,        \* the command that runs, or Idle
    made,       \* editions built so far
    owed,       \* per section, the text of the last write that returned
    lost,       \* sections a process died on
    flattened,  \* a v0.2 edition was written over a v0.3 directory
    skipped,    \* a process died between a v0.2 manifest and its archive
    dropped     \* mandates whose revoke command returned

vars == <<manifest, history, blobs, mono, mandates, revoked, job, made, owed,
          lost, flattened, skipped, dropped>>
ghosts == <<owed, lost, flattened, skipped, dropped>>
files == <<manifest, history, blobs, mono>>

Empty == [x \in {} |-> x]

\* A file is written, over the old one if there is one.
Put(old, name, content) ==
    [x \in DOMAIN old \cup {name} |-> IF x = name THEN content ELSE old[x]]
Idle == [step |-> "idle"]
NewEdition == made + 1

(***************************************************************************)
(* Recipients.                                                              *)
(***************************************************************************)

\* Mutant: revocations are not looked up.
ActiveAnyway(z) == {d \in mandates : SphereOf[d] = z}

\* activeDelegatesForZone: whoever has a mandate for the zone that is not
\* revoked; section_scope is not looked at.
ActiveDelegates(z) == {d \in mandates \ revoked : SphereOf[d] = z}

\* Mutant: a public section is wrapped like the others.
RecipientsOfAll(author, s) ==
    IF author = Owner THEN {Owner} \cup ActiveDelegates(ZoneOf[s]) ELSE {Owner, author}

\* resolveZoneRecipients: the owner wraps for itself and for every agent
\* whose scopes match the section, an agent for the owner and itself.
Recipients(author, s) ==
    IF ZoneOf[s] = "public" THEN {}
    ELSE IF author = Owner
         THEN {Owner} \cup {d \in ActiveDelegates(ZoneOf[s]) : s \in Covers[d]}
         ELSE {Owner, author}

\* authorZoneWriteRecipients for the owner.
ZoneRecipients(z) == {Owner} \cup ActiveDelegates(z)

(***************************************************************************)
(* Reading.                                                                 *)
(***************************************************************************)

\* readSection: the file is there, opens with the descriptor's key and the
\* reader is on its wraps.
SectionOpens(reader, s) ==
    /\ s \in DOMAIN manifest.sections \cap DOMAIN blobs
    /\ blobs[s].seal = manifest.sections[s].seal
    /\ ZoneOf[s] # "public" => reader \in manifest.sections[s].wraps

\* loadZonePlaintext and decodeBundleV02 for the owner: a missing file is an
\* empty zone, public.md is read as it is, an encrypted zone needs the cipher
\* of a v0.2 manifest.
ZoneOpens(z) ==
    z \in DOMAIN mono \cap Encrypted =>
        /\ manifest.fmt = "v02"
        /\ mono[z].seal = manifest.zones[z].seal

ZoneDoc(z) == IF z \in DOMAIN mono THEN mono[z].doc ELSE Empty

\* What the owner reads for a section, None when the answer is "not found" or
\* an error.
Opens(s) ==
    CASE manifest.fmt = "v03" ->
            IF SectionOpens(Owner, s) THEN blobs[s].text ELSE None
      [] manifest.fmt = "v02" ->
            IF ZoneOpens(ZoneOf[s]) /\ s \in DOMAIN ZoneDoc(ZoneOf[s])
            THEN ZoneDoc(ZoneOf[s])[s] ELSE None

(***************************************************************************)
(* The initial directory: just initialised in v0.3, or a v0.2 ethos with    *)
(* every section, which some agents have been granted (numbered 1: the      *)
(* editions before it are not looked at).                                   *)
(***************************************************************************)

Fresh ==
    /\ manifest = [fmt |-> "v03", mark |-> 1, version |-> 1, prev |-> None,
                   supersedes |-> None, sections |-> Empty, zones |-> Empty]
    /\ history = Empty
    /\ mono = Empty
    /\ mandates = {}
    /\ owed = [s \in Sections |-> None]

Legacy ==
    /\ mandates \in SUBSET (Delegates \ Scoped)
    /\ manifest = [fmt |-> "v02", mark |-> 1, version |-> 1, prev |-> None,
                   supersedes |-> None, sections |-> Empty,
                   zones |-> [z \in Encrypted |->
                      [seal |-> 1, wraps |-> {Owner} \cup {d \in mandates : SphereOf[d] = z}]]]
    /\ history = Put(Empty, 1, 1)
    /\ mono = [z \in Zones |->
                  [seal |-> 1, doc |-> [s \in {x \in Sections : ZoneOf[x] = z} |-> 1]]]
    /\ owed = [s \in Sections |-> 1]

Init ==
    /\ Fresh \/ Legacy
    /\ blobs = Empty
    /\ revoked = {} /\ dropped = {}
    /\ job = Idle
    /\ made = 1
    /\ lost = {}
    /\ flattened = FALSE /\ skipped = FALSE

(***************************************************************************)
(* Edits: one section by the commands, several by applyEdits.               *)
(***************************************************************************)

\* The owner edits any section; an agent, with a mandate resolveAuthor finds
\* unrevoked, those of its sphere.  A batch needs a v0.3 directory, and an
\* owner's single edit migrates a v0.2 one first.
BeginEdit(author, ups, dels) ==
    /\ job = Idle
    /\ ups \cap dels = {}
    /\ ups \cup dels # {}
    /\ author # Owner => /\ author \in mandates \ revoked
                         /\ \A s \in ups \cup dels : ZoneOf[s] = SphereOf[author]
    /\ manifest.fmt = "v02" => author = Owner /\ Cardinality(ups \cup dels) = 1
    /\ job' = [step |-> IF manifest.fmt = "v02" THEN "migrate" ELSE "patch",
               author |-> author, ups |-> ups, dels |-> dels]
    /\ UNCHANGED <<files, mandates, revoked, made, ghosts>>

\* A new edition in the temporary directory: what it has in place of the
\* current one and the files still to copy.
Built(phase, sections, texts) ==
    [step |-> "archive", phase |-> phase,
     author |-> job.author, ups |-> job.ups, dels |-> job.dels,
     next |-> [fmt |-> "v03", mark |-> NewEdition,
               version |-> manifest.version + 1, prev |-> manifest.mark,
               supersedes |-> manifest.version,
               sections |-> sections, zones |-> Empty],
     blobs |-> [s \in DOMAIN texts |-> [seal |-> NewEdition, text |-> texts[s]]],
     todo |-> DOMAIN texts \cup {"manifest"}]

\* migrateKeystoreInPlace up to the swap: every section of every zone is
\* written again, for the recipients it has now.
MigrateBuild ==
    /\ job.step = "migrate"
    /\ made < MaxEditions
    /\ \A z \in Zones : ZoneOpens(z)
    /\ LET found == {s \in Sections : s \in DOMAIN ZoneDoc(ZoneOf[s])} IN
       job' = Built("migrate",
                    [s \in found |-> [seal |-> NewEdition, wraps |-> Recipients(Owner, s)]],
                    [s \in found |-> ZoneDoc(ZoneOf[s])[s]])
    /\ made' = NewEdition
    /\ UNCHANGED <<files, mandates, revoked, ghosts>>

\* mutate, editSectionsV03 and patchEditionV03 throw when a section to modify
\* does not open for the author, a section to delete is not there, or the file
\* of a section to carry over is missing.
Carried == DOMAIN manifest.sections \ (job.ups \cup job.dels)

CanPatch ==
    /\ \A s \in job.ups \cap DOMAIN manifest.sections : SectionOpens(job.author, s)
    /\ job.dels \subseteq DOMAIN manifest.sections
    /\ Carried \subseteq DOMAIN blobs

\* patchEditionV03: the sections written get a new key, the others are carried
\* over with file and descriptor (their files are copied over themselves).
PatchBuild ==
    /\ job.step = "patch"
    /\ made < MaxEditions
    /\ CanPatch
    /\ job' = Built("patch",
                    [s \in Carried \cup job.ups |->
                        IF s \in job.ups
                        THEN [seal |-> NewEdition, wraps |-> Recipients(job.author, s)]
                        ELSE manifest.sections[s]],
                    [s \in job.ups |-> NewEdition])
    /\ made' = NewEdition
    /\ UNCHANGED <<files, mandates, revoked, ghosts>>

\* The command throws before it changed anything.
Fail ==
    /\ \/ job.step \in {"migrate", "load"} /\ \E z \in Zones : ~ZoneOpens(z)
       \/ job.step = "patch" /\ ~CanPatch
    /\ job' = Idle
    /\ UNCHANGED <<files, mandates, revoked, made, ghosts>>

(***************************************************************************)
(* swapKeystoreEdition.                                                     *)
(***************************************************************************)

\* Mutant: under the new version.
ArchivedAsNew == job.next.version

\* The old manifest is archived under its own version.
ArchivedAs == manifest.version

Archive ==
    /\ job.step = "archive"
    /\ history' = Put(history, ArchivedAs, manifest.mark)
    /\ job' = [job EXCEPT !.step = "copy"]
    /\ UNCHANGED <<manifest, blobs, mono, mandates, revoked, made, ghosts>>

\* copyTree, one file; readdirSync promises no order.
CopyFile(f) ==
    /\ job.step = "copy"
    /\ f \in job.todo
    /\ IF f = "manifest"
       THEN manifest' = job.next /\ UNCHANGED blobs
       ELSE blobs' = Put(blobs, f, job.blobs[f]) /\ UNCHANGED manifest
    /\ job' = [job EXCEPT !.todo = @ \ {f},
                          !.step = IF job.todo = {f} THEN "clean" ELSE "copy"]
    /\ UNCHANGED <<history, mono, mandates, revoked, made, ghosts>>

\* Mutant: only what this edition wrote stays.
KeepWritten == DOMAIN job.blobs

\* The files that stay: those of the sections of the new manifest.
Keep == DOMAIN job.next.sections

\* The files nothing refers to are removed.  A migration goes on with the edit,
\* an edit returns.
Clean ==
    /\ job.step = "clean"
    /\ blobs' = Restrict(blobs, DOMAIN blobs \cap Keep)
    /\ mono' = Empty
    /\ IF job.phase = "migrate"
       THEN /\ job' = [step |-> "patch", author |-> job.author,
                       ups |-> job.ups, dels |-> job.dels]
            /\ UNCHANGED ghosts
       ELSE /\ job' = Idle
            /\ owed' = [s \in Sections |->
                           CASE s \in job.ups -> job.next.mark
                             [] s \in job.dels -> None
                             [] OTHER -> owed[s]]
            /\ lost' = lost \ (job.ups \cup job.dels)
            /\ UNCHANGED <<flattened, skipped, dropped>>
    /\ UNCHANGED <<manifest, history, mandates, revoked, made>>

(***************************************************************************)
(* Grant and revoke.                                                        *)
(***************************************************************************)

\* runGrant: the mandate is written; one with a section_scope waits for the
\* next v0.3 edition, any other is made effective at once.
Grant(d) ==
    /\ job = Idle
    /\ d \notin mandates
    /\ mandates' = mandates \cup {d}
    /\ job' = IF d \in Scoped THEN Idle ELSE [step |-> "load", revokes |-> {}]
    /\ UNCHANGED <<files, revoked, made, ghosts>>

\* runRevoke: the revocation is written, then maybeRepin.
Revoke(d) ==
    /\ job = Idle
    /\ d \in mandates \ dropped
    /\ revoked' = revoked \cup {d}
    /\ job' = [step |-> "load", revokes |-> {d}]
    /\ UNCHANGED <<files, mandates, made, ghosts>>

\* loadAllZones, then persistEdition's version and chain: the v0.2 functions,
\* whatever the format of the directory.
Load ==
    /\ job.step = "load"
    /\ made < MaxEditions
    /\ \A z \in Zones : ZoneOpens(z)
    /\ job' = [step |-> "zones", revokes |-> job.revokes,
               docs |-> [z \in Zones |-> ZoneDoc(z)], written |-> {},
               next |-> [fmt |-> "v02", mark |-> NewEdition,
                         version |-> Max(DOMAIN history \cup {0}) + 1,
                         prev |-> manifest.mark, supersedes |-> manifest.version,
                         sections |-> Empty,
                         zones |-> [z \in Encrypted |->
                                       [seal |-> NewEdition, wraps |-> ZoneRecipients(z)]]]]
    /\ made' = NewEdition
    /\ UNCHANGED <<files, mandates, revoked, ghosts>>

\* writeZoneToDisk, in the order of SPHERE_FRAGMENTS.
Before(z) == CASE z = "public" -> {}
               [] z = "circle" -> {"public"}
               [] z = "self" -> {"public", "circle"}

WriteZone(z) ==
    /\ job.step = "zones"
    /\ job.written = Before(z)
    /\ mono' = Put(mono, z, [seal |-> job.next.mark, doc |-> job.docs[z]])
    /\ job' = [job EXCEPT !.written = @ \cup {z}]
    /\ UNCHANGED <<manifest, history, blobs, mandates, revoked, made, ghosts>>

WriteManifest ==
    /\ job.step = "zones"
    /\ job.written = Zones
    /\ manifest' = job.next
    /\ flattened' = (flattened \/ manifest.fmt = "v03")
    /\ job' = [job EXCEPT !.step = "filed"]
    /\ UNCHANGED <<history, blobs, mono, mandates, revoked, made,
                   owed, lost, skipped, dropped>>

\* persistEdition archives the edition it wrote, and the command returns.
ArchiveNew ==
    /\ job.step = "filed"
    /\ history' = Put(history, job.next.version, job.next.mark)
    /\ dropped' = dropped \cup job.revokes
    /\ job' = Idle
    /\ UNCHANGED <<manifest, blobs, mono, mandates, revoked, made,
                   owed, lost, flattened, skipped>>

(***************************************************************************)
(* The process dies.                                                        *)
(***************************************************************************)

\* The sections whose file and descriptor may be of two editions: those an edit
\* touches while it is copied, those of a migration whose file does not follow
\* the manifest yet, those of the encrypted zones rewritten before their manifest.
Exposed ==
    CASE job.step \in {"copy", "clean"} /\ job.phase = "patch" -> job.ups \cup job.dels
      [] job.step = "copy" /\ job.phase = "migrate" ->
            IF "manifest" \in job.todo THEN {} ELSE job.todo
      [] job.step = "zones" /\ manifest.fmt = "v02" ->
            {s \in Sections : ZoneOf[s] \in job.written \cap Encrypted}
      [] OTHER -> {}

Crash ==
    /\ job # Idle
    /\ lost' = lost \cup Exposed
    /\ skipped' = (skipped \/ job.step = "filed")
    /\ job' = Idle
    /\ UNCHANGED <<files, mandates, revoked, made, owed, flattened, dropped>>

Next ==
    \/ \E author \in Delegates \cup {Owner}, ups, dels \in SUBSET Sections :
          BeginEdit(author, ups, dels)
    \/ MigrateBuild
    \/ PatchBuild
    \/ Fail
    \/ Archive
    \/ \E f \in Sections \cup {"manifest"} : CopyFile(f)
    \/ Clean
    \/ \E d \in Delegates : Grant(d) \/ Revoke(d)
    \/ Load
    \/ \E z \in Zones : WriteZone(z)
    \/ WriteManifest
    \/ ArchiveNew
    \/ Crash

Spec == Init /\ [][Next]_vars

(***************************************************************************)
(* Properties.                                                              *)
(***************************************************************************)

Editions == 0 .. MaxEditions
Locks == [seal : Editions, wraps : SUBSET (Delegates \cup {Owner})]

ManifestOK(m) ==
    /\ m.fmt \in {"v02", "v03"}
    /\ m.mark \in Editions \ {None} /\ m.version \in Editions \ {None}
    /\ m.prev \in Editions /\ m.supersedes \in Editions
    /\ DOMAIN m.sections \subseteq Sections
    /\ \A s \in DOMAIN m.sections :
          /\ m.sections[s] \in Locks
          /\ m.sections[s].wraps = {} <=> ZoneOf[s] = "public"
    /\ DOMAIN m.zones = IF m.fmt = "v02" THEN Encrypted ELSE {}
    /\ \A z \in DOMAIN m.zones : m.zones[z] \in Locks

\* Every variable has its type; a public section has no wraps and every other
\* one has (the cipher of a SectionDescriptor).
TypeOK ==
    /\ ManifestOK(manifest)
    /\ job.step \in {"archive", "copy", "clean", "zones", "filed"} => ManifestOK(job.next)
    /\ DOMAIN history \subseteq Editions
    /\ \A v \in DOMAIN history : history[v] \in Editions
    /\ DOMAIN blobs \subseteq Sections
    /\ DOMAIN mono \subseteq Zones
    /\ revoked \subseteq mandates /\ mandates \subseteq Delegates
    /\ dropped \subseteq revoked
    /\ made \in Editions
    /\ owed \in [Sections -> Editions]
    /\ lost \subseteq Sections

\* What a write that returned has written is what the owner reads, and what a
\* delete has removed is gone, for every section no process died on and none
\* is at work on: through edits, batches, migrations, grants and revokes.
AcknowledgedIsKept == \A s \in Sections \ (lost \cup Exposed) : Opens(s) = owed[s]

\* The same, as long as no grant or revoke has met a v0.3 directory (where it
\* fails: see the run MCEthosKeystore_grant).
KeptUnlessFlattened == flattened \/ AcknowledgedIsKept

\* The history holds the edition a v0.3 manifest supersedes, with the hash the
\* manifest has for it (checks 8 and 9 of a verifier), and the live version
\* names no other edition of the history.
EditionChain ==
    /\ manifest.fmt = "v03" /\ manifest.prev # None =>
          /\ manifest.supersedes \in DOMAIN history
          /\ history[manifest.supersedes] = manifest.prev
    /\ ~flattened /\ ~skipped =>
          \A v \in DOMAIN history :
             /\ v <= manifest.version
             /\ v = manifest.version => history[v] = manifest.mark

\* Once a revoke command has returned, no key of the live edition is wrapped for
\* the agent: later migrations and edits, by whomever, do not bring it back.
RevokedIsDropped ==
    ~flattened =>
        \A d \in dropped :
           /\ \A s \in DOMAIN manifest.sections : d \notin manifest.sections[s].wraps
           /\ \A z \in DOMAIN manifest.zones : d \notin manifest.zones[z].wraps


\* The types, and the chain of editions that a verifier walks from the manifest
\* back through the history.
DirectoryIsSound == TypeOK /\ EditionChain
=============================================================================
