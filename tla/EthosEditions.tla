---------------------------- MODULE EthosEditions ----------------------------
(***************************************************************************)
(* Editions of a v0.2 ethos and the gamma log beside them, in the keystore *)
(* of the owner and in those of its delegates: packages/protocol-core/src/ *)
(* ethos.ts, gamma.ts, author.ts, bundle.ts, and the commands ethos        *)
(* add-, modify-, delete-section, pack, install, verify, grant, revoke,    *)
(* gamma verify and rotate.                                                *)
(*                                                                         *)
(* A write appends a sealed entry to the log and persists an edition:      *)
(* the zones its author may sign, the snapshot of did.json, the manifest,  *)
(* its archive.  Bundles carry an edition from one keystore to another,    *)
(* where it is installed file by file.  A process may die between any two  *)
(* files.  Keystores share nothing but bundles and nothing locks one, so   *)
(* one command runs at a time: its user is the lock.                       *)
(*                                                                         *)
(* Abstractions.  An entry is its place in entries, which is its id and    *)
(* its hash; an edition is its place in drafts, which is its manifest's    *)
(* hash and the seal of the zone files it wrote.  The title and the body   *)
(* of a section are the entries that set them.  Every edition is of one    *)
(* day, so a version is the counter of that day.                           *)
(***************************************************************************)
EXTENDS Integers, SequencesExt

CONSTANTS
    Agents,       \* the delegates, each with a keystore and at most one mandate
    SphereOf,     \* the actor_sphere of each one's mandate, which it may write
    GammaReaders, \* those whose mandate carries gamma.read
    Sections,     \* section ids
    ZoneOf,       \* the zone each belongs to
    Plans         \* bounds on what happens; a behaviour has one of them

Spheres == <<"public", "circle", "self">>
Zones == {"public", "circle", "self"}
Private == Zones \ {"public"}
Owner == "owner"
Keystores == Agents \cup {Owner}
None == 0

\* writes, editions: how many are begun; rotates: the keys that may be rotated;
\* shares: may bundles travel; ticks: by how much the clock of a keystore may advance
\* from one write to the next; deaths: how many processes may die; logOnly: those
\* whose mandate has gamma.read and nothing else.
ASSUME EditionsAssumption ==
    /\ Owner \notin Agents
    /\ SphereOf \in [Agents -> Zones]
    /\ GammaReaders \subseteq Agents
    /\ ZoneOf \in [Sections -> Zones]
    /\ \A p \in Plans : /\ p.writes \in Nat /\ p.editions \in Nat
                        /\ p.rotates \subseteq Zones
                        /\ p.shares \in BOOLEAN /\ p.ticks \subseteq Nat
                        /\ p.deaths \in Nat /\ p.logOnly \subseteq GammaReaders

VARIABLES
    plan,      \* the plan of this behaviour
    disk,      \* the files of each keystore
    seeds,     \* the version of each sealed sphere seed of the owner
    mandates,  \* the mandates, with the version of the key that signed them
    revoked,   \* the mandates the owner has a revocation of
    entries,   \* every gamma entry ever built
    drafts,    \* every manifest ever built
    job,       \* the command that runs, or Idle
    bundles,   \* what each keystore packed last
    clock,     \* the timestamp last given on the machine of each keystore
    deaths,    \* processes that have died
    lost,      \* history: entries whose process died before their zone file
    torn,      \* history: keystores whose files are of two bundles
    died,      \* history: keystores where a process died, and that installed what it
               \* left; the next edition of the owner puts the owner's right
    dropped,   \* history: agents whose revocation has returned
    readmitted \* history: those of them that an installed bundle has as readers

history == <<lost, torn, died, dropped, readmitted>>
vars == <<plan, disk, seeds, mandates, revoked, entries, drafts, job, bundles,
          clock, deaths, history>>

FirstKeys == [z \in Zones |-> 1]
Empty == [x \in {} |-> x]
Idle == [step |-> "idle"]
NoFile == [seal |-> None, doc |-> Empty]
NoBundle == [manifest |-> None]

\* f with v at x.
Put(f, x, v) == [y \in DOMAIN f \cup {x} |-> IF y = x THEN v ELSE f[y]]
-----------------------------------------------------------------------------
(***************************************************************************)
(* Recipients and reading                                                  *)
(***************************************************************************)

\* activeDelegatesForZone, from the mandates and the revocations on the disk.
ActiveDelegates(z) ==
    {a \in DOMAIN mandates \ (revoked \cup plan.logOnly) : SphereOf[a] = z}

\* The manifest of a keystore; an agent's has none before its first install.
Manifest(k) == drafts[disk[k].manifest]
Installed(k) == disk[k].manifest # None

\* loadZonePlaintext: a missing file is an empty zone, public.md is read as it
\* is, the others open with the cipher of the manifest, for whom it is wrapped.
Opens(k, z) ==
    \/ z = "public"
    \/ disk[k].zones[z].seal = None
    \/ LET lock == Manifest(k).zones[z] IN
       /\ disk[k].zones[z].seal = lock.seal
       /\ IF k = Owner THEN lock.kex = seeds[z] ELSE k \in lock.wraps

\* loadAllZones: the owner's three zones, or the one of the agent.
Loaded(k) == IF k = Owner THEN Zones ELSE {SphereOf[k]}
CanLoad(k) == \A z \in Loaded(k) : Opens(k, z)
Docs(k) ==
    [z \in Zones |-> IF z \in Loaded(k) THEN disk[k].zones[z].doc ELSE Empty]

\* computeGammaReaders: those of the previous manifest, or the owner's own keys;
\* an agent cannot begin the list (an empty one throws).
ReadersFor(k) ==
    IF Manifest(k).readers # {} THEN Manifest(k).readers
    ELSE IF k = Owner THEN {Owner} ELSE {}

\* The version of the self key that this list has for the owner.  It is carried on
\* with the list, whatever becomes of the key.
SelfKeyFor(k) == IF Manifest(k).readers # {} THEN Manifest(k).self ELSE seeds["self"]

\* safeReadGammaAnchor, where the command names no readers: the list stays as it is,
\* and the owner begins one once there is a log.
CarriedReaders ==
    IF disk[Owner].log = <<>> THEN Manifest(Owner).readers ELSE ReadersFor(Owner)

\* Mutant: the head that the manifest commits to.
AnchoredHead(k) == Manifest(k).head

\* gammaHeadForAuthor: the hash of the log's last entry.
GammaHead(k) == IF disk[k].log = <<>> THEN None ELSE Last(disk[k].log)

\* latestGammaIdForSection.
LatestOf(log, s) == Max({None} \cup {e \in ToSet(log) : entries[e].section = s})
-----------------------------------------------------------------------------
(***************************************************************************)
(* Editions                                                                *)
(***************************************************************************)

\* A zone sealed by k for the owner and for some agents: an agent knows the
\* owner's key from did.json.
Sealed(k, z, agents) ==
    [seal |-> Len(drafts) + 1, by |-> k, key |-> seeds[z],
     wraps |-> IF z = "public" THEN {} ELSE agents,
     kex |-> IF k = Owner THEN seeds[z] ELSE disk[k].did[z]]

\* Mutant: revocations are not looked up.
RenderedForAll(k, z) ==
    Sealed(k, z, IF k = Owner THEN {a \in DOMAIN mandates : SphereOf[a] = z} ELSE {k})

\* writeZoneToDisk and authorZoneWriteRecipients: the owner wraps for its active
\* delegates too, an agent only for itself.
Rendered(k, z) == Sealed(k, z, IF k = Owner THEN ActiveDelegates(z) ELSE {k})

\* allocateEditionVersion: one more than the editions of the day in history/.
NextVersion(k) == Max({0} \cup DOMAIN disk[k].history) + 1

\* persistEdition: zones an agent may not sign keep their entry.
Edition(k, head, count, readers) ==
    [version |-> NextVersion(k),
     prev |-> disk[k].manifest, supersedes |-> Manifest(k).version,
     zones |-> [z \in Zones |-> IF z \in Loaded(k) THEN Rendered(k, z)
                                ELSE Manifest(k).zones[z]],
     head |-> head, count |-> count, readers |-> readers, self |-> SelfKeyFor(k),
     by |-> k, key |-> seeds["public"], did |-> disk[k].did]

\* Mutant: the anchor is what the command found.
EditionBeforeAppend(k, log, readers) ==
    Edition(k, GammaHead(k), Len(disk[k].log), readers)

\* safeReadGammaAnchor: the anchor is the tail of the log.
Draft(k, log, readers) ==
    Edition(k, IF log = <<>> THEN None ELSE Last(log), Len(log), readers)

\* The zone files of an edition, in the order of the spheres.
ZoneFiles(k) == IF k = Owner THEN Spheres ELSE <<SphereOf[k]>>

\* The edition is built; its files are still to be written.
Persist(k, docs, log, readers, entry, drops) ==
    /\ Len(drafts) < plan.editions
    /\ drafts' = Append(drafts, Draft(k, log, readers))
    /\ job' = [step |-> "zones", who |-> k, docs |-> docs, entry |-> entry,
               todo |-> ZoneFiles(k), drops |-> drops,
               touched |-> entry # None]
-----------------------------------------------------------------------------
(***************************************************************************)
(* addSection, modifySection, deleteSection                                *)
(***************************************************************************)

\* What an operation makes of the document of its zone.
Apply(doc, r, e) ==
    CASE r.op = "section.add" -> Put(doc, r.section, [title |-> e, body |-> e, ref |-> e])
      [] r.op = "section.modify" ->
            [doc EXCEPT ![r.section] =
                [title |-> IF "title" \in r.payload THEN e ELSE @.title,
                 body |-> IF "body" \in r.payload THEN e ELSE @.body, ref |-> e]]
      [] r.op = "section.delete" -> [s \in DOMAIN doc \ {r.section} |-> doc[s]]

\* buildGammaEntryV03.
Entry(k, op, s, payload, at) ==
    [op |-> op, section |-> s, payload |-> payload, at |-> at, by |-> k,
     key |-> seeds[ZoneOf[s]], readers |-> ReadersFor(k), self |-> SelfKeyFor(k),
     prev |-> GammaHead(k),
     prevSection |-> IF op = "section.add" THEN None ELSE LatestOf(disk[k].log, s)]

\* A write up to its entry: resolveAuthor and assertCanWrite, loadAllZones, the
\* section found (or its id new), the entry built and appended.
Write(k, op, s, payload, at) ==
    LET e == Len(entries) + 1
        r == Entry(k, op, s, payload, at)
        z == ZoneOf[s] IN
    /\ job = Idle /\ Installed(k)
    /\ e <= plan.writes
    /\ k # Owner => k \in DOMAIN mandates \ plan.logOnly /\ z = SphereOf[k]
    /\ CanLoad(k)
    /\ ReadersFor(k) # {}
    /\ IF op = "section.add" THEN \A i \in DOMAIN entries : entries[i].section # s
       ELSE s \in DOMAIN Docs(k)[z]
    /\ entries' = Append(entries, r)
    /\ disk' = [disk EXCEPT ![k].log = Append(@, e)]
    /\ Persist(k, [Docs(k) EXCEPT ![z] = Apply(@, r, e)], Append(disk[k].log, e),
               ReadersFor(k), e, {})
    /\ clock' = [clock EXCEPT ![k] = at]
    /\ UNCHANGED <<plan, seeds, mandates, revoked, bundles, deaths, history>>

Writes ==
    \E k \in Keystores, s \in Sections, tick \in plan.ticks :
        \/ Write(k, "section.add", s, {"title", "body"}, clock[k] + tick)
        \/ \E f \in {"title", "body"} :
              Write(k, "section.modify", s, {f}, clock[k] + tick)
        \/ Write(k, "section.delete", s, {}, clock[k] + tick)

\* writeZoneToDisk, one file.
WriteZone ==
    /\ job.step = "zones" /\ job.todo # <<>>
    /\ LET z == Head(job.todo) IN
       disk' = [disk EXCEPT ![job.who].zones[z] =
                   [seal |-> Len(drafts), doc |-> job.docs[z]]]
    /\ job' = [job EXCEPT !.todo = Tail(@), !.touched = TRUE]
    /\ UNCHANGED <<plan, seeds, mandates, revoked, entries, drafts, bundles, clock,
                   deaths, history>>

\* snapshotDidJson.
Snapshot ==
    /\ job.step = "zones" /\ job.todo = <<>>
    /\ disk' = [disk EXCEPT ![job.who].snap = disk[job.who].did]
    /\ job' = [job EXCEPT !.step = "manifest"]
    /\ UNCHANGED <<plan, seeds, mandates, revoked, entries, drafts, bundles, clock,
                   deaths, history>>

WriteManifest ==
    /\ job.step = "manifest"
    /\ disk' = [disk EXCEPT ![job.who].manifest = Len(drafts)]
    /\ job' = [job EXCEPT !.step = "archive"]
    /\ died' = IF job.who = Owner THEN died \ {Owner} ELSE died
    /\ UNCHANGED <<plan, seeds, mandates, revoked, entries, drafts, bundles, clock, deaths,
                   lost, torn, dropped, readmitted>>

\* The archive of the edition, and the command returns.
Archive ==
    /\ job.step = "archive"
    /\ disk' = [disk EXCEPT ![job.who].history =
                   Put(@, Last(drafts).version, Len(drafts))]
    /\ dropped' = dropped \cup job.drops
    /\ readmitted' = IF job.who = Owner THEN readmitted \cap Last(drafts).readers
                     ELSE readmitted
    /\ job' = Idle
    /\ UNCHANGED <<plan, seeds, mandates, revoked, entries, drafts, bundles, clock, deaths,
                   lost, torn, died>>
-----------------------------------------------------------------------------
(***************************************************************************)
(* grant, revoke and rotate, in the owner's keystore                       *)
(***************************************************************************)

\* runGrant: the mandate is minted and written.
Grant(a) ==
    /\ job = Idle
    /\ a \notin DOMAIN mandates
    /\ mandates' = Put(mandates, a, seeds[SphereOf[a]])
    /\ job' = [step |-> "grant", agent |-> a, who |-> Owner]
    /\ UNCHANGED <<plan, disk, seeds, revoked, entries, drafts, bundles, clock, deaths,
                   history>>

\* issueMandateWithRewrap: every zone is wrapped again, and whoever may read the
\* log joins its readers.
IssueWithRewrap ==
    /\ job.step = "grant"
    /\ CanLoad(Owner)
    /\ Persist(Owner, Docs(Owner), disk[Owner].log,
               IF job.agent \in GammaReaders THEN ReadersFor(Owner) \cup {job.agent}
               ELSE CarriedReaders,
               None, {})
    /\ UNCHANGED <<plan, disk, seeds, mandates, revoked, entries, bundles, clock, deaths,
                   history>>

\* runRevoke: the revocation is written; nothing is sealed again for a mandate that
\* has gamma.read only, whose agent stays among the readers of the log.
Revoke(a) ==
    /\ job = Idle
    /\ a \in DOMAIN mandates \ dropped
    /\ revoked' = revoked \cup {a}
    /\ job' = IF a \in plan.logOnly THEN Idle
              ELSE [step |-> "revoke", agent |-> a, who |-> Owner]
    /\ UNCHANGED <<plan, disk, seeds, mandates, entries, drafts, bundles, clock, deaths,
                   history>>

\* Mutant: the list is carried forward.
AllReaders == CarriedReaders

\* The readers that repinAfterRevocation keeps.
KeptReaders == CarriedReaders \ revoked

RepinAfterRevocation ==
    /\ job.step = "revoke"
    /\ CanLoad(Owner)
    /\ Persist(Owner, Docs(Owner), disk[Owner].log, KeptReaders, None, {job.agent})
    /\ UNCHANGED <<plan, disk, seeds, mandates, revoked, entries, bundles, clock, deaths,
                   history>>

\* A zone does not open: grant and revoke throw after what they have written.
FailToLoad ==
    /\ job.step \in {"grant", "revoke"}
    /\ ~CanLoad(Owner)
    /\ job' = Idle
    /\ UNCHANGED <<plan, disk, seeds, mandates, revoked, entries, drafts, bundles, clock,
                   deaths, history>>

\* runRotate: the new seed takes the place of the old one, then did.json lists it.
Rotate(z) ==
    /\ job = Idle
    /\ z \in plan.rotates
    /\ seeds[z] < 2
    /\ seeds' = [seeds EXCEPT ![z] = @ + 1]
    /\ job' = [step |-> "publish", sphere |-> z, who |-> Owner]
    /\ UNCHANGED <<plan, disk, mandates, revoked, entries, drafts, bundles, clock, deaths,
                   history>>

PublishKey ==
    /\ job.step = "publish"
    /\ disk' = [disk EXCEPT ![Owner].did[job.sphere] = seeds[job.sphere]]
    /\ job' = Idle
    /\ UNCHANGED <<plan, seeds, mandates, revoked, entries, drafts, bundles, clock, deaths,
                   history>>
-----------------------------------------------------------------------------
(***************************************************************************)
(* Verification                                                            *)
(***************************************************************************)

\* keystoreDelegateResolver: the mandate is known, its signature verifies under
\* the document, and no revocation of it is on the disk.
Resolves(k, a, did) ==
    /\ a \in DOMAIN mandates
    /\ k = Owner \/ k = a
    /\ mandates[a] = did[SphereOf[a]]
    /\ k = Owner => a \notin revoked

\* verifyManifestSignature and verifyZoneSignature, up to the bytes signed.
Signed(k, by, sphere, key, did) ==
    IF by = Owner THEN key = did[sphere] ELSE Resolves(k, by, did)

\* verifyBundleDir, for who installs: the public zone and the shape of the anchor;
\* sealed zones and the log are not looked into.  An edition without readers has no
\* anchor; it has no section either, which is all that is asked of it.
BundleVerifies(b, k) ==
    LET m == drafts[b.manifest]
        lock == m.zones["public"] IN
    /\ b.did = m.did
    /\ Signed(k, m.by, "public", m.key, b.did)
    /\ b.zones["public"].seal = lock.seal
    /\ Signed(k, lock.by, "public", lock.key, b.did)
    /\ m.readers # {} /\ m.count = 0 => b.log = <<>>

\* readGammaLog: the owner reads under its self key of now.  One entry wrapped for
\* another makes the reading fail; each is wrapped for some self key.
LogOpens == \A e \in ToSet(disk[Owner].log) : entries[e].self = seeds["self"]

\* verifyEthos with the owner's keys: the checks that fail.  When the log does not
\* open, the anchor and the entries of sections are not looked at.
VerifyErrors ==
    LET d == disk[Owner]
        m == Manifest(Owner)
        Fails(check, z) ==
            CASE check = "open" -> ~Opens(Owner, z)
              [] check = "content" ->
                    Opens(Owner, z) /\ d.zones[z].seal # m.zones[z].seal
              [] check = "signature" ->
                    ~Signed(Owner, m.zones[z].by, z, m.zones[z].key, d.did)
              [] check = "entry" ->
                    LogOpens /\ Opens(Owner, z) /\ \E s \in DOMAIN d.zones[z].doc :
                        d.zones[z].doc[s].ref \notin ToSet(d.log)
    IN  {c \in {"open", "content", "signature", "entry"} : \E z \in Zones : Fails(c, z)}
        \cup (IF d.snap # m.did THEN {"did"} ELSE {})
        \cup (IF ~Signed(Owner, m.by, "public", m.key, d.did) THEN {"signature"} ELSE {})
        \cup (IF LogOpens THEN {} ELSE {"log"})
        \cup (IF LogOpens /\ (m.head # GammaHead(Owner) \/ m.count # Len(d.log))
              THEN {"anchor"} ELSE {})
        \cup (IF m.supersedes \in DOMAIN d.history /\ d.history[m.supersedes] # m.prev
              THEN {"chain"} ELSE {})

\* verifyGammaLog: links, timestamps and signatures of the log of a keystore, under
\* its did.json; mandates are not asked whether they are revoked.
GammaErrors(k) ==
    LET log == disk[k].log
        r(i) == entries[log[i]] IN
    {c \in {"link", "time", "signature"} : \E i \in DOMAIN log :
        CASE c = "link" -> r(i).prev # (IF i = 1 THEN None ELSE log[i - 1])
          [] c = "time" -> i > 1 /\ r(i).at <= r(i - 1).at
          [] c = "signature" -> r(i).by = Owner /\ r(i).key # disk[k].did[ZoneOf[r(i).section]]}
-----------------------------------------------------------------------------
(***************************************************************************)
(* pack and install                                                        *)
(***************************************************************************)

\* torn and died are history: what is wrong with the keystore travels with it.
Pack(k) ==
    /\ job = Idle /\ Installed(k)
    /\ plan.shares
    /\ bundles' = [bundles EXCEPT ![k] =
          [manifest |-> disk[k].manifest, did |-> disk[k].snap,
           zones |-> disk[k].zones, log |-> disk[k].log,
           torn |-> k \in torn, died |-> k \in died]]
    /\ UNCHANGED <<plan, disk, seeds, mandates, revoked, entries, drafts, job, clock,
                   deaths, history>>

\* runEthosInstall with --force: the bundle of another keystore, verified.
Install(k, from) ==
    /\ job = Idle
    /\ k # from /\ bundles[from] # NoBundle
    /\ k # Owner => k \in DOMAIN mandates
    /\ BundleVerifies(bundles[from], k)
    /\ job' = [step |-> "install", who |-> k, bundle |-> bundles[from],
               todo |-> <<"did", "manifest", "snap", "public", "circle", "self", "log">>]
    /\ torn' = torn \cup {k}
    /\ UNCHANGED <<plan, disk, seeds, mandates, revoked, entries, drafts, bundles, clock, deaths,
                   lost, died, dropped, readmitted>>

\* Mutant: a log that is there stays.
OwnLog(d, b) == IF d.log = <<>> THEN b.log ELSE d.log

\* The log that stays: the bundle's, if it has one.
LogAfter(d, b) == IF b.log = <<>> THEN d.log ELSE b.log

\* installIntoKeystore: did.json, manifest.json, its snapshot, and the zones and
\* the log if the bundle has them; history/ stays.
InstalledFile(d, f, b) ==
    CASE f = "did" -> [d EXCEPT !.did = b.did]
      [] f = "snap" -> [d EXCEPT !.snap = b.did]
      [] f = "manifest" -> [d EXCEPT !.manifest = b.manifest]
      [] f \in Zones /\ b.zones[f].seal # None -> [d EXCEPT !.zones[f] = b.zones[f]]
      [] f = "log" -> [d EXCEPT !.log = LogAfter(d, b)]
      [] OTHER -> d

\* The last file is the log: a bundle without one leaves the old log.
InstallFile ==
    /\ job.step = "install"
    /\ LET f == Head(job.todo)
           b == job.bundle
           k == job.who IN
       /\ disk' = [disk EXCEPT ![k] = InstalledFile(@, f, b)]
       /\ IF f = "log"
          THEN /\ job' = Idle
               /\ torn' = IF b.torn \/ (b.log = <<>> /\ disk[k].log # <<>>)
                          THEN torn ELSE torn \ {k}
               /\ died' = IF b.died THEN died \cup {k} ELSE died \ {k}
          ELSE job' = [job EXCEPT !.todo = Tail(@)] /\ UNCHANGED <<torn, died>>
       /\ readmitted' = IF f = "manifest" /\ k = Owner
                        THEN readmitted \cup (drafts[b.manifest].readers \cap revoked)
                        ELSE readmitted
    /\ UNCHANGED <<plan, seeds, mandates, revoked, entries, drafts, bundles, clock, deaths,
                   lost, dropped>>
-----------------------------------------------------------------------------
\* The process dies.  Its entry is lost if the file of its zone is not written.
Die ==
    /\ job # Idle
    /\ deaths < plan.deaths
    /\ deaths' = deaths + 1
    /\ job' = Idle
    /\ lost' = IF job.step = "zones" /\ job.entry # None
                  /\ ZoneOf[entries[job.entry].section] \in ToSet(job.todo)
               THEN lost \cup {job.entry} ELSE lost
    /\ died' = IF job.step = "manifest" \/ (job.step = "zones" /\ job.touched)
               THEN died \cup {job.who} ELSE died
    /\ UNCHANGED <<plan, disk, seeds, mandates, revoked, entries, drafts, bundles, clock,
                   torn, dropped, readmitted>>

\* The owner has run ethos init with AITHOS_FORMAT=v0.2; the agents have nothing.
Init ==
    /\ plan \in Plans
    /\ seeds = FirstKeys
    /\ drafts = <<[version |-> 1, prev |-> None, supersedes |-> None,
                   zones |-> [z \in Zones |-> [seal |-> 1, by |-> Owner, key |-> 1,
                                               wraps |-> {}, kex |-> 1]],
                   head |-> None, count |-> 0, readers |-> {}, self |-> 1, by |-> Owner,
                   key |-> 1, did |-> FirstKeys]>>
    /\ disk = [k \in Keystores |->
                  [did |-> FirstKeys, snap |-> FirstKeys, log |-> <<>>,
                   manifest |-> IF k = Owner THEN 1 ELSE None,
                   zones |-> [z \in Zones |->
                       IF k = Owner THEN [seal |-> 1, doc |-> Empty] ELSE NoFile],
                   history |-> IF k = Owner THEN Put(Empty, 1, 1) ELSE Empty]]
    /\ mandates = Empty /\ revoked = {}
    /\ entries = <<>>
    /\ job = Idle
    /\ bundles = [k \in Keystores |-> NoBundle]
    /\ clock = [k \in Keystores |-> 0] /\ deaths = 0
    /\ lost = {} /\ torn = {} /\ died = {} /\ dropped = {} /\ readmitted = {}

Next ==
    \/ Writes
    \/ WriteZone \/ Snapshot \/ WriteManifest \/ Archive
    \/ \E a \in Agents : Grant(a) \/ Revoke(a)
    \/ IssueWithRewrap \/ RepinAfterRevocation \/ FailToLoad
    \/ \E z \in Zones : Rotate(z)
    \/ PublishKey
    \/ \E k \in Keystores : Pack(k)
    \/ \E k, from \in Keystores : Install(k, from)
    \/ InstallFile
    \/ Die

Spec == Init /\ [][Next]_vars
-----------------------------------------------------------------------------
(***************************************************************************)
(* Properties                                                              *)
(***************************************************************************)

\* No command is at work in the keystore, and its files are of one bundle.
Quiet(k) == Installed(k) /\ k \notin torn /\ (job = Idle \/ job.who # k)

\* What a log makes of the empty zone, one entry after the other, without some.
Replayed(built, log, z, without) ==
    LET doc[n \in 0 .. Len(log)] ==
            IF n = 0 THEN Empty
            ELSE LET e == log[n] IN
                 IF ZoneOf[built[e].section] = z /\ e \notin without
                 THEN Apply(doc[n - 1], built[e], e) ELSE doc[n - 1]
    IN  doc[Len(log)]

\* Replaying a log without the entries whose process died.
Replay(log, z) == Replayed(entries, log, z, lost)

\* The live document of every keystore is what its log makes of the empty one,
\* without the entries of writes that died (which no later edition picks up):
\* through writes, deaths, bundles that go to an agent and come back.
DocReplaysLog ==
    \A k \in Keystores : Quiet(k) =>
        \A z \in Zones : disk[k].zones[z].doc = Replay(disk[k].log, z)

\* Two editions with one version.
Collision ==
    \E i, j \in DOMAIN drafts : i # j /\ drafts[i].version = drafts[j].version

\* Why an edition that nobody died on and that was installed whole may fail to
\* verify: a signature when its key was rotated or its mandate revoked since, a
\* zone that was sealed to a key since rotated, the log once the self key was, the
\* chain when an agent counted the version again.  Content, entries, anchor and
\* snapshot always agree.
VerifiesUnlessExplained ==
    Quiet(Owner) /\ Owner \notin died =>
        VerifyErrors \subseteq
            (IF seeds # FirstKeys \/ revoked # {} THEN {"signature"} ELSE {})
            \cup (IF \E z \in Private : seeds[z] # 1 THEN {"open"} ELSE {})
            \cup (IF seeds["self"] # 1 THEN {"log"} ELSE {})
            \cup (IF Collision THEN {"chain"} ELSE {})

\* Written in one millisecond, or by a machine whose clock was behind that of another
\* that wrote before.
OutOfTime(i, j) ==
    i < j /\ \/ entries[j].at = entries[i].at
             \/ entries[j].at < entries[i].at /\ entries[j].by # entries[i].by

\* Why a log may fail to verify: the clocks, and a key rotated since (which nothing
\* heals).  Its links hold through deaths and bundles.
LogVerifiesUnlessExplained ==
    \A k \in Keystores : Quiet(k) =>
        GammaErrors(k) \subseteq
            (IF \E i, j \in DOMAIN entries : OutOfTime(i, j) THEN {"time"} ELSE {})
            \cup (IF seeds # FirstKeys THEN {"signature"} ELSE {})

\* What the owner seals once a revocation that seals again has returned is not sealed
\* to the agent: zones never; entries unless the owner has installed a bundle older than the
\* revocation, whose reader list comes with it.
RevokedLearnNothingNew ==
    job # Idle /\ job.who = Owner /\ job.step \in {"zones", "manifest", "archive"} =>
        /\ \A z \in Private : Last(drafts).zones[z].wraps \cap dropped = {}
        /\ Last(drafts).readers \cap dropped \subseteq readmitted
=============================================================================
