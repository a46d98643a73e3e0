-------------------------- MODULE EthosEditionsProofs --------------------------
(***************************************************************************)
(* What EthosEditions promises of editions and logs, proved for any number *)
(* of agents, sections, mandates, editions, entries, bundles and deaths.   *)
(*                                                                         *)
(* Each theorem has an invariant of its own: RevokedInv, what is left to   *)
(* write for an agent whose revocation has returned; KeysInv and LogInv,   *)
(* which key and which entry came before which; DraftsInv, the chain of    *)
(* editions; SoundInv, which files of a half-written edition or of a       *)
(* half-installed bundle already agree; ReplayInv, which documents the     *)
(* logs already make.  All of them rest on EditionsTyped.                  *)
(***************************************************************************)
EXTENDS EthosEditions, SequenceTheorems, WellFoundedInduction, TLAPS

-----------------------------------------------------------------------------
(* Types *)

\* Versions of the three sphere keys, and the documents of zones.
Versions == [Zones -> Nat]
Doc == UNION {[S -> [title: Nat, body: Nat, ref: Nat]] : S \in SUBSET Sections}
\* A zone file, and what a manifest says of one.
ZoneFile == [seal: Nat, doc: Doc]
Lock == [seal: Nat, by: Keystores, key: Nat, wraps: SUBSET Agents, kex: Nat]
\* What is in a gamma entry.
Operations == {"section.add", "section.modify", "section.delete"}
Entries ==
    [op: Operations, section: Sections, payload: SUBSET {"title", "body"}, at: Nat,
     by: Keystores, key: Nat, readers: SUBSET Keystores, self: Nat, prev: Nat,
     prevSection: Nat]
\* What is in a manifest.
Manifests ==
    [version: Nat, prev: Nat, supersedes: Nat, zones: [Zones -> Lock], head: Nat,
     count: Nat, readers: SUBSET Keystores, self: Nat, by: Keystores, key: Nat,
     did: Versions]
\* The files of a keystore, and those of a bundle.
Files ==
    [did: Versions, snap: Versions, log: Seq(Nat), manifest: Nat,
     zones: [Zones -> ZoneFile], history: UNION {[V -> Nat] : V \in SUBSET Nat}]
Bundle ==
    [manifest: Nat, did: Versions, zones: [Zones -> ZoneFile], log: Seq(Nat),
     torn: BOOLEAN, died: BOOLEAN]

\* What is left to write, of an edition and of a bundle.
ZoneLists == {Spheres, <<"circle", "self">>, <<"self">>, <<>>, <<"public">>, <<"circle">>}
InstallLists ==
    {<<"did", "manifest", "snap", "public", "circle", "self", "log">>,
     <<"manifest", "snap", "public", "circle", "self", "log">>,
     <<"snap", "public", "circle", "self", "log">>,
     <<"public", "circle", "self", "log">>,
     <<"circle", "self", "log">>, <<"self", "log">>, <<"log">>}
\* The files of a bundle, by the names that installing them goes by.
InstallNames == {"did", "manifest", "snap", "public", "circle", "self", "log"}

\* The commands that run: one that writes an edition, a grant or a revocation before
\* it begins one, a rotation before it publishes, an install.
PersistJob ==
    [step: {"zones", "manifest", "archive"}, who: Keystores, docs: [Zones -> Doc],
     entry: Nat, todo: ZoneLists, drops: SUBSET Agents, touched: BOOLEAN]
OwnerJob == [step: {"grant", "revoke"}, agent: Agents, who: {Owner}]
PublishJob == [step: {"publish"}, sphere: Zones, who: {Owner}]
InstallJob == [step: {"install"}, who: Keystores, bundle: Bundle, todo: InstallLists]

\* The files and jobs are well formed, and what they point to is there.
DiskOK ==
    /\ disk \in [Keystores -> Files]
    /\ \A k \in Keystores :
          /\ disk[k].manifest \in 0 .. Len(drafts)
          /\ \A i \in DOMAIN disk[k].log : disk[k].log[i] \in 1 .. Len(entries)
          /\ \A v \in DOMAIN disk[k].history :
                v \in 1 .. Len(drafts) /\ disk[k].history[v] \in 1 .. Len(drafts)
    /\ disk[Owner].manifest # None

\* What a bundle points to is there.
BundleOK(b) ==
    /\ b \in Bundle
    /\ b.manifest \in 1 .. Len(drafts)
    /\ \A i \in DOMAIN b.log : b.log[i] \in 1 .. Len(entries)

\* The bundles are well formed.
BundlesOK ==
    /\ DOMAIN bundles = Keystores
    /\ \A k \in Keystores : bundles[k] = NoBundle \/ BundleOK(bundles[k])

\* The command that runs is well formed, and what it points to is there.
JobOK ==
    /\ job \in {Idle} \cup PersistJob \cup OwnerJob \cup PublishJob \cup InstallJob
    /\ job.step \in {"zones", "manifest", "archive"} =>
          /\ job.entry \in 0 .. Len(entries)
          /\ disk[job.who].manifest # None
          /\ job.drops \subseteq revoked
    /\ job.step = "revoke" => job.agent \in revoked
    /\ job.step = "install" => BundleOK(job.bundle)

\* Everything is of its type, and no reference is dangling.
EditionsTyped ==
    /\ plan \in Plans
    /\ seeds \in Versions
    /\ DOMAIN mandates \subseteq Agents /\ mandates \in [DOMAIN mandates -> Nat]
    /\ revoked \subseteq DOMAIN mandates /\ dropped \subseteq revoked
    /\ entries \in Seq(Entries)
    /\ drafts \in Seq(Manifests) /\ drafts # <<>>
    /\ \A i \in DOMAIN drafts : drafts[i].version \in 1 .. i
    /\ DiskOK /\ JobOK
    /\ BundlesOK
    /\ clock \in [Keystores -> Nat] /\ deaths \in Nat
    /\ torn \subseteq Keystores /\ died \subseteq Keystores
    /\ lost \subseteq 1 .. Len(entries)

-----------------------------------------------------------------------------
(* The operators of the model *)

\* The greatest of some numbers up to n and of 0.
LEMMA MaxIs ==
    ASSUME NEW n \in Nat, NEW S \in SUBSET (1 .. n)
    PROVE  Max({0} \cup S) \in 0 .. n
<1> DEFINE Z == {0} \cup S
           T == {n - v : v \in Z}
           R == {ss \in Nat \X Nat : ss[1] < ss[2]}
<1>1. IsWellFoundedOn(R, Nat)
  BY NatLessThanWellFounded DEF OpToRel
<1>2. \A v \in Z : v \in 0 .. n
  OBVIOUS
<1>3. T \subseteq Nat /\ n - 0 \in T
  BY <1>2
<1>4. PICK t \in T : \A u \in T : ~(<<u, t>> \in R)
  <2> HIDE DEF T, R
  <2> QED
    BY <1>1, <1>3, WFMin
<1>5. PICK v \in Z : t = n - v
  BY <1>4
<1>6. ASSUME NEW w \in Z PROVE v >= w
  <2>1. n - w \in T
    OBVIOUS
  <2>2. ~(n - w < t)
    BY <1>3, <1>4, <2>1
  <2> QED
    BY <1>2, <1>5, <2>2
<1>7. Max(Z) \in Z
  BY <1>6 DEF Max
<1> QED
  BY <1>2, <1>7

\* Of a list of files, one is written and the others are left.
LEMMA OneFileLess ==
    ASSUME NEW t \in ZoneLists, t # <<>>
    PROVE  /\ Head(t) \in Zones /\ Tail(t) \in ZoneLists
           /\ Head(t) \notin ToSet(Tail(t))
           /\ ToSet(t) = {Head(t)} \cup ToSet(Tail(t))
<1>1. CASE t = Spheres
  <2>1. Head(t) = "public" /\ Tail(t) = <<"circle", "self">>
    BY <1>1 DEF Spheres
  <2>2. ToSet(t) = {"public", "circle", "self"} /\ ToSet(Tail(t)) = {"circle", "self"}
    BY <1>1, <2>1 DEF Spheres, ToSet
  <2> QED
    BY <2>1, <2>2 DEF ZoneLists, Zones
<1>2. CASE t = <<"circle", "self">>
  <2>1. Head(t) = "circle" /\ Tail(t) = <<"self">>
    BY <1>2
  <2>2. ToSet(t) = {"circle", "self"} /\ ToSet(Tail(t)) = {"self"}
    BY <1>2, <2>1 DEF ToSet
  <2> QED
    BY <2>1, <2>2 DEF ZoneLists, Zones
<1>3. ASSUME NEW z \in Zones, t = <<z>>
      PROVE  /\ Head(t) \in Zones /\ Tail(t) \in ZoneLists
             /\ Head(t) \notin ToSet(Tail(t))
             /\ ToSet(t) = {Head(t)} \cup ToSet(Tail(t))
  <2>1. Head(t) = z /\ Tail(t) = <<>>
    BY <1>3
  <2>2. ToSet(t) = {z} /\ ToSet(Tail(t)) = {}
    BY <1>3, <2>1 DEF ToSet
  <2> QED
    BY <2>1, <2>2 DEF ZoneLists
<1> QED
  BY <1>1, <1>2, <1>3 DEF ZoneLists, Zones

\* An edition begins with the zones that its author loads.
LEMMA AllFilesAtFirst ==
    ASSUME NEW k \in Keystores
    PROVE  ZoneFiles(k) \in ZoneLists /\ ToSet(ZoneFiles(k)) = Loaded(k)
           /\ Loaded(k) \subseteq Zones
<1>1. CASE k = Owner
  BY <1>1 DEF ZoneFiles, Loaded, ZoneLists, Spheres, ToSet, Zones
<1>2. CASE k # Owner
  <2>1. SphereOf[k] \in Zones
    BY <1>2, EditionsAssumption DEF Keystores
  <2> QED
    BY <1>2, <2>1 DEF ZoneFiles, Loaded, ZoneLists, ToSet, Zones
<1> QED
  BY <1>1, <1>2

\* What opens to a keystore and what is in it.
LEMMA DocsAre ==
    ASSUME DiskOK, NEW k \in Keystores
    PROVE  /\ Docs(k) \in [Zones -> Doc]
           /\ \A z \in Loaded(k) : Docs(k)[z] = disk[k].zones[z].doc
<1>1. Empty \in Doc
  <2>1. Empty \in [{} -> [title: Nat, body: Nat, ref: Nat]]
    BY DEF Empty
  <2> QED
    BY <2>1 DEF Doc
<1>2. \A z \in Zones : disk[k].zones[z].doc \in Doc
  BY DEF DiskOK, Files, ZoneFile
<1> QED
  BY <1>1, <1>2, AllFilesAtFirst DEF Docs

\* The manifest of a keystore is one.
LEMMA ManifestIs ==
    ASSUME EditionsTyped, NEW k \in Keystores, Installed(k)
    PROVE  Manifest(k) \in Manifests /\ disk[k].manifest \in DOMAIN drafts
<1>1. disk[k].manifest \in 1 .. Len(drafts)
  BY DEF EditionsTyped, DiskOK, Installed, None, Files
<1>2. drafts \in Seq(Manifests)
  BY DEF EditionsTyped
<1> QED
  BY <1>1, <1>2 DEF Manifest

\* What an edition has of the present state.
LEMMA RenderedIs ==
    ASSUME EditionsTyped, NEW k \in Keystores, NEW z \in Zones
    PROVE  Rendered(k, z) \in Lock
<1>1. ActiveDelegates(z) \subseteq Agents
  BY DEF ActiveDelegates, EditionsTyped
<1>2. (IF k = Owner THEN ActiveDelegates(z) ELSE {k}) \subseteq Agents
  BY <1>1 DEF Keystores
<1>3. Len(drafts) \in Nat /\ seeds[z] \in Nat /\ disk[k].did[z] \in Nat
  BY DEF EditionsTyped, DiskOK, Files, Versions
<1> QED
  BY <1>2, <1>3 DEF Rendered, Sealed, Lock

\* The version that the next edition takes.
LEMMA VersionIs ==
    ASSUME EditionsTyped, NEW k \in Keystores
    PROVE  NextVersion(k) \in 1 .. Len(drafts) + 1
<1>1. Len(drafts) \in Nat
  BY DEF EditionsTyped
<1>2. DOMAIN disk[k].history \subseteq 1 .. Len(drafts)
  BY DEF EditionsTyped, DiskOK
<1>3. Max({0} \cup DOMAIN disk[k].history) \in 0 .. Len(drafts)
  BY <1>1, <1>2, MaxIs
<1> QED
  BY <1>1, <1>3 DEF NextVersion

\* The self key that the list of readers has.
LEMMA SelfKeyIs ==
    ASSUME EditionsTyped, NEW k \in Keystores, Installed(k)
    PROVE  SelfKeyFor(k) \in Nat
<1>1. Manifest(k).self \in Nat
  BY ManifestIs DEF Manifests
<1>2. seeds["self"] \in Nat
  BY DEF EditionsTyped, Versions, Zones
<1> QED
  BY <1>1, <1>2 DEF SelfKeyFor

\* What an edition describes is a manifest.
LEMMA DraftIs ==
    ASSUME EditionsTyped, NEW k \in Keystores, Installed(k),
           NEW log \in Seq(Nat), NEW readers \in SUBSET Keystores
    PROVE  Draft(k, log, readers) \in Manifests
<1>1. Manifest(k) \in Manifests /\ disk[k].manifest \in Nat
  BY ManifestIs DEF EditionsTyped
<1>2. NextVersion(k) \in Nat
  BY VersionIs DEF EditionsTyped
<1>3. (IF log = <<>> THEN None ELSE Last(log)) \in Nat /\ Len(log) \in Nat
  BY DEF None, Last
<1>4. [z \in Zones |-> IF z \in Loaded(k) THEN Rendered(k, z) ELSE Manifest(k).zones[z]]
         \in [Zones -> Lock]
  BY <1>1, RenderedIs DEF Manifests
<1>5. disk[k].did \in Versions /\ seeds["public"] \in Nat
  BY DEF EditionsTyped, DiskOK, Files, Versions, Zones
<1>6. Manifest(k).version \in Nat
  BY <1>1 DEF Manifests
<1> QED
  BY <1>1, <1>2, <1>3, <1>4, <1>5, <1>6, SelfKeyIs DEF Draft, Edition, Manifests

\* Readers are holders of keystores.
LEMMA ReadersAre ==
    ASSUME EditionsTyped, NEW k \in Keystores, Installed(k)
    PROVE  ReadersFor(k) \subseteq Keystores
BY ManifestIs DEF ReadersFor, Manifests, Keystores

\* So are those that are carried on.
LEMMA CarriedAre ==
    ASSUME EditionsTyped, Installed(Owner)
    PROVE  CarriedReaders \subseteq Keystores
<1>1. Owner \in Keystores
  BY DEF Keystores
<1> QED
  BY <1>1, ManifestIs, ReadersAre DEF CarriedReaders, Manifests

\* What an operation makes of a document.
LEMMA ApplyIs ==
    ASSUME NEW doc \in Doc, NEW r, r.section \in Sections, r.op \in Operations,
           NEW e \in Nat
    PROVE  Apply(doc, r, e) \in Doc
<1>1. PICK S \in SUBSET Sections : doc \in [S -> [title: Nat, body: Nat, ref: Nat]]
  BY DEF Doc
<1>2. CASE r.op = "section.add"
  <2>1. Put(doc, r.section, [title |-> e, body |-> e, ref |-> e])
          \in [S \cup {r.section} -> [title: Nat, body: Nat, ref: Nat]]
    BY <1>1 DEF Put
  <2>2. Apply(doc, r, e) = Put(doc, r.section, [title |-> e, body |-> e, ref |-> e])
    BY <1>2 DEF Apply
  <2> QED
    BY <2>1, <2>2 DEF Doc
<1>3. CASE r.op = "section.modify"
  <2> DEFINE v == [title |-> IF "title" \in r.payload THEN e ELSE doc[r.section].title,
                   body |-> IF "body" \in r.payload THEN e ELSE doc[r.section].body,
                   ref |-> e]
  <2>1. Apply(doc, r, e) = [doc EXCEPT ![r.section] = v]
    BY <1>3 DEF Apply
  <2>2. r.section \in S => v \in [title: Nat, body: Nat, ref: Nat]
    BY <1>1
  <2>3. Apply(doc, r, e) \in [S -> [title: Nat, body: Nat, ref: Nat]]
    <3> HIDE DEF v
    <3> QED
      BY <1>1, <2>1, <2>2
  <2> QED
    BY <2>3 DEF Doc
<1>4. CASE r.op = "section.delete"
  <2>1. Apply(doc, r, e) = [s \in DOMAIN doc \ {r.section} |-> doc[s]]
    BY <1>4 DEF Apply
  <2>2. Apply(doc, r, e) \in [S \ {r.section} -> [title: Nat, body: Nat, ref: Nat]]
    BY <1>1, <2>1
  <2> QED
    BY <2>2 DEF Doc
<1> QED
  BY <1>2, <1>3, <1>4 DEF Operations

\* What a write appends is an entry.
LEMMA EntryIs ==
    ASSUME EditionsTyped, NEW k \in Keystores, Installed(k), NEW op \in Operations,
           NEW s \in Sections, NEW payload \in SUBSET {"title", "body"}, NEW at \in Nat
    PROVE  Entry(k, op, s, payload, at) \in Entries
<1>1. GammaHead(k) \in Nat
  BY DEF EditionsTyped, DiskOK, Files, GammaHead, Last, None
<1>2. LatestOf(disk[k].log, s) \in Nat
  <2> DEFINE S == {e \in ToSet(disk[k].log) : entries[e].section = s}
  <2>1. S \subseteq 1 .. Len(entries) /\ Len(entries) \in Nat
    BY DEF EditionsTyped, DiskOK, ToSet
  <2>2. Max({0} \cup S) \in Nat
    <3> HIDE DEF S
    <3>1. PICK n \in Nat : S \in SUBSET (1 .. n)
      BY <2>1
    <3>2. Max({0} \cup S) \in 0 .. n
      BY <3>1, MaxIs
    <3> QED
      BY <3>1, <3>2
  <2> QED
    BY <2>2 DEF LatestOf, None
<1>3. ReadersFor(k) \subseteq Keystores
  BY ReadersAre
<1>4. seeds[ZoneOf[s]] \in Nat /\ SelfKeyFor(k) \in Nat
  BY EditionsAssumption, SelfKeyIs DEF EditionsTyped, Versions
<1> QED
  BY <1>1, <1>2, <1>3, <1>4 DEF Entry, Entries, None

-----------------------------------------------------------------------------
(* Types are kept *)

\* At first everything is of its type.
LEMMA TypedInit == Init => EditionsTyped
<1> SUFFICES ASSUME Init PROVE EditionsTyped
  OBVIOUS
<1>1. FirstKeys \in Versions
  BY DEF FirstKeys, Versions
<1>2. drafts \in Seq(Manifests) /\ drafts # <<>> /\ Len(drafts) = 1
        /\ \A i \in DOMAIN drafts : drafts[i].version \in 1 .. i
  <2>1. [z \in Zones |-> [seal |-> 1, by |-> Owner, key |-> 1, wraps |-> {}, kex |-> 1]]
          \in [Zones -> Lock]
    BY DEF Lock, Keystores
  <2> DEFINE d == [version |-> 1, prev |-> None, supersedes |-> None,
                   zones |-> [z \in Zones |-> [seal |-> 1, by |-> Owner, key |-> 1,
                                               wraps |-> {}, kex |-> 1]],
                   head |-> None, count |-> 0, readers |-> {}, self |-> 1, by |-> Owner,
                   key |-> 1, did |-> FirstKeys]
  <2>2. d \in Manifests /\ d.version = 1
    BY <1>1, <2>1 DEF Manifests, None, Keystores
  <2>3. drafts = <<d>>
    BY DEF Init
  <2> HIDE DEF d
  <2> QED
    BY <2>2, <2>3
<1>3. DiskOK
  <2>1. Empty \in Doc /\ Empty \in [{} -> Nat] /\ DOMAIN Empty = {}
    BY DEF Empty, Doc
  <2>2. Put(Empty, 1, 1) \in [{1} -> Nat] /\ Put(Empty, 1, 1)[1] = 1
    BY DEF Put, Empty
  <2> DEFINE H == UNION {[V -> Nat] : V \in SUBSET Nat}
             files(k) == [did |-> FirstKeys, snap |-> FirstKeys, log |-> <<>>,
                   manifest |-> IF k = Owner THEN 1 ELSE None,
                   zones |-> [z \in Zones |->
                       IF k = Owner THEN [seal |-> 1, doc |-> Empty] ELSE NoFile],
                   history |-> IF k = Owner THEN Put(Empty, 1, 1) ELSE Empty]
  <2>4. Empty \in H /\ Put(Empty, 1, 1) \in H
    BY <2>1, <2>2
  <2>5. ASSUME NEW k \in Keystores PROVE files(k) \in Files
    <3>1. [z \in Zones |-> IF k = Owner THEN [seal |-> 1, doc |-> Empty] ELSE NoFile]
            \in [Zones -> ZoneFile]
      BY <2>1 DEF ZoneFile, NoFile, None
    <3>2. (IF k = Owner THEN Put(Empty, 1, 1) ELSE Empty) \in H
      BY <2>4
    <3>3. (IF k = Owner THEN 1 ELSE None) \in Nat /\ <<>> \in Seq(Nat)
      BY DEF None
    <3> QED
      BY <1>1, <3>1, <3>2, <3>3 DEF Files
  <2>6. disk = [k \in Keystores |-> files(k)]
    BY DEF Init
  <2>7. \A k \in Keystores : files(k).manifest \in 0 .. 1 /\ files(k).log = <<>>
          /\ \A v \in DOMAIN files(k).history : v = 1 /\ files(k).history[v] = 1
    BY <2>1, <2>2 DEF None
  <2>8. files(Owner).manifest = 1
    OBVIOUS
  <2> HIDE DEF files
  <2>9. Owner \in Keystores
    BY DEF Keystores
  <2> QED
    BY <1>2, <2>5, <2>6, <2>7, <2>8, <2>9 DEF DiskOK, None
<1> QED
  BY <1>1, <1>2, <1>3 DEF Init, EditionsTyped, BundlesOK, JobOK, Idle, Empty, NoBundle

\* A keystore has other files, all of which point to what is there.
LEMMA DiskStays ==
    ASSUME EditionsTyped, NEW k \in Keystores, NEW x \in Files,
           disk' = [disk EXCEPT ![k] = x],
           entries' \in Seq(Entries), Len(entries) <= Len(entries'),
           drafts' \in Seq(Manifests), Len(drafts) <= Len(drafts'),
           x.manifest \in 0 .. Len(drafts'),
           k = Owner => x.manifest # None,
           \A i \in DOMAIN x.log : x.log[i] \in 1 .. Len(entries'),
           \A v \in DOMAIN x.history :
              v \in 1 .. Len(drafts') /\ x.history[v] \in 1 .. Len(drafts')
    PROVE  DiskOK'
<1>1. Len(entries) \in Nat /\ Len(drafts) \in Nat /\ Len(entries') \in Nat
        /\ Len(drafts') \in Nat
  BY DEF EditionsTyped
<1>2. disk' \in [Keystores -> Files] /\ disk'[k] = x
        /\ \A o \in Keystores : o # k => disk'[o] = disk[o]
  BY DEF EditionsTyped, DiskOK
<1>3. ASSUME NEW o \in Keystores
      PROVE  /\ disk'[o].manifest \in 0 .. Len(drafts')
             /\ \A i \in DOMAIN disk'[o].log : disk'[o].log[i] \in 1 .. Len(entries')
             /\ \A v \in DOMAIN disk'[o].history :
                   v \in 1 .. Len(drafts') /\ disk'[o].history[v] \in 1 .. Len(drafts')
  <2>1. CASE o = k
    BY <1>2, <2>1
  <2>2. CASE o # k
    <3>1. /\ disk[o].manifest \in 0 .. Len(drafts)
          /\ \A i \in DOMAIN disk[o].log : disk[o].log[i] \in 1 .. Len(entries)
          /\ \A v \in DOMAIN disk[o].history :
                v \in 1 .. Len(drafts) /\ disk[o].history[v] \in 1 .. Len(drafts)
      BY DEF EditionsTyped, DiskOK
    <3> QED
      BY <1>1, <1>2, <2>2, <3>1
  <2> QED
    BY <2>1, <2>2
<1>4. disk'[Owner].manifest # None
  <2>1. Owner \in Keystores
    BY DEF Keystores
  <2> QED
    BY <1>2, <2>1 DEF EditionsTyped, DiskOK
<1> QED
  BY <1>2, <1>3, <1>4 DEF DiskOK

\* Nothing is written while an edition is built.
LEMMA DiskWaits ==
    ASSUME EditionsTyped, UNCHANGED disk,
           entries' \in Seq(Entries), Len(entries) <= Len(entries'),
           drafts' \in Seq(Manifests), Len(drafts) <= Len(drafts')
    PROVE  DiskOK'
<1>1. Owner \in Keystores
  BY DEF Keystores
<1>2. disk[Owner] \in Files /\ disk = [disk EXCEPT ![Owner] = disk[Owner]]
  BY <1>1 DEF EditionsTyped, DiskOK
<1>3. Len(entries) \in Nat /\ Len(drafts) \in Nat /\ Len(entries') \in Nat
        /\ Len(drafts') \in Nat
  BY DEF EditionsTyped
<1>4. /\ disk[Owner].manifest \in 0 .. Len(drafts) /\ disk[Owner].manifest # None
      /\ \A i \in DOMAIN disk[Owner].log : disk[Owner].log[i] \in 1 .. Len(entries)
      /\ \A v \in DOMAIN disk[Owner].history :
            v \in 1 .. Len(drafts) /\ disk[Owner].history[v] \in 1 .. Len(drafts)
  BY <1>1 DEF EditionsTyped, DiskOK
<1>5. /\ disk[Owner].manifest \in 0 .. Len(drafts')
      /\ \A i \in DOMAIN disk[Owner].log : disk[Owner].log[i] \in 1 .. Len(entries')
      /\ \A v \in DOMAIN disk[Owner].history :
            v \in 1 .. Len(drafts') /\ disk[Owner].history[v] \in 1 .. Len(drafts')
  BY <1>3, <1>4
<1> QED
  BY <1>1, <1>2, <1>4, <1>5, DiskStays

\* Each step of a command is at one of its points.
LEMMA StepsAre ==
    ASSUME JobOK
    PROVE  /\ job.step \in {"zones", "manifest", "archive"} <=> job \in PersistJob
           /\ job.step \in {"grant", "revoke"} <=> job \in OwnerJob
           /\ job.step = "publish" <=> job \in PublishJob
           /\ job.step = "install" <=> job \in InstallJob
           /\ job = Idle <=> job.step = "idle"
BY DEF JobOK, Idle, PersistJob, OwnerJob, PublishJob, InstallJob

\* An edition is begun.
LEMMA PersistTyped ==
    ASSUME EditionsTyped, NEW k \in Keystores, Installed(k),
           NEW docs \in [Zones -> Doc], NEW log \in Seq(Nat),
           NEW readers \in SUBSET Keystores, NEW entry \in Nat,
           NEW drops \in SUBSET Agents, Persist(k, docs, log, readers, entry, drops)
    PROVE  /\ drafts' \in Seq(Manifests) /\ drafts' # <<>>
           /\ Len(drafts') = Len(drafts) + 1 /\ Len(drafts) \in Nat
           /\ \A i \in DOMAIN drafts : drafts'[i] = drafts[i]
           /\ drafts'[Len(drafts')] = Draft(k, log, readers)
           /\ \A i \in DOMAIN drafts' : drafts'[i].version \in 1 .. i
           /\ job' \in PersistJob
<1>1. drafts' = Append(drafts, Draft(k, log, readers)) /\ Draft(k, log, readers) \in Manifests
  BY DraftIs DEF Persist
<1>2. drafts \in Seq(Manifests) /\ Len(drafts) \in Nat
  BY DEF EditionsTyped
<1>3. /\ drafts' \in Seq(Manifests) /\ drafts' # <<>> /\ Len(drafts') = Len(drafts) + 1
      /\ \A i \in DOMAIN drafts : drafts'[i] = drafts[i]
      /\ drafts'[Len(drafts')] = Draft(k, log, readers)
      /\ DOMAIN drafts' = 1 .. Len(drafts) + 1 /\ DOMAIN drafts = 1 .. Len(drafts)
  BY <1>1, <1>2
<1>4. Draft(k, log, readers).version \in 1 .. Len(drafts) + 1
  BY VersionIs DEF Draft, Edition
<1>5. ASSUME NEW i \in DOMAIN drafts' PROVE drafts'[i].version \in 1 .. i
  <2>1. CASE i \in DOMAIN drafts
    BY <1>3, <2>1 DEF EditionsTyped
  <2>2. CASE i \notin DOMAIN drafts
    <3>1. i = Len(drafts) + 1
      BY <1>2, <1>3, <2>2
    <3> QED
      BY <1>3, <1>4, <3>1
  <2> QED
    BY <2>1, <2>2
<1>6. job' \in PersistJob
  <2>1. ZoneFiles(k) \in ZoneLists
    BY AllFilesAtFirst
  <2>2. (entry # None) \in BOOLEAN
    OBVIOUS
  <2> QED
    BY <2>1, <2>2 DEF Persist, PersistJob
<1> QED
  BY <1>2, <1>3, <1>5, <1>6

\* What the bundles point to stays.
LEMMA BundlesStay ==
    ASSUME EditionsTyped, UNCHANGED bundles,
           entries' \in Seq(Entries), Len(entries) <= Len(entries'),
           drafts' \in Seq(Manifests), Len(drafts) <= Len(drafts')
    PROVE  BundlesOK'
<1>1. Len(entries) \in Nat /\ Len(drafts) \in Nat /\ Len(entries') \in Nat
        /\ Len(drafts') \in Nat
  BY DEF EditionsTyped
<1> QED
  BY <1>1 DEF EditionsTyped, BundlesOK, BundleOK

\* What a write is.
WriteOf(k, s, r, docs, log, readers, e) ==
    /\ Installed(k) /\ CanLoad(k)
    /\ k # Owner => k \in DOMAIN mandates
    /\ ZoneOf[s] \in Loaded(k)
    /\ e = Len(entries) + 1
    /\ \E op \in Operations, payload \in SUBSET {"title", "body"} :
          r = Entry(k, op, s, payload, r.at)
    /\ docs = [Docs(k) EXCEPT ![ZoneOf[s]] = Apply(@, r, e)]
    /\ log = Append(disk[k].log, e)
    /\ readers = ReadersFor(k)
    /\ entries' = Append(entries, r)
    /\ disk' = [disk EXCEPT ![k].log = log]
    /\ Persist(k, docs, log, readers, e, {})
    /\ clock' = [clock EXCEPT ![k] = r.at] /\ r.at >= clock[k]
    /\ UNCHANGED <<plan, seeds, mandates, revoked, bundles, deaths, history>>

\* A write of any kind is one.
LEMMA WriteIs ==
    ASSUME EditionsTyped, NEW k \in Keystores, NEW op \in Operations,
           NEW s \in Sections, NEW payload \in SUBSET {"title", "body"},
           NEW tick \in Nat, Write(k, op, s, payload, clock[k] + tick)
    PROVE  \E r \in Entries, docs \in [Zones -> Doc], log \in Seq(Nat),
              readers \in SUBSET Keystores, e \in Nat :
                 WriteOf(k, s, r, docs, log, readers, e)
<1>1. PICK e : e = Len(entries) + 1
  OBVIOUS
<1>2. PICK r : r = Entry(k, op, s, payload, clock[k] + tick)
  OBVIOUS
<1>3. PICK log : log = Append(disk[k].log, e)
  OBVIOUS
<1>4. PICK docs : docs = [Docs(k) EXCEPT ![ZoneOf[s]] = Apply(@, r, e)]
  OBVIOUS
<1>5. PICK readers : readers = ReadersFor(k)
  OBVIOUS
<1>6. /\ Installed(k) /\ CanLoad(k)
      /\ entries' = Append(entries, r) /\ disk' = [disk EXCEPT ![k].log = log]
      /\ Persist(k, docs, log, readers, e, {})
      /\ clock' = [clock EXCEPT ![k] = clock[k] + tick]
      /\ k # Owner => k \in DOMAIN mandates /\ ZoneOf[s] = SphereOf[k]
      /\ UNCHANGED <<plan, seeds, mandates, revoked, bundles, deaths, history>>
  <2>1. disk' = [disk EXCEPT ![k].log = log]
    BY <1>1, <1>3 DEF Write
  <2>2. /\ entries' = Append(entries, r) /\ clock' = [clock EXCEPT ![k] = clock[k] + tick]
        /\ Installed(k) /\ CanLoad(k)
    BY <1>2 DEF Write
  <2>3. Persist(k, docs, log, readers, e, {})
    BY <1>1, <1>2, <1>3, <1>4, <1>5 DEF Write
  <2> QED
    BY <2>1, <2>2, <2>3 DEF Write
<1>7. /\ e \in Nat /\ clock[k] + tick \in Nat /\ clock[k] + tick >= clock[k]
      /\ r.at = clock[k] + tick
  BY <1>1, <1>2 DEF EditionsTyped, Entry
<1>8. r \in Entries
  BY <1>2, <1>6, <1>7, EntryIs
<1>9. log \in Seq(Nat)
  BY <1>3, <1>7 DEF EditionsTyped, DiskOK, Files
<1>10. ZoneOf[s] \in Zones /\ ZoneOf[s] \in Loaded(k)
  BY <1>6, EditionsAssumption DEF Loaded
<1>11. docs \in [Zones -> Doc]
  <2>1. Docs(k) \in [Zones -> Doc]
    BY DocsAre DEF EditionsTyped
  <2>2. r.section \in Sections /\ r.op \in Operations
    BY <1>8 DEF Entries
  <2>3. Apply(Docs(k)[ZoneOf[s]], r, e) \in Doc
    BY <1>7, <1>10, <2>1, <2>2, ApplyIs
  <2> QED
    BY <1>4, <2>1, <2>3
<1>12. readers \in SUBSET Keystores
  BY <1>5, <1>6, ReadersAre
<1>13. \E o \in Operations, p \in SUBSET {"title", "body"} :
          r = Entry(k, o, s, p, r.at)
  BY <1>2, <1>7
<1>14. WriteOf(k, s, r, docs, log, readers, e)
  BY <1>1, <1>3, <1>4, <1>5, <1>6, <1>7, <1>10, <1>13 DEF WriteOf
<1> QED
  BY <1>7, <1>8, <1>9, <1>11, <1>12, <1>14

\* A write keeps the types.
LEMMA WriteTyped ==
    ASSUME EditionsTyped, NEW k \in Keystores, NEW s \in Sections,
           NEW r \in Entries, NEW docs \in [Zones -> Doc], NEW log \in Seq(Nat),
           NEW readers \in SUBSET Keystores, NEW e \in Nat,
           WriteOf(k, s, r, docs, log, readers, e)
    PROVE  EditionsTyped'
<1>1. /\ Installed(k) /\ e = Len(entries) + 1 /\ log = Append(disk[k].log, e)
      /\ entries' = Append(entries, r) /\ disk' = [disk EXCEPT ![k].log = log]
      /\ Persist(k, docs, log, readers, e, {}) /\ clock' = [clock EXCEPT ![k] = r.at]
      /\ UNCHANGED <<plan, seeds, mandates, revoked, bundles, deaths, history>>
  BY DEF WriteOf
<1>2. entries' \in Seq(Entries) /\ Len(entries') = e /\ Len(entries) \in Nat
  BY <1>1 DEF EditionsTyped
<1>3. disk[k] \in Files /\ disk[k].log \in Seq(Nat)
  BY DEF EditionsTyped, DiskOK, Files
<1>4. \A i \in DOMAIN log : log[i] \in 1 .. e
  <2>1. \A i \in DOMAIN disk[k].log : disk[k].log[i] \in 1 .. Len(entries)
    BY DEF EditionsTyped, DiskOK
  <2>2. PICK g \in Seq(Nat) : g = disk[k].log
    BY <1>3
  <2>3. log = Append(g, e) /\ \A i \in DOMAIN g : g[i] \in 1 .. e
    BY <1>1, <1>2, <2>1, <2>2
  <2>4. e \in 1 .. e
    BY <1>1, <1>2
  <2> QED
    BY <2>3, <2>4
<1>5. /\ drafts' \in Seq(Manifests) /\ drafts' # <<>>
      /\ Len(drafts') = Len(drafts) + 1 /\ Len(drafts) \in Nat
      /\ \A i \in DOMAIN drafts' : drafts'[i].version \in 1 .. i
      /\ job' \in PersistJob
  <2>1. Persist(k, docs, log, readers, e, {}) /\ Installed(k) /\ {} \in SUBSET Agents
    BY <1>1
  <2> QED
    BY <2>1, PersistTyped
<1>6. job'.who = k /\ job'.entry = e /\ job'.drops = {}
  BY <1>1 DEF Persist
<1>7. PICK x : x = [disk[k] EXCEPT !.log = log]
  OBVIOUS
<1>8. x \in Files /\ disk' = [disk EXCEPT ![k] = x] /\ x.log = log
         /\ x.manifest = disk[k].manifest /\ x.history = disk[k].history
  BY <1>1, <1>3, <1>7 DEF Files, EditionsTyped, DiskOK
<1>9. DiskOK'
  <2>1. /\ disk[k].manifest \in 0 .. Len(drafts) /\ (k = Owner => disk[k].manifest # None)
        /\ \A v \in DOMAIN disk[k].history :
              v \in 1 .. Len(drafts) /\ disk[k].history[v] \in 1 .. Len(drafts)
    BY DEF EditionsTyped, DiskOK
  <2>2. /\ x.manifest \in 0 .. Len(drafts') /\ (k = Owner => x.manifest # None)
        /\ \A i \in DOMAIN x.log : x.log[i] \in 1 .. Len(entries')
        /\ \A v \in DOMAIN x.history :
              v \in 1 .. Len(drafts') /\ x.history[v] \in 1 .. Len(drafts')
    BY <1>2, <1>4, <1>5, <1>8, <2>1
  <2> QED
    <3>1. Len(entries) <= Len(entries') /\ Len(drafts) <= Len(drafts')
      BY <1>1, <1>2, <1>5
    <3>2. x \in Files /\ disk' = [disk EXCEPT ![k] = x] /\ entries' \in Seq(Entries)
            /\ drafts' \in Seq(Manifests)
      BY <1>2, <1>5, <1>8
    <3> QED
      BY <2>2, <3>1, <3>2, DiskStays
<1>10. JobOK'
  <2>1. disk'[k].manifest # None
    BY <1>1, <1>3, <1>8 DEF Installed, EditionsTyped, DiskOK
  <2> QED
    BY <1>2, <1>5, <1>6, <2>1 DEF JobOK, PersistJob
<1>11. BundlesOK'
  BY <1>1, <1>2, <1>5, BundlesStay
<1>12. lost' \subseteq 1 .. Len(entries')
  BY <1>1, <1>2 DEF EditionsTyped, history
<1>13. clock' \in [Keystores -> Nat]
  BY <1>1 DEF EditionsTyped, Entries
<1> QED
  BY <1>1, <1>2, <1>5, <1>9, <1>10, <1>11, <1>12, <1>13 DEF EditionsTyped, history

\* grant and revoke build an edition of what there is.
LEMMA RepinTyped ==
    ASSUME EditionsTyped, NEW readers \in SUBSET Keystores,
           NEW drops \in SUBSET Agents, drops \subseteq revoked,
           Persist(Owner, Docs(Owner), disk[Owner].log, readers, None, drops),
           UNCHANGED <<plan, disk, seeds, mandates, revoked, entries, bundles, clock,
                       deaths, history>>
    PROVE  EditionsTyped'
<1>1. Owner \in Keystores /\ Installed(Owner)
  BY DEF EditionsTyped, DiskOK, Keystores, Installed
<1>2. Docs(Owner) \in [Zones -> Doc] /\ disk[Owner].log \in Seq(Nat) /\ None \in Nat
  BY <1>1, DocsAre DEF EditionsTyped, DiskOK, Files, None
<1>3. /\ drafts' \in Seq(Manifests) /\ drafts' # <<>>
      /\ Len(drafts') = Len(drafts) + 1 /\ Len(drafts) \in Nat
      /\ \A i \in DOMAIN drafts' : drafts'[i].version \in 1 .. i
      /\ job' \in PersistJob
  BY <1>1, <1>2, PersistTyped
<1>4. job'.who = Owner /\ job'.entry = None /\ job'.drops = drops
  BY DEF Persist
<1>5. entries' \in Seq(Entries) /\ Len(entries') = Len(entries) /\ Len(entries) \in Nat
  BY DEF EditionsTyped
<1>6. DiskOK'
  BY <1>3, <1>5, DiskWaits
<1>7. JobOK'
  BY <1>3, <1>4, <1>5, <1>6 DEF JobOK, PersistJob, None, DiskOK
<1>8. BundlesOK'
  BY <1>3, <1>5, BundlesStay
<1> QED
  BY <1>3, <1>5, <1>6, <1>7, <1>8 DEF EditionsTyped, history

\* A step that builds nothing changes the files of one keystore and the job.
LEMMA FilesTyped ==
    ASSUME EditionsTyped, UNCHANGED <<plan, seeds, mandates, entries, drafts, bundles,
                                      clock, deaths, lost>>,
           NEW k \in Keystores, NEW x \in Files, disk' = [disk EXCEPT ![k] = x],
           x.manifest \in 0 .. Len(drafts), k = Owner => x.manifest # None,
           \A i \in DOMAIN x.log : x.log[i] \in 1 .. Len(entries),
           \A v \in DOMAIN x.history :
              v \in 1 .. Len(drafts) /\ x.history[v] \in 1 .. Len(drafts),
           job' = Idle \/ (job' \in PersistJob /\ job'.entry \in 0 .. Len(entries)
                             /\ disk'[job'.who].manifest # None
                             /\ job'.drops \subseteq revoked')
             \/ (job' \in InstallJob /\ BundleOK(job'.bundle)),
           revoked' \subseteq DOMAIN mandates, dropped' \subseteq revoked',
           torn' \subseteq Keystores, died' \subseteq Keystores
    PROVE  EditionsTyped'
<1>1. Len(entries) <= Len(entries) /\ Len(drafts) <= Len(drafts)
        /\ entries' \in Seq(Entries) /\ drafts' \in Seq(Manifests)
        /\ entries' = entries /\ drafts' = drafts
  BY DEF EditionsTyped
<1>2. DiskOK'
  BY <1>1, DiskStays
<1>3. BundlesOK'
  BY <1>1, BundlesStay
<1>4. JobOK'
  <2>1. CASE job' = Idle
    BY <2>1 DEF JobOK, Idle
  <2>2. CASE job' \in PersistJob /\ job'.entry \in 0 .. Len(entries)
                             /\ disk'[job'.who].manifest # None
                             /\ job'.drops \subseteq revoked'
    BY <1>1, <2>2 DEF JobOK, PersistJob
  <2>3. CASE job' \in InstallJob /\ BundleOK(job'.bundle)
    BY <1>1, <2>3 DEF JobOK, InstallJob, BundleOK
  <2> QED
    BY <2>1, <2>2, <2>3
<1> QED
  BY <1>1, <1>2, <1>3, <1>4 DEF EditionsTyped

\* What the files of a keystore are.
LEMMA FilesAre ==
    ASSUME EditionsTyped, NEW k \in Keystores
    PROVE  /\ disk[k] \in Files /\ disk[k].manifest \in 0 .. Len(drafts)
           /\ k = Owner => disk[k].manifest # None
           /\ \A i \in DOMAIN disk[k].log : disk[k].log[i] \in 1 .. Len(entries)
           /\ \A v \in DOMAIN disk[k].history :
                 v \in 1 .. Len(drafts) /\ disk[k].history[v] \in 1 .. Len(drafts)
           /\ Len(drafts) \in Nat \ {0} /\ Len(entries) \in Nat
BY EmptySeq DEF EditionsTyped, DiskOK

\* A command that writes files is one that persists an edition.
LEMMA PersistingIs ==
    ASSUME EditionsTyped, job.step \in {"zones", "manifest", "archive"}
    PROVE  /\ job \in PersistJob /\ job.entry \in 0 .. Len(entries)
           /\ job.who \in Keystores /\ disk[job.who].manifest # None
           /\ job.drops \subseteq revoked
<1>1. JobOK /\ job \in PersistJob
  BY StepsAre DEF EditionsTyped
<1> QED
  BY <1>1 DEF JobOK, PersistJob

\* What writing the file of a zone is.
LEMMA WriteZoneIs ==
    ASSUME EditionsTyped, WriteZone
    PROVE  \E k \in Keystores, z \in Zones, doc \in Doc, x \in Files :
              /\ k = job.who /\ z = Head(job.todo) /\ doc = job.docs[z]
              /\ x = [disk[k] EXCEPT !.zones =
                         [@ EXCEPT ![z] = [seal |-> Len(drafts), doc |-> doc]]]
              /\ disk' = [disk EXCEPT ![k] = x]
              /\ job' \in PersistJob /\ job'.step = "zones" /\ job'.who = k
              /\ job'.docs = job.docs /\ job'.entry = job.entry /\ job'.drops = job.drops
              /\ job'.todo = Tail(job.todo) /\ job'.touched
              /\ z \notin ToSet(job'.todo) /\ ToSet(job.todo) = {z} \cup ToSet(job'.todo)
<1>1. job \in PersistJob /\ job.step = "zones" /\ job.todo # <<>>
  BY PersistingIs DEF WriteZone
<1>2. PICK k \in Keystores : k = job.who
  BY <1>1 DEF PersistJob
<1>3. PICK t \in ZoneLists : t = job.todo /\ t # <<>>
  BY <1>1 DEF PersistJob
<1>4. PICK z \in Zones : z = Head(t)
  BY <1>3, OneFileLess
<1>5. PICK doc \in Doc : doc = job.docs[z]
  BY <1>1, <1>4 DEF PersistJob
<1>6. PICK f : f = [seal |-> Len(drafts), doc |-> doc]
  OBVIOUS
<1>7. f \in ZoneFile
  BY <1>6, FilesAre, <1>2 DEF ZoneFile
<1>8. PICK x : x = [disk[k] EXCEPT !.zones = [@ EXCEPT ![z] = f]]
  OBVIOUS
<1>9. disk[k] \in Files
  BY FilesAre
<1>10. x \in Files
  BY <1>7, <1>8, <1>9 DEF Files
<1>11. disk' = [disk EXCEPT ![k] = x]
  <2>1. disk' = [disk EXCEPT ![k].zones[z] = f]
    BY <1>2, <1>3, <1>4, <1>5, <1>6 DEF WriteZone
  <2>2. [disk EXCEPT ![k].zones[z] = f] = [disk EXCEPT ![k] = x]
    BY <1>8
  <2> QED
    BY <2>1, <2>2
<1>12. PICK u \in ZoneLists : u = Tail(t) /\ z \notin ToSet(u) /\ ToSet(t) = {z} \cup ToSet(u)
  BY <1>3, <1>4, OneFileLess
<1>13. job' = [job EXCEPT !.todo = u, !.touched = TRUE]
  BY <1>3, <1>12 DEF WriteZone
<1>14. /\ job' \in PersistJob /\ job'.step = "zones" /\ job'.who = k
       /\ job'.docs = job.docs /\ job'.entry = job.entry /\ job'.drops = job.drops
       /\ job'.todo = u /\ job'.touched
  BY <1>1, <1>2, <1>12, <1>13 DEF PersistJob
<1> QED
  BY <1>2, <1>3, <1>4, <1>5, <1>6, <1>8, <1>10, <1>11, <1>12, <1>14

\* The step keeps the types.
LEMMA WriteZoneTyped == ASSUME EditionsTyped, WriteZone PROVE EditionsTyped'
<1>1. PICK k \in Keystores, z \in Zones, doc \in Doc, x \in Files :
              /\ k = job.who
              /\ x = [disk[k] EXCEPT !.zones =
                         [@ EXCEPT ![z] = [seal |-> Len(drafts), doc |-> doc]]]
              /\ disk' = [disk EXCEPT ![k] = x]
              /\ job' \in PersistJob /\ job'.who = k /\ job'.entry = job.entry
              /\ job'.drops = job.drops
  BY WriteZoneIs
<1>2. x.manifest = disk[k].manifest /\ x.log = disk[k].log /\ x.history = disk[k].history
  BY <1>1, FilesAre DEF Files
<1>3. job.entry \in 0 .. Len(entries) /\ disk[k].manifest # None
        /\ job.drops \subseteq revoked
  BY <1>1, PersistingIs DEF WriteZone
<1>4. disk'[k] = x
  BY <1>1 DEF EditionsTyped, DiskOK
<1>5. UNCHANGED <<plan, seeds, mandates, revoked, entries, drafts, bundles, clock, deaths,
                  lost, torn, died, dropped>>
  BY DEF WriteZone, history
<1>6. /\ revoked \subseteq DOMAIN mandates /\ dropped \subseteq revoked
      /\ torn \subseteq Keystores /\ died \subseteq Keystores
  BY DEF EditionsTyped
<1> QED
  BY <1>1, <1>2, <1>3, <1>4, <1>5, <1>6, FilesAre, FilesTyped

\* What the snapshot of did.json is.
LEMMA SnapshotIs ==
    ASSUME EditionsTyped, Snapshot
    PROVE  \E k \in Keystores, x \in Files :
              /\ k = job.who /\ job.todo = <<>>
              /\ x = [disk[k] EXCEPT !.snap = disk[k].did]
              /\ disk' = [disk EXCEPT ![k] = x]
              /\ job' \in PersistJob /\ job'.step = "manifest" /\ job'.who = k
              /\ job'.docs = job.docs /\ job'.entry = job.entry /\ job'.drops = job.drops
              /\ job'.todo = job.todo
<1>1. job \in PersistJob /\ job.step = "zones" /\ job.todo = <<>>
  BY PersistingIs DEF Snapshot
<1>2. PICK k \in Keystores : k = job.who
  BY <1>1 DEF PersistJob
<1>3. PICK x : x = [disk[k] EXCEPT !.snap = disk[k].did]
  OBVIOUS
<1>4. x \in Files
  BY <1>3, FilesAre DEF Files
<1>5. disk' = [disk EXCEPT ![k] = x]
  <2>1. disk' = [disk EXCEPT ![k].snap = disk[k].did]
    BY <1>2 DEF Snapshot
  <2>2. [disk EXCEPT ![k].snap = disk[k].did] = [disk EXCEPT ![k] = x]
    BY <1>3
  <2> QED
    BY <2>1, <2>2
<1>6. job' = [job EXCEPT !.step = "manifest"]
  BY DEF Snapshot
<1>7. /\ job' \in PersistJob /\ job'.step = "manifest" /\ job'.who = k
      /\ job'.docs = job.docs /\ job'.entry = job.entry /\ job'.drops = job.drops
      /\ job'.todo = job.todo
  BY <1>1, <1>2, <1>6 DEF PersistJob
<1> QED
  BY <1>1, <1>2, <1>3, <1>4, <1>5, <1>7

\* The step keeps the types.
LEMMA SnapshotTyped == ASSUME EditionsTyped, Snapshot PROVE EditionsTyped'
<1>1. PICK k \in Keystores, x \in Files :
              /\ k = job.who
              /\ x = [disk[k] EXCEPT !.snap = disk[k].did]
              /\ disk' = [disk EXCEPT ![k] = x]
              /\ job' \in PersistJob /\ job'.who = k /\ job'.entry = job.entry
              /\ job'.drops = job.drops
  BY SnapshotIs
<1>2. x.manifest = disk[k].manifest /\ x.log = disk[k].log /\ x.history = disk[k].history
  BY <1>1, FilesAre DEF Files
<1>3. job.entry \in 0 .. Len(entries) /\ disk[k].manifest # None
        /\ job.drops \subseteq revoked
  BY <1>1, PersistingIs DEF Snapshot
<1>4. disk'[k] = x
  BY <1>1 DEF EditionsTyped, DiskOK
<1>5. UNCHANGED <<plan, seeds, mandates, revoked, entries, drafts, bundles, clock, deaths,
                  lost, torn, died, dropped>>
  BY DEF Snapshot, history
<1>6. /\ revoked \subseteq DOMAIN mandates /\ dropped \subseteq revoked
      /\ torn \subseteq Keystores /\ died \subseteq Keystores
  BY DEF EditionsTyped
<1> QED
  BY <1>1, <1>2, <1>3, <1>4, <1>5, <1>6, FilesAre, FilesTyped

\* What writing the manifest is.
LEMMA WriteManifestIs ==
    ASSUME EditionsTyped, WriteManifest
    PROVE  \E k \in Keystores, x \in Files :
              /\ k = job.who
              /\ x = [disk[k] EXCEPT !.manifest = Len(drafts)]
              /\ disk' = [disk EXCEPT ![k] = x]
              /\ job' \in PersistJob /\ job'.step = "archive" /\ job'.who = k
              /\ job'.docs = job.docs /\ job'.entry = job.entry /\ job'.drops = job.drops
              /\ job'.todo = job.todo
<1>1. job \in PersistJob /\ job.step = "manifest"
  BY PersistingIs DEF WriteManifest
<1>2. PICK k \in Keystores : k = job.who
  BY <1>1 DEF PersistJob
<1>3. PICK x : x = [disk[k] EXCEPT !.manifest = Len(drafts)]
  OBVIOUS
<1>4. x \in Files
  BY <1>3, FilesAre DEF Files
<1>5. disk' = [disk EXCEPT ![k] = x]
  <2>1. disk' = [disk EXCEPT ![k].manifest = Len(drafts)]
    BY <1>2 DEF WriteManifest
  <2>2. [disk EXCEPT ![k].manifest = Len(drafts)] = [disk EXCEPT ![k] = x]
    BY <1>3
  <2> QED
    BY <2>1, <2>2
<1>6. job' = [job EXCEPT !.step = "archive"]
  BY DEF WriteManifest
<1>7. /\ job' \in PersistJob /\ job'.step = "archive" /\ job'.who = k
      /\ job'.docs = job.docs /\ job'.entry = job.entry /\ job'.drops = job.drops
      /\ job'.todo = job.todo
  BY <1>1, <1>2, <1>6 DEF PersistJob
<1> QED
  BY <1>2, <1>3, <1>4, <1>5, <1>7

\* The step keeps the types.
LEMMA WriteManifestTyped == ASSUME EditionsTyped, WriteManifest PROVE EditionsTyped'
<1>1. PICK k \in Keystores, x \in Files :
              /\ k = job.who
              /\ x = [disk[k] EXCEPT !.manifest = Len(drafts)]
              /\ disk' = [disk EXCEPT ![k] = x]
              /\ job' \in PersistJob /\ job'.who = k /\ job'.entry = job.entry
              /\ job'.drops = job.drops
  BY WriteManifestIs
<1>2. x.manifest = Len(drafts) /\ x.log = disk[k].log /\ x.history = disk[k].history
  BY <1>1, FilesAre DEF Files
<1>3. job.entry \in 0 .. Len(entries) /\ job.drops \subseteq revoked
  BY <1>1, PersistingIs DEF WriteManifest
<1>4. disk'[k] = x
  BY <1>1 DEF EditionsTyped, DiskOK
<1>5. UNCHANGED <<plan, seeds, mandates, revoked, entries, drafts, bundles, clock, deaths,
                  lost, torn, dropped>> /\ died' \subseteq died
  BY DEF WriteManifest
<1>6. /\ revoked \subseteq DOMAIN mandates /\ dropped \subseteq revoked
      /\ torn \subseteq Keystores /\ died \subseteq Keystores
  BY DEF EditionsTyped
<1>7. x.manifest \in 0 .. Len(drafts) /\ x.manifest # None
  BY <1>1, <1>2, FilesAre DEF None
<1> QED
  BY <1>1, <1>2, <1>3, <1>4, <1>5, <1>6, <1>7, FilesAre, FilesTyped

\* What archiving the edition is.
LEMMA ArchiveIs ==
    ASSUME EditionsTyped, Archive
    PROVE  \E k \in Keystores, x \in Files :
              /\ k = job.who
              /\ x = [disk[k] EXCEPT !.history = x.history]
              /\ disk' = [disk EXCEPT ![k] = x] /\ job' = Idle
              /\ \A v \in DOMAIN x.history :
                    \/ v \in DOMAIN disk[k].history /\ x.history[v] = disk[k].history[v]
                    \/ v = Last(drafts).version /\ x.history[v] = Len(drafts)
<1>1. job \in PersistJob /\ job.step = "archive"
  BY PersistingIs DEF Archive
<1>2. PICK k \in Keystores : k = job.who
  BY <1>1 DEF PersistJob
<1>3. PICK h : h = Put(disk[k].history, Last(drafts).version, Len(drafts))
  OBVIOUS
<1>4. PICK x : x = [disk[k] EXCEPT !.history = h]
  OBVIOUS
<1>5. disk[k] \in Files /\ Len(drafts) \in Nat \ {0}
  BY FilesAre
<1>6. Last(drafts).version \in Nat
  BY <1>5 DEF EditionsTyped, Last
<1>7. PICK V \in SUBSET Nat : disk[k].history \in [V -> Nat]
  BY <1>5 DEF Files
<1>8. h \in [V \cup {Last(drafts).version} -> Nat]
  BY <1>3, <1>5, <1>6, <1>7 DEF Put
<1>9. x \in Files
  <2>1. V \cup {Last(drafts).version} \in SUBSET Nat
    BY <1>6
  <2>2. h \in UNION {[W -> Nat] : W \in SUBSET Nat}
    BY <1>8, <2>1
  <2> QED
    BY <1>4, <1>5, <2>2 DEF Files
<1>10. x.history = h
  BY <1>4, <1>5 DEF Files
<1>11. disk' = [disk EXCEPT ![k] = x]
  <2>1. disk' = [disk EXCEPT ![k].history = h]
    BY <1>2, <1>3 DEF Archive
  <2>2. [disk EXCEPT ![k].history = h] = [disk EXCEPT ![k] = x]
    BY <1>4
  <2> QED
    BY <2>1, <2>2
<1>12. x = [disk[k] EXCEPT !.history = x.history]
  BY <1>4, <1>10
<1>13. job' = Idle
  BY DEF Archive
<1>14. \A v \in DOMAIN h :
          \/ v \in DOMAIN disk[k].history /\ h[v] = disk[k].history[v]
          \/ v = Last(drafts).version /\ h[v] = Len(drafts)
  BY <1>3 DEF Put
<1>15. \A v \in DOMAIN x.history :
          \/ v \in DOMAIN disk[k].history /\ x.history[v] = disk[k].history[v]
          \/ v = Last(drafts).version /\ x.history[v] = Len(drafts)
  BY <1>10, <1>14
<1> WITNESS k \in Keystores, x \in Files
<1> QED
  BY <1>2, <1>11, <1>12, <1>13, <1>15

\* The step keeps the types.
LEMMA ArchiveTyped == ASSUME EditionsTyped, Archive PROVE EditionsTyped'
<1>1. PICK k \in Keystores, x \in Files :
              /\ k = job.who
              /\ x = [disk[k] EXCEPT !.history = x.history]
              /\ disk' = [disk EXCEPT ![k] = x] /\ job' = Idle
              /\ \A v \in DOMAIN x.history :
                    \/ v \in DOMAIN disk[k].history /\ x.history[v] = disk[k].history[v]
                    \/ v = Last(drafts).version /\ x.history[v] = Len(drafts)
  BY ArchiveIs
<1>2. x.manifest = disk[k].manifest /\ x.log = disk[k].log
  BY <1>1, FilesAre DEF Files
<1>3. Last(drafts).version \in 1 .. Len(drafts)
  BY FilesAre, <1>1 DEF EditionsTyped, Last
<1>4. \A v \in DOMAIN x.history :
         v \in 1 .. Len(drafts) /\ x.history[v] \in 1 .. Len(drafts)
  BY <1>1, <1>3, FilesAre
<1>5. UNCHANGED <<plan, seeds, mandates, revoked, entries, drafts, bundles, clock, deaths,
                  lost, torn, died>>
  BY DEF Archive
<1>6. /\ revoked \subseteq DOMAIN mandates /\ dropped' \subseteq revoked
      /\ torn \subseteq Keystores /\ died \subseteq Keystores
  BY PersistingIs DEF EditionsTyped, Archive
<1> QED
  BY <1>1, <1>2, <1>4, <1>5, <1>6, FilesAre, FilesTyped

\* Of the files to install, one is installed and the others are left.
LEMMA OneInstallLess ==
    ASSUME NEW t \in InstallLists
    PROVE  /\ Head(t) \in InstallNames
           /\ Head(t) # "log" => /\ Tail(t) \in InstallLists
                                 /\ ToSet(t) = {Head(t)} \cup ToSet(Tail(t))
           /\ Head(t) = "log" => ToSet(t) = {"log"}
           /\ "log" \in ToSet(t)
<1>1. CASE t = <<"log">>
  BY <1>1 DEF ToSet, InstallNames
<1>2. CASE t = <<"self", "log">>
  <2>1. Head(t) = "self" /\ Tail(t) = <<"log">>
    BY <1>2
  <2>2. ToSet(t) = {"self", "log"} /\ ToSet(Tail(t)) = {"log"}
    BY <1>2, <2>1 DEF ToSet
  <2> QED
    BY <2>1, <2>2 DEF InstallNames, InstallLists
<1>3. CASE t = <<"circle", "self", "log">>
  <2>1. Head(t) = "circle" /\ Tail(t) = <<"self", "log">>
    BY <1>3
  <2>2. ToSet(t) = {"circle", "self", "log"} /\ ToSet(Tail(t)) = {"self", "log"}
    BY <1>3, <2>1 DEF ToSet
  <2> QED
    BY <2>1, <2>2 DEF InstallNames, InstallLists
<1>4. CASE t = <<"public", "circle", "self", "log">>
  <2>1. Head(t) = "public" /\ Tail(t) = <<"circle", "self", "log">>
    BY <1>4
  <2>2. ToSet(t) = {"public", "circle", "self", "log"}
          /\ ToSet(Tail(t)) = {"circle", "self", "log"}
    BY <1>4, <2>1 DEF ToSet
  <2> QED
    BY <2>1, <2>2 DEF InstallNames, InstallLists
<1>5. CASE t = <<"snap", "public", "circle", "self", "log">>
  <2>1. Head(t) = "snap" /\ Tail(t) = <<"public", "circle", "self", "log">>
    BY <1>5
  <2>2. ToSet(t) = {"snap", "public", "circle", "self", "log"}
          /\ ToSet(Tail(t)) = {"public", "circle", "self", "log"}
    BY <1>5, <2>1 DEF ToSet
  <2> QED
    BY <2>1, <2>2 DEF InstallNames, InstallLists
<1>6. CASE t = <<"manifest", "snap", "public", "circle", "self", "log">>
  <2>1. Head(t) = "manifest" /\ Tail(t) = <<"snap", "public", "circle", "self", "log">>
    BY <1>6
  <2>2. ToSet(t) = {"manifest", "snap", "public", "circle", "self", "log"}
          /\ ToSet(Tail(t)) = {"snap", "public", "circle", "self", "log"}
    BY <1>6, <2>1 DEF ToSet
  <2> QED
    BY <2>1, <2>2 DEF InstallNames, InstallLists
<1>7. CASE t = <<"did", "manifest", "snap", "public", "circle", "self", "log">>
  <2>1. Head(t) = "did"
          /\ Tail(t) = <<"manifest", "snap", "public", "circle", "self", "log">>
    BY <1>7
  <2>2. ToSet(t) = {"did", "manifest", "snap", "public", "circle", "self", "log"}
          /\ ToSet(Tail(t)) = {"manifest", "snap", "public", "circle", "self", "log"}
    BY <1>7, <2>1 DEF ToSet
  <2> QED
    BY <2>1, <2>2 DEF InstallNames, InstallLists
<1> QED
  BY <1>1, <1>2, <1>3, <1>4, <1>5, <1>6, <1>7 DEF InstallLists

\* One file of a bundle in the place of another.
LEMMA InstalledIs ==
    ASSUME NEW d \in Files, NEW b \in Bundle, NEW f \in InstallNames
    PROVE  /\ InstalledFile(d, f, b) \in Files
           /\ InstalledFile(d, f, b).history = d.history
           /\ InstalledFile(d, f, b).did = IF f = "did" THEN b.did ELSE d.did
           /\ InstalledFile(d, f, b).snap = IF f = "snap" THEN b.did ELSE d.snap
           /\ InstalledFile(d, f, b).manifest =
                 IF f = "manifest" THEN b.manifest ELSE d.manifest
           /\ InstalledFile(d, f, b).log = IF f = "log" THEN LogAfter(d, b) ELSE d.log
           /\ \A z \in Zones : InstalledFile(d, f, b).zones[z] =
                 IF f = z /\ b.zones[z].seal # None THEN b.zones[z] ELSE d.zones[z]
<1>1. LogAfter(d, b) \in Seq(Nat)
  BY DEF LogAfter, Files, Bundle
<1>2. CASE f = "did"
  BY <1>2 DEF InstalledFile, Files, Bundle, Zones
<1>3. CASE f = "snap"
  BY <1>3 DEF InstalledFile, Files, Bundle, Zones
<1>4. CASE f = "manifest"
  BY <1>4 DEF InstalledFile, Files, Bundle, Zones
<1>5. CASE f = "log"
  BY <1>1, <1>5 DEF InstalledFile, Files, Bundle, Zones
<1>6. CASE f \in Zones /\ b.zones[f].seal # None
  <2>1. InstalledFile(d, f, b) = [d EXCEPT !.zones = [@ EXCEPT ![f] = b.zones[f]]]
    BY <1>6 DEF InstalledFile, Zones
  <2>2. b.zones[f] \in ZoneFile
    BY <1>6 DEF Bundle
  <2> QED
    BY <1>6, <2>1, <2>2 DEF Files, Zones
<1>7. CASE f \in Zones /\ b.zones[f].seal = None
  <2>1. InstalledFile(d, f, b) = d
    BY <1>7 DEF InstalledFile, Zones
  <2> QED
    BY <1>7, <2>1 DEF Zones
<1> QED
  BY <1>2, <1>3, <1>4, <1>5, <1>6, <1>7 DEF InstallNames, Zones

\* A command that installs files is an install.
LEMMA InstallingIs ==
    ASSUME EditionsTyped, job.step = "install"
    PROVE  job \in InstallJob /\ BundleOK(job.bundle)
<1>1. JobOK /\ job \in InstallJob
  BY StepsAre DEF EditionsTyped
<1> QED
  BY <1>1 DEF JobOK

\* A file of a bundle is installed.
Installs(k, b, f, x) ==
    /\ k = job.who /\ b = job.bundle /\ f = Head(job.todo) /\ job \in InstallJob
    /\ x = InstalledFile(disk[k], f, b)
    /\ disk' = [disk EXCEPT ![k] = x]
    /\ f = "log" =>
          /\ job' = Idle
          /\ torn' = IF b.torn \/ (b.log = <<>> /\ disk[k].log # <<>>)
                     THEN torn ELSE torn \ {k}
          /\ died' = IF b.died THEN died \cup {k} ELSE died \ {k}
    /\ f # "log" => /\ job' = [job EXCEPT !.todo = Tail(@)]
                    /\ job' \in InstallJob /\ job'.who = k /\ job'.bundle = b
                    /\ job'.todo = Tail(job.todo)
                    /\ UNCHANGED <<torn, died>>
    /\ readmitted' = IF f = "manifest" /\ k = Owner
                     THEN readmitted \cup (drafts[b.manifest].readers \cap revoked)
                     ELSE readmitted
    /\ UNCHANGED <<plan, seeds, mandates, revoked, entries, drafts, bundles, clock, deaths,
                   lost, dropped>>

\* What installing a file is.
LEMMA InstallFileIs ==
    ASSUME EditionsTyped, InstallFile
    PROVE  \E k \in Keystores, b \in Bundle, f \in InstallNames, x \in Files :
              Installs(k, b, f, x) /\ BundleOK(b)
<1>1. job \in InstallJob /\ BundleOK(job.bundle)
  BY InstallingIs DEF InstallFile
<1>2. PICK k \in Keystores : k = job.who
  BY <1>1 DEF InstallJob
<1>3. PICK b \in Bundle : b = job.bundle
  BY <1>1 DEF InstallJob
<1>4. PICK f \in InstallNames : f = Head(job.todo) /\ (f # "log" => Tail(job.todo) \in InstallLists)
  BY <1>1, OneInstallLess DEF InstallJob
<1>5. PICK x \in Files : x = InstalledFile(disk[k], f, b)
  BY InstalledIs, FilesAre
<1>6. disk' = [disk EXCEPT ![k] = x]
  BY <1>2, <1>3, <1>4, <1>5 DEF InstallFile
<1>7. f # "log" => job' = [job EXCEPT !.todo = Tail(@)] /\ UNCHANGED <<torn, died>>
  BY <1>4 DEF InstallFile
<1>8. ASSUME f # "log"
      PROVE  /\ job' \in InstallJob /\ job'.who = k /\ job'.bundle = b
             /\ job'.todo = Tail(job.todo)
  BY <1>1, <1>2, <1>3, <1>4, <1>7, <1>8 DEF InstallJob
<1>9. f = "log" =>
          /\ job' = Idle
          /\ torn' = IF b.torn \/ (b.log = <<>> /\ disk[k].log # <<>>)
                     THEN torn ELSE torn \ {k}
          /\ died' = IF b.died THEN died \cup {k} ELSE died \ {k}
  BY <1>2, <1>3, <1>4 DEF InstallFile
<1>10. /\ readmitted' = IF f = "manifest" /\ k = Owner
                     THEN readmitted \cup (drafts[b.manifest].readers \cap revoked)
                     ELSE readmitted
       /\ UNCHANGED <<plan, seeds, mandates, revoked, entries, drafts, bundles, clock, deaths,
                   lost, dropped>>
  BY <1>2, <1>3, <1>4 DEF InstallFile
<1>11. Installs(k, b, f, x)
  BY <1>1, <1>2, <1>3, <1>4, <1>5, <1>6, <1>7, <1>8, <1>9, <1>10 DEF Installs
<1>12. BundleOK(b)
  BY <1>1, <1>3
<1> QED
  BY <1>11, <1>12

\* The step keeps the types.
LEMMA InstallFileTyped == ASSUME EditionsTyped, InstallFile PROVE EditionsTyped'
<1>1. PICK k \in Keystores, b \in Bundle, f \in InstallNames, x \in Files :
         Installs(k, b, f, x) /\ BundleOK(b)
  BY InstallFileIs
<1>2. /\ x.history = disk[k].history
      /\ x.manifest = IF f = "manifest" THEN b.manifest ELSE disk[k].manifest
      /\ x.log = IF f = "log" THEN LogAfter(disk[k], b) ELSE disk[k].log
  BY <1>1, InstalledIs, FilesAre DEF Installs
<1>3. /\ x.manifest \in 0 .. Len(drafts) /\ (k = Owner => x.manifest # None)
      /\ \A v \in DOMAIN x.history :
            v \in 1 .. Len(drafts) /\ x.history[v] \in 1 .. Len(drafts)
      /\ \A i \in DOMAIN x.log : x.log[i] \in 1 .. Len(entries)
  BY <1>1, <1>2, FilesAre DEF BundleOK, LogAfter, None
<1>4. job' = Idle \/ (job' \in InstallJob /\ BundleOK(job'.bundle))
  BY <1>1 DEF Installs
<1>5. torn' \subseteq Keystores /\ died' \subseteq Keystores
  BY <1>1 DEF Installs, EditionsTyped
<1>6. UNCHANGED <<plan, seeds, mandates, revoked, entries, drafts, bundles, clock, deaths,
                   lost, dropped>> /\ disk' = [disk EXCEPT ![k] = x]
  BY <1>1 DEF Installs
<1>7. revoked \subseteq DOMAIN mandates /\ dropped \subseteq revoked
  BY DEF EditionsTyped
<1> QED
  BY <1>2, <1>3, <1>4, <1>5, <1>6, <1>7, FilesAre, FilesTyped

\* A step that writes no file of a keystore.
LEMMA QuietTyped ==
    ASSUME EditionsTyped, UNCHANGED <<plan, disk, entries, drafts>>,
           seeds' \in Versions, DOMAIN mandates' \subseteq Agents,
           mandates' \in [DOMAIN mandates' -> Nat],
           revoked' \subseteq DOMAIN mandates', revoked \subseteq revoked',
           dropped' \subseteq revoked', JobOK', BundlesOK',
           clock' \in [Keystores -> Nat], deaths' \in Nat,
           torn' \subseteq Keystores, died' \subseteq Keystores,
           lost' \subseteq 1 .. Len(entries)
    PROVE  EditionsTyped'
<1>1. entries' \in Seq(Entries) /\ drafts' \in Seq(Manifests)
        /\ Len(entries) <= Len(entries') /\ Len(drafts) <= Len(drafts')
  BY DEF EditionsTyped
<1>2. DiskOK'
  BY <1>1, DiskWaits
<1> QED
  BY <1>1, <1>2 DEF EditionsTyped

\* A mandate that is written keeps the types.
LEMMA GrantTyped == ASSUME EditionsTyped, NEW a \in Agents, Grant(a) PROVE EditionsTyped'
<1>1. SphereOf[a] \in Zones /\ seeds[SphereOf[a]] \in Nat
  BY EditionsAssumption DEF EditionsTyped, Versions
<1>2. /\ DOMAIN mandates' = DOMAIN mandates \cup {a}
      /\ mandates' \in [DOMAIN mandates' -> Nat]
  BY <1>1 DEF Grant, Put, EditionsTyped
<1>3. job' \in OwnerJob /\ job'.step = "grant"
  BY DEF Grant, OwnerJob
<1>4. JobOK'
  BY <1>3 DEF JobOK
<1>5. BundlesOK'
  BY DEF Grant, EditionsTyped, BundlesOK, BundleOK
<1>6. UNCHANGED <<plan, disk, seeds, revoked, entries, drafts, bundles, clock, deaths,
                  lost, torn, died, dropped>>
  BY DEF Grant, history
<1>7. /\ seeds \in Versions /\ revoked \subseteq DOMAIN mandates' /\ dropped \subseteq revoked
      /\ clock \in [Keystores -> Nat] /\ deaths \in Nat /\ torn \subseteq Keystores
      /\ died \subseteq Keystores /\ lost \subseteq 1 .. Len(entries)
      /\ DOMAIN mandates' \subseteq Agents
  BY <1>2 DEF EditionsTyped
<1> QED
  BY <1>2, <1>4, <1>5, <1>6, <1>7, QuietTyped

\* So do revocations.
LEMMA RevokeTyped == ASSUME EditionsTyped, NEW a \in Agents, Revoke(a) PROVE EditionsTyped'
<1>1. job' = Idle \/ (job' \in OwnerJob /\ job'.step = "revoke" /\ job'.agent = a)
  BY DEF Revoke, OwnerJob
<1>2. revoked' = revoked \cup {a} /\ a \in DOMAIN mandates
  BY DEF Revoke
<1>3. JobOK'
  BY <1>1, <1>2 DEF JobOK, Idle
<1>4. BundlesOK'
  BY DEF Revoke, EditionsTyped, BundlesOK, BundleOK
<1>5. UNCHANGED <<plan, disk, seeds, mandates, entries, drafts, bundles, clock, deaths,
                  lost, torn, died, dropped>>
  BY DEF Revoke, history
<1>6. /\ seeds \in Versions /\ revoked' \subseteq DOMAIN mandates /\ dropped \subseteq revoked'
      /\ clock \in [Keystores -> Nat] /\ deaths \in Nat /\ torn \subseteq Keystores
      /\ died \subseteq Keystores /\ lost \subseteq 1 .. Len(entries)
      /\ DOMAIN mandates \subseteq Agents /\ mandates \in [DOMAIN mandates -> Nat]
      /\ revoked \subseteq revoked'
  BY <1>2 DEF EditionsTyped
<1> QED
  BY <1>3, <1>4, <1>5, <1>6, QuietTyped

\* The owner has a keystore, with a manifest.
LEMMA OwnerIsInstalled ==
    ASSUME EditionsTyped
    PROVE  Owner \in Keystores /\ Installed(Owner) /\ Manifest(Owner) \in Manifests
<1>1. Owner \in Keystores /\ Installed(Owner)
  BY DEF EditionsTyped, DiskOK, Keystores, Installed
<1> QED
  BY <1>1, ManifestIs

\* A grant and a revocation are commands of the owner.
LEMMA OwnerJobIs ==
    ASSUME EditionsTyped, job.step \in {"grant", "revoke"}
    PROVE  job \in OwnerJob /\ (job.step = "revoke" => job.agent \in revoked)
<1>1. JobOK /\ job \in OwnerJob
  BY StepsAre DEF EditionsTyped
<1> QED
  BY <1>1 DEF JobOK

\* The edition that follows a grant keeps the types.
LEMMA IssueTyped == ASSUME EditionsTyped, IssueWithRewrap PROVE EditionsTyped'
<1>1. job \in OwnerJob
  BY OwnerJobIs DEF IssueWithRewrap
<1>2. PICK readers : readers = IF job.agent \in GammaReaders
                               THEN ReadersFor(Owner) \cup {job.agent}
                               ELSE CarriedReaders
  OBVIOUS
<1>3. readers \in SUBSET Keystores
  BY <1>1, <1>2, OwnerIsInstalled, ReadersAre, CarriedAre DEF OwnerJob, Keystores
<1>4. /\ Persist(Owner, Docs(Owner), disk[Owner].log, readers, None, {})
      /\ UNCHANGED <<plan, disk, seeds, mandates, revoked, entries, bundles, clock,
                     deaths, history>>
  BY <1>2 DEF IssueWithRewrap
<1>5. {} \in SUBSET Agents /\ {} \subseteq revoked
  OBVIOUS
<1> QED
  BY <1>3, <1>4, <1>5, RepinTyped

\* So does the one that follows a revocation.
LEMMA RepinAfterTyped == ASSUME EditionsTyped, RepinAfterRevocation PROVE EditionsTyped'
<1>1. job \in OwnerJob /\ job.agent \in revoked
  BY OwnerJobIs DEF RepinAfterRevocation
<1>2. PICK readers, drops : readers = KeptReaders /\ drops = {job.agent}
  OBVIOUS
<1>3. readers \in SUBSET Keystores /\ drops \in SUBSET Agents /\ drops \subseteq revoked
  BY <1>1, <1>2, OwnerIsInstalled, CarriedAre DEF OwnerJob, KeptReaders
<1>4. /\ Persist(Owner, Docs(Owner), disk[Owner].log, readers, None, drops)
      /\ UNCHANGED <<plan, disk, seeds, mandates, revoked, entries, bundles, clock,
                     deaths, history>>
  BY <1>2 DEF RepinAfterRevocation
<1> QED
  BY <1>3, <1>4, RepinTyped

\* Steps that leave the files, the mandates and what was built alone.
LEMMA AsideTyped ==
    ASSUME EditionsTyped, UNCHANGED <<plan, disk, mandates, revoked, entries, drafts, clock>>,
           seeds' \in Versions, dropped' = dropped, JobOK', BundlesOK',
           deaths' \in Nat, torn' \subseteq Keystores, died' \subseteq Keystores,
           lost' \subseteq 1 .. Len(entries)
    PROVE  EditionsTyped'
<1>1. /\ DOMAIN mandates \subseteq Agents /\ mandates \in [DOMAIN mandates -> Nat]
      /\ revoked \subseteq DOMAIN mandates /\ dropped \subseteq revoked
      /\ clock \in [Keystores -> Nat]
  BY DEF EditionsTyped
<1> QED
  BY <1>1, QuietTyped

\* Bundles that are left alone are well formed.
LEMMA SameBundles ==
    ASSUME EditionsTyped, UNCHANGED <<bundles, entries, drafts>> PROVE BundlesOK'
BY DEF EditionsTyped, BundlesOK, BundleOK

\* A command that throws keeps the types.
LEMMA FailTyped == ASSUME EditionsTyped, FailToLoad PROVE EditionsTyped'
<1>1. JobOK' /\ BundlesOK'
  BY SameBundles DEF FailToLoad, JobOK, Idle
<1> QED
  BY <1>1, AsideTyped DEF FailToLoad, history, EditionsTyped

\* A key that is rotated keeps the types.
LEMMA RotateTyped == ASSUME EditionsTyped, NEW z \in Zones, Rotate(z) PROVE EditionsTyped'
<1>1. job' \in PublishJob
  BY DEF Rotate, PublishJob
<1>2. JobOK'
  BY <1>1 DEF JobOK, PublishJob
<1>3. BundlesOK'
  BY SameBundles DEF Rotate
<1>4. seeds' \in Versions
  BY DEF Rotate, EditionsTyped, Versions
<1> QED
  BY <1>2, <1>3, <1>4, AsideTyped DEF Rotate, history, EditionsTyped

\* What listing a rotated key is.
LEMMA PublishIs ==
    ASSUME EditionsTyped, PublishKey
    PROVE  \E z \in Zones, x \in Files :
              /\ z = job.sphere /\ job \in PublishJob
              /\ x = [disk[Owner] EXCEPT !.did = [@ EXCEPT ![z] = seeds[z]]]
              /\ disk' = [disk EXCEPT ![Owner] = x] /\ job' = Idle
<1>1. job \in PublishJob
  BY StepsAre DEF EditionsTyped, PublishKey
<1>2. PICK z \in Zones : z = job.sphere
  BY <1>1 DEF PublishJob
<1>3. PICK x : x = [disk[Owner] EXCEPT !.did = [@ EXCEPT ![z] = seeds[z]]]
  OBVIOUS
<1>4. disk[Owner] \in Files /\ seeds[z] \in Nat
  BY OwnerIsInstalled DEF EditionsTyped, DiskOK, Versions
<1>5. x \in Files
  BY <1>3, <1>4 DEF Files, Versions
<1>6. disk' = [disk EXCEPT ![Owner] = x]
  <2>1. disk' = [disk EXCEPT ![Owner].did[z] = seeds[z]]
    BY <1>2 DEF PublishKey
  <2>2. [disk EXCEPT ![Owner].did[z] = seeds[z]] = [disk EXCEPT ![Owner] = x]
    BY <1>3
  <2> QED
    BY <2>1, <2>2
<1> QED
  BY <1>1, <1>2, <1>3, <1>5, <1>6 DEF PublishKey

\* The step keeps the types.
LEMMA PublishTyped == ASSUME EditionsTyped, PublishKey PROVE EditionsTyped'
<1>1. PICK z \in Zones, x \in Files :
              /\ x = [disk[Owner] EXCEPT !.did = [@ EXCEPT ![z] = seeds[z]]]
              /\ disk' = [disk EXCEPT ![Owner] = x] /\ job' = Idle
  BY PublishIs
<1>2. Owner \in Keystores
  BY OwnerIsInstalled
<1>3. x.manifest = disk[Owner].manifest /\ x.log = disk[Owner].log
        /\ x.history = disk[Owner].history
  BY <1>1, <1>2, FilesAre DEF Files
<1>4. UNCHANGED <<plan, seeds, mandates, revoked, entries, drafts, bundles, clock, deaths,
                  lost, torn, died, dropped>>
  BY DEF PublishKey, history
<1>5. /\ revoked \subseteq DOMAIN mandates /\ dropped \subseteq revoked
      /\ torn \subseteq Keystores /\ died \subseteq Keystores
  BY DEF EditionsTyped
<1> QED
  BY <1>1, <1>2, <1>3, <1>4, <1>5, FilesAre, FilesTyped

\* A keystore is packed.
LEMMA PackIs ==
    ASSUME EditionsTyped, NEW k \in Keystores, Pack(k)
    PROVE  \E b \in Bundle :
              /\ BundleOK(b) /\ bundles' = [bundles EXCEPT ![k] = b]
              /\ b.manifest = disk[k].manifest /\ b.did = disk[k].snap
              /\ b.zones = disk[k].zones /\ b.log = disk[k].log
              /\ b.torn = (k \in torn) /\ b.died = (k \in died)
<1>1. PICK b : b = [manifest |-> disk[k].manifest, did |-> disk[k].snap,
                    zones |-> disk[k].zones, log |-> disk[k].log,
                    torn |-> k \in torn, died |-> k \in died]
  OBVIOUS
<1>2. b \in Bundle
  BY <1>1, FilesAre DEF Bundle, Files
<1>3. BundleOK(b)
  BY <1>1, <1>2, FilesAre DEF BundleOK, Pack, Installed, None
<1>4. bundles' = [bundles EXCEPT ![k] = b]
  BY <1>1 DEF Pack
<1> QED
  BY <1>1, <1>2, <1>3, <1>4

\* A bundle that is packed keeps the types.
LEMMA PackTyped == ASSUME EditionsTyped, NEW k \in Keystores, Pack(k) PROVE EditionsTyped'
<1>1. PICK b \in Bundle : BundleOK(b) /\ bundles' = [bundles EXCEPT ![k] = b]
  BY PackIs
<1>2. BundlesOK'
  BY <1>1 DEF EditionsTyped, BundlesOK, BundleOK, Pack
<1>3. JobOK'
  BY DEF Pack, JobOK, Idle
<1> QED
  BY <1>2, <1>3, AsideTyped DEF Pack, history, EditionsTyped

\* What beginning an install is.
LEMMA InstallIs ==
    ASSUME EditionsTyped, NEW k \in Keystores, NEW from \in Keystores, Install(k, from)
    PROVE  \E b \in Bundle :
              /\ BundleOK(b) /\ b = bundles[from] /\ BundleVerifies(b, k)
              /\ job' \in InstallJob /\ job'.who = k /\ job'.bundle = b
              /\ job'.todo = <<"did", "manifest", "snap", "public", "circle", "self", "log">>
<1>1. PICK b : b = bundles[from]
  OBVIOUS
<1>2. BundleOK(b) /\ b \in Bundle
  BY <1>1 DEF Install, EditionsTyped, BundlesOK, BundleOK
<1>3. job' = [step |-> "install", who |-> k, bundle |-> b,
              todo |-> <<"did", "manifest", "snap", "public", "circle", "self", "log">>]
  BY <1>1 DEF Install
<1>4. job' \in InstallJob
  BY <1>2, <1>3 DEF InstallJob, InstallLists
<1> QED
  BY <1>1, <1>2, <1>3, <1>4 DEF Install

\* The step keeps the types.
LEMMA InstallTyped ==
    ASSUME EditionsTyped, NEW k \in Keystores, NEW from \in Keystores, Install(k, from)
    PROVE  EditionsTyped'
<1>1. PICK b \in Bundle : BundleOK(b) /\ job' \in InstallJob /\ job'.bundle = b
  BY InstallIs
<1>2. UNCHANGED <<plan, disk, seeds, mandates, revoked, entries, drafts, bundles, clock,
                  deaths, lost, died, dropped>> /\ torn' = torn \cup {k}
  BY DEF Install
<1>3. JobOK'
  BY <1>1, <1>2 DEF JobOK, InstallJob, BundleOK
<1>4. BundlesOK'
  BY <1>2, SameBundles
<1> QED
  BY <1>2, <1>3, <1>4, AsideTyped DEF EditionsTyped

\* A death keeps the types.
LEMMA DieTyped == ASSUME EditionsTyped, Die PROVE EditionsTyped'
<1>1. UNCHANGED <<plan, disk, seeds, mandates, revoked, entries, drafts, bundles, clock,
                  torn, dropped>> /\ deaths' = deaths + 1 /\ job' = Idle
  BY DEF Die
<1>2. JobOK' /\ BundlesOK'
  BY <1>1, SameBundles DEF JobOK, Idle
<1>3. lost' \subseteq 1 .. Len(entries)
  <2>1. CASE lost' = lost
    BY <2>1 DEF EditionsTyped
  <2>2. CASE job.step = "zones" /\ job.entry # None /\ lost' = lost \cup {job.entry}
    BY <2>2, PersistingIs DEF EditionsTyped, None
  <2> QED
    BY <2>1, <2>2 DEF Die
<1>4. died' \subseteq Keystores
  <2>1. CASE died' = died
    BY <2>1 DEF EditionsTyped
  <2>2. CASE job.step \in {"zones", "manifest"} /\ died' = died \cup {job.who}
    BY <2>2, PersistingIs DEF EditionsTyped
  <2> QED
    BY <2>1, <2>2 DEF Die
<1> QED
  BY <1>1, <1>2, <1>3, <1>4, AsideTyped DEF EditionsTyped

\* What a write is made with.
LEMMA WritesAre ==
    ASSUME EditionsTyped, Writes
    PROVE  \E k \in Keystores, s \in Sections :
              \E r \in Entries, docs \in [Zones -> Doc], log \in Seq(Nat),
                 readers \in SUBSET Keystores, e \in Nat :
                    WriteOf(k, s, r, docs, log, readers, e)
<1>1. PICK k \in Keystores, s \in Sections, tick \in plan.ticks :
        \/ Write(k, "section.add", s, {"title", "body"}, clock[k] + tick)
        \/ \E f \in {"title", "body"} :
              Write(k, "section.modify", s, {f}, clock[k] + tick)
        \/ Write(k, "section.delete", s, {}, clock[k] + tick)
  BY DEF Writes
<1>2. tick \in Nat
  BY <1>1, EditionsAssumption DEF EditionsTyped
<1>3. PICK op \in Operations, payload \in SUBSET {"title", "body"} :
         Write(k, op, s, payload, clock[k] + tick)
  BY <1>1 DEF Operations
<1> QED
  BY <1>2, <1>3, WriteIs

\* Every step keeps the types.
LEMMA TypedStep == EditionsTyped /\ [Next]_vars => EditionsTyped'
<1> SUFFICES ASSUME EditionsTyped, [Next]_vars PROVE EditionsTyped'
  OBVIOUS
<1>1. CASE Writes
  BY <1>1, WritesAre, WriteTyped
<1>2. CASE WriteZone \/ Snapshot \/ WriteManifest \/ Archive
  BY <1>2, WriteZoneTyped, SnapshotTyped, WriteManifestTyped, ArchiveTyped
<1>3. CASE \E a \in Agents : Grant(a) \/ Revoke(a)
  BY <1>3, GrantTyped, RevokeTyped
<1>4. CASE IssueWithRewrap \/ RepinAfterRevocation \/ FailToLoad
  BY <1>4, IssueTyped, RepinAfterTyped, FailTyped
<1>5. CASE \E z \in Zones : Rotate(z)
  BY <1>5, RotateTyped
<1>6. CASE PublishKey
  BY <1>6, PublishTyped
<1>7. CASE \E k \in Keystores : Pack(k)
  BY <1>7, PackTyped
<1>8. CASE \E k, from \in Keystores : Install(k, from)
  BY <1>8, InstallTyped
<1>9. CASE InstallFile
  BY <1>9, InstallFileTyped
<1>10. CASE Die
  BY <1>10, DieTyped
<1>11. CASE UNCHANGED vars
  BY <1>11 DEF vars, history, EditionsTyped, DiskOK, JobOK, BundlesOK, BundleOK
<1> QED
  BY <1>1, <1>2, <1>3, <1>4, <1>5, <1>6, <1>7, <1>8, <1>9, <1>10, <1>11 DEF Next

-----------------------------------------------------------------------------
(* Revoked agents *)

\* The edition that the owner is writing has nothing for those whose revocation has
\* returned, nor for the one that it revokes; whoever is granted was never revoked.
RevokedInv ==
    /\ \A a \in drafts[disk[Owner].manifest].readers \cap dropped : a \in readmitted
    /\ job.step \in {"zones", "manifest", "archive"} /\ job.who = Owner =>
          /\ \A z \in Private : drafts[Len(drafts)].zones[z].wraps \cap dropped = {}
          /\ drafts[Len(drafts)].readers \cap dropped \subseteq readmitted
          /\ drafts[Len(drafts)].readers \cap job.drops = {}
    /\ job.step = "archive" /\ job.who = Owner => disk[Owner].manifest = Len(drafts)
    /\ job.step \in {"zones", "manifest", "archive"} /\ job.who # Owner => job.drops = {}
    /\ job.step = "grant" => job.agent \notin dropped

\* At first nobody is revoked.
LEMMA RevokedInit == Init => RevokedInv
BY DEF Init, RevokedInv, Idle

\* An edition that the owner begins.
LEMMA OwnersEditionIsSafe ==
    ASSUME EditionsTyped, RevokedInv, NEW docs \in [Zones -> Doc], NEW log \in Seq(Nat),
           NEW readers \in SUBSET Keystores, NEW entry \in Nat,
           NEW drops \in SUBSET Agents,
           Persist(Owner, docs, log, readers, entry, drops),
           UNCHANGED <<mandates, revoked, dropped, readmitted>>,
           disk'[Owner].manifest = disk[Owner].manifest,
           readers \cap dropped \subseteq readmitted, readers \cap drops = {}
    PROVE  RevokedInv'
<1>1. /\ Len(drafts') = Len(drafts) + 1 /\ Len(drafts) \in Nat
      /\ \A i \in DOMAIN drafts : drafts'[i] = drafts[i]
      /\ drafts'[Len(drafts')] = Draft(Owner, log, readers)
  BY OwnerIsInstalled, PersistTyped
<1>2. drafts'[disk[Owner].manifest] = drafts[disk[Owner].manifest]
  BY <1>1, OwnerIsInstalled, ManifestIs
<1>3. job'.step = "zones" /\ job'.who = Owner /\ job'.drops = drops
  BY DEF Persist
<1>4. Draft(Owner, log, readers).readers = readers
  BY DEF Draft, Edition
<1>5. \A z \in Private : Draft(Owner, log, readers).zones[z].wraps \cap dropped = {}
  <2> TAKE z \in Private
  <2>1. z \in Zones /\ z \in Loaded(Owner)
    BY DEF Loaded, Private
  <2>2. Draft(Owner, log, readers).zones[z] = Rendered(Owner, z)
    BY <2>1 DEF Draft, Edition
  <2>3. Rendered(Owner, z).wraps \subseteq ActiveDelegates(z)
    BY DEF Rendered, Sealed
  <2> QED
    BY <2>2, <2>3 DEF ActiveDelegates, EditionsTyped
<1> QED
  BY <1>1, <1>2, <1>3, <1>4, <1>5 DEF RevokedInv

\* An edition that an agent begins.
LEMMA AgentsEditionIsAside ==
    ASSUME EditionsTyped, RevokedInv, NEW k \in Agents, Installed(k),
           NEW docs \in [Zones -> Doc], NEW log \in Seq(Nat),
           NEW readers \in SUBSET Keystores, NEW entry \in Nat,
           Persist(k, docs, log, readers, entry, {}),
           UNCHANGED <<dropped, readmitted>>,
           disk'[Owner].manifest = disk[Owner].manifest
    PROVE  RevokedInv'
<1>1. k \in Keystores /\ k # Owner /\ {} \in SUBSET Agents
  BY EditionsAssumption DEF Keystores
<1>2. \A i \in DOMAIN drafts : drafts'[i] = drafts[i]
  BY <1>1, PersistTyped
<1>3. drafts'[disk[Owner].manifest] = drafts[disk[Owner].manifest]
  BY <1>2, OwnerIsInstalled, ManifestIs
<1>4. job'.step = "zones" /\ job'.who = k /\ job'.drops = {}
  BY DEF Persist
<1> QED
  BY <1>1, <1>3, <1>4 DEF RevokedInv

\* No step gives what is new to someone whose revocation has returned.
LEMMA RevokedStep == EditionsTyped /\ RevokedInv /\ [Next]_vars => RevokedInv'
<1> SUFFICES ASSUME EditionsTyped, RevokedInv, [Next]_vars PROVE RevokedInv'
  OBVIOUS
<1>0. Owner \in Keystores /\ Installed(Owner) /\ disk[Owner].manifest \in DOMAIN drafts
        /\ disk \in [Keystores -> Files]
  BY OwnerIsInstalled, ManifestIs DEF EditionsTyped, DiskOK
<1>1. CASE Writes
  <2>1. PICK k \in Keystores, s \in Sections, r \in Entries, docs \in [Zones -> Doc],
           log \in Seq(Nat), readers \in SUBSET Keystores, e \in Nat :
              WriteOf(k, s, r, docs, log, readers, e)
    BY <1>1, WritesAre
  <2>2. /\ Persist(k, docs, log, readers, e, {}) /\ readers = ReadersFor(k)
        /\ Installed(k) /\ UNCHANGED <<mandates, revoked, dropped, readmitted>>
    BY <2>1 DEF WriteOf, history
  <2>3. disk'[Owner].manifest = disk[Owner].manifest
    BY <1>0, <2>1 DEF WriteOf, Files
  <2>4. CASE k = Owner
    <3>1. readers \cap dropped \subseteq readmitted
      <4>1. Owner \notin dropped
        BY EditionsAssumption DEF EditionsTyped
      <4> QED
        BY <2>2, <2>4, <4>1 DEF ReadersFor, Manifest, RevokedInv
    <3>2. {} \in SUBSET Agents /\ readers \cap {} = {}
      OBVIOUS
    <3> QED
      BY <2>2, <2>3, <2>4, <3>1, <3>2, OwnersEditionIsSafe
  <2>5. CASE k # Owner
    <3>1. k \in Agents
      BY <2>5 DEF Keystores
    <3> QED
      BY <2>2, <2>3, <3>1, AgentsEditionIsAside
  <2> QED
    BY <2>4, <2>5
<1>2. CASE WriteZone
  <2>1. PICK k \in Keystores, z \in Zones, x \in Files, doc \in Doc :
              /\ k = job.who
              /\ x = [disk[k] EXCEPT !.zones =
                         [@ EXCEPT ![z] = [seal |-> Len(drafts), doc |-> doc]]]
              /\ disk' = [disk EXCEPT ![k] = x]
              /\ job'.step = "zones" /\ job'.who = k /\ job'.drops = job.drops
    BY <1>2, WriteZoneIs
  <2>2. disk'[Owner].manifest = disk[Owner].manifest
    BY <1>0, <2>1 DEF Files
  <2> QED
    BY <1>2, <2>1, <2>2 DEF WriteZone, history, RevokedInv
<1>3. CASE Snapshot
  <2>1. PICK k \in Keystores, x \in Files :
              /\ k = job.who
              /\ x = [disk[k] EXCEPT !.snap = disk[k].did]
              /\ disk' = [disk EXCEPT ![k] = x]
              /\ job'.step = "manifest" /\ job'.who = k /\ job'.drops = job.drops
    BY <1>3, SnapshotIs
  <2>2. disk'[Owner].manifest = disk[Owner].manifest
    BY <1>0, <2>1 DEF Files
  <2> QED
    BY <1>3, <2>1, <2>2 DEF Snapshot, history, RevokedInv
<1>4. CASE WriteManifest
  <2>1. PICK k \in Keystores, x \in Files :
              /\ k = job.who
              /\ x = [disk[k] EXCEPT !.manifest = Len(drafts)]
              /\ disk' = [disk EXCEPT ![k] = x]
              /\ job'.step = "archive" /\ job'.who = k /\ job'.drops = job.drops
    BY <1>4, WriteManifestIs
  <2>2. disk'[Owner].manifest = IF k = Owner THEN Len(drafts) ELSE disk[Owner].manifest
    BY <1>0, <2>1 DEF Files
  <2> QED
    BY <1>4, <2>1, <2>2 DEF WriteManifest, RevokedInv
<1>5. CASE Archive
  <2>1. PICK k \in Keystores, x \in Files :
              /\ k = job.who
              /\ x = [disk[k] EXCEPT !.history = x.history]
              /\ disk' = [disk EXCEPT ![k] = x] /\ job' = Idle
    BY <1>5, ArchiveIs
  <2>2. disk'[Owner].manifest = disk[Owner].manifest
    BY <1>0, <2>1 DEF Files
  <2>3. UNCHANGED drafts /\ dropped' = dropped \cup job.drops
          /\ readmitted' = IF job.who = Owner
                           THEN readmitted \cap drafts[Len(drafts)].readers ELSE readmitted
    BY <1>5 DEF Archive, Last
  <2>4. job.who # Owner => job.drops = {}
    BY <1>5 DEF RevokedInv, Archive
  <2> QED
    BY <1>5, <2>1, <2>2, <2>3, <2>4 DEF Archive, RevokedInv, Idle
<1>6. CASE \E a \in Agents : Grant(a) \/ Revoke(a)
  BY <1>6 DEF Grant, Revoke, history, RevokedInv, EditionsTyped
<1>7. CASE IssueWithRewrap
  <2>1. PICK readers : readers = IF job.agent \in GammaReaders
                               THEN ReadersFor(Owner) \cup {job.agent}
                               ELSE CarriedReaders
    OBVIOUS
  <2>2. job \in OwnerJob /\ job.agent \notin dropped
    BY <1>7, OwnerJobIs DEF IssueWithRewrap, RevokedInv
  <2>3. readers \in SUBSET Keystores
    BY <2>1, <2>2, OwnerIsInstalled, ReadersAre, CarriedAre DEF OwnerJob, Keystores
  <2>4. readers \cap dropped \subseteq readmitted
    <3>1. Owner \notin dropped
      BY EditionsAssumption DEF EditionsTyped
    <3> QED
      BY <2>1, <2>2, <3>1 DEF ReadersFor, CarriedReaders, Manifest, RevokedInv
  <2>5. /\ Persist(Owner, Docs(Owner), disk[Owner].log, readers, None, {})
        /\ UNCHANGED <<mandates, revoked, disk, dropped, readmitted>>
    BY <1>7, <2>1 DEF IssueWithRewrap, history
  <2>6. /\ {} \in SUBSET Agents /\ readers \cap {} = {} /\ None \in Nat
        /\ Docs(Owner) \in [Zones -> Doc] /\ disk[Owner].log \in Seq(Nat)
    BY <1>0, DocsAre DEF None, Files, EditionsTyped
  <2> QED
    BY <2>3, <2>4, <2>5, <2>6, OwnersEditionIsSafe
<1>8. CASE RepinAfterRevocation
  <2>1. PICK readers, drops : readers = KeptReaders /\ drops = {job.agent}
    OBVIOUS
  <2>2. job \in OwnerJob /\ job.agent \in revoked
    BY <1>8, OwnerJobIs DEF RepinAfterRevocation
  <2>3. readers \in SUBSET Keystores /\ drops \in SUBSET Agents
    BY <2>1, <2>2, OwnerIsInstalled, CarriedAre DEF OwnerJob, KeptReaders
  <2>4. readers \cap dropped \subseteq readmitted /\ readers \cap drops = {}
    BY <2>1, <2>2 DEF KeptReaders, EditionsTyped
  <2>5. /\ Persist(Owner, Docs(Owner), disk[Owner].log, readers, None, drops)
        /\ UNCHANGED <<mandates, revoked, disk, dropped, readmitted>>
    BY <1>8, <2>1 DEF RepinAfterRevocation, history
  <2>6. /\ None \in Nat /\ Docs(Owner) \in [Zones -> Doc] /\ disk[Owner].log \in Seq(Nat)
    BY <1>0, DocsAre DEF None, Files, EditionsTyped
  <2> QED
    BY <2>3, <2>4, <2>5, <2>6, OwnersEditionIsSafe
<1>9. CASE FailToLoad \/ Die
  BY <1>9 DEF FailToLoad, Die, history, RevokedInv, Idle
<1>10. CASE \E z \in Zones : Rotate(z)
  BY <1>10 DEF Rotate, history, RevokedInv
<1>11. CASE PublishKey
  <2>1. PICK z \in Zones, x \in Files :
              /\ x = [disk[Owner] EXCEPT !.did = [@ EXCEPT ![z] = seeds[z]]]
              /\ disk' = [disk EXCEPT ![Owner] = x] /\ job' = Idle
    BY <1>11, PublishIs
  <2>2. disk'[Owner].manifest = disk[Owner].manifest
    BY <1>0, <2>1 DEF Files
  <2> QED
    BY <1>11, <2>1, <2>2 DEF PublishKey, history, RevokedInv, Idle
<1>12. CASE \E k \in Keystores : Pack(k)
  BY <1>12 DEF Pack, history, RevokedInv
<1>13. CASE \E k, from \in Keystores : Install(k, from)
  BY <1>13 DEF Install, RevokedInv
<1>14. CASE InstallFile
  <2>1. PICK k \in Keystores, b \in Bundle, f \in InstallNames, x \in Files :
           Installs(k, b, f, x) /\ BundleOK(b)
    BY <1>14, InstallFileIs
  <2>2. x.manifest = IF f = "manifest" THEN b.manifest ELSE disk[k].manifest
    BY <1>0, <2>1, InstalledIs DEF Installs
  <2>3. disk'[Owner].manifest =
           IF f = "manifest" /\ k = Owner THEN b.manifest ELSE disk[Owner].manifest
    BY <1>0, <2>1, <2>2 DEF Installs
  <2>4. /\ readmitted' = IF f = "manifest" /\ k = Owner
                     THEN readmitted \cup (drafts[b.manifest].readers \cap revoked)
                     ELSE readmitted
        /\ UNCHANGED <<drafts, dropped>>
        /\ job' = Idle \/ job' \in InstallJob
    BY <2>1 DEF Installs
  <2>5. \A a \in drafts[disk'[Owner].manifest].readers \cap dropped : a \in readmitted'
    BY <2>3, <2>4 DEF RevokedInv, EditionsTyped
  <2>6. job'.step \in {"idle", "install"}
    BY <2>4 DEF InstallJob, Idle
  <2> QED
    BY <2>4, <2>5, <2>6 DEF RevokedInv
<1>15. CASE UNCHANGED vars
  BY <1>15 DEF vars, history, RevokedInv
<1> QED
  BY <1>1, <1>2, <1>3, <1>4, <1>5, <1>6, <1>7, <1>8, <1>9, <1>10, <1>11, <1>12, <1>13,
     <1>14, <1>15 DEF Next

\* What the owner seals once a revocation has returned is not sealed to the agent.
THEOREM RevokedStayOut == Spec => []RevokedLearnNothingNew
<1>1. Init => EditionsTyped /\ RevokedInv
  BY TypedInit, RevokedInit
<1>2. EditionsTyped /\ RevokedInv /\ [Next]_vars => EditionsTyped' /\ RevokedInv'
  BY TypedStep, RevokedStep
<1>3. EditionsTyped /\ RevokedInv => RevokedLearnNothingNew
  BY DEF RevokedInv, RevokedLearnNothingNew, Last
<1> QED
  BY <1>1, <1>2, <1>3, PTL DEF Spec

-----------------------------------------------------------------------------
(* Keys *)

\* The keys that a DID document lists have been in use.
Known(did) == \A z \in Zones : did[z] \in 1 .. seeds[z]

\* Every key that something was signed with or sealed to has been in use.
KeysInv ==
    /\ \A z \in Zones : seeds[z] >= 1
    /\ \A k \in Keystores : Known(disk[k].did) /\ Known(disk[k].snap)
    /\ \A k \in Keystores : bundles[k] # NoBundle => Known(bundles[k].did)
    /\ job.step = "install" => Known(job.bundle.did)
    /\ \A i \in DOMAIN entries :
          /\ entries[i].key \in 1 .. seeds[ZoneOf[entries[i].section]]
          /\ entries[i].self \in 1 .. seeds["self"]
    /\ \A i \in DOMAIN drafts :
          /\ drafts[i].key \in 1 .. seeds["public"]
          /\ drafts[i].self \in 1 .. seeds["self"]
          /\ \A z \in Zones : /\ drafts[i].zones[z].key \in 1 .. seeds[z]
                              /\ drafts[i].zones[z].kex \in 1 .. seeds[z]
    /\ \A a \in DOMAIN mandates : mandates[a] \in 1 .. seeds[SphereOf[a]]

\* At first every key is the first.
LEMMA KeysInit == Init => KeysInv
<1> SUFFICES ASSUME Init PROVE KeysInv
  OBVIOUS
<1>1. Known(FirstKeys) /\ \A z \in Zones : seeds[z] = 1
  BY DEF Init, FirstKeys, Known
<1>2. \A k \in Keystores : disk[k].did = FirstKeys /\ disk[k].snap = FirstKeys
  BY DEF Init
<1>3. \A k \in Keystores : bundles[k] = NoBundle
  BY DEF Init
<1>4. \A i \in DOMAIN drafts :
          /\ drafts[i].key = 1 /\ drafts[i].self = 1
          /\ \A z \in Zones : drafts[i].zones[z].key = 1 /\ drafts[i].zones[z].kex = 1
  BY DEF Init
<1>5. DOMAIN entries = {} /\ DOMAIN mandates = {} /\ job.step = "idle"
  BY DEF Init, Empty, Idle
<1>6. "public" \in Zones /\ "self" \in Zones
  BY DEF Zones
<1> QED
  BY <1>1, <1>2, <1>3, <1>4, <1>5, <1>6 DEF KeysInv

\* An edition has keys that are in use, or those of the edition before.
LEMMA DraftsKeys ==
    ASSUME EditionsTyped, KeysInv, NEW k \in Keystores, Installed(k),
           NEW docs \in [Zones -> Doc], NEW log \in Seq(Nat),
           NEW readers \in SUBSET Keystores, NEW entry \in Nat,
           NEW drops \in SUBSET Agents,
           Persist(k, docs, log, readers, entry, drops)
    PROVE  \A i \in DOMAIN drafts' :
              /\ drafts'[i].key \in 1 .. seeds["public"]
              /\ drafts'[i].self \in 1 .. seeds["self"]
              /\ \A z \in Zones : /\ drafts'[i].zones[z].key \in 1 .. seeds[z]
                                  /\ drafts'[i].zones[z].kex \in 1 .. seeds[z]
<1> DEFINE Keyed(d) ==
              /\ d.key \in 1 .. seeds["public"] /\ d.self \in 1 .. seeds["self"]
              /\ \A z \in Zones : d.zones[z].key \in 1 .. seeds[z]
                                    /\ d.zones[z].kex \in 1 .. seeds[z]
<1>1. /\ Len(drafts') = Len(drafts) + 1 /\ Len(drafts) \in Nat
      /\ \A i \in DOMAIN drafts : drafts'[i] = drafts[i]
      /\ drafts'[Len(drafts')] = Draft(k, log, readers)
      /\ drafts' \in Seq(Manifests) /\ drafts \in Seq(Manifests)
  BY PersistTyped DEF EditionsTyped
<1>2. \A z \in Zones : seeds[z] \in Nat /\ seeds[z] >= 1
  BY DEF KeysInv, EditionsTyped, Versions
<1>3. "public" \in Zones /\ "self" \in Zones
  BY DEF Zones
<1>4. \A i \in DOMAIN drafts : Keyed(drafts[i])
  BY DEF KeysInv
<1>5. Keyed(Manifest(k))
  BY <1>4, ManifestIs DEF Manifest
<1>6. ASSUME NEW z \in Zones
      PROVE  /\ Draft(k, log, readers).zones[z].key \in 1 .. seeds[z]
             /\ Draft(k, log, readers).zones[z].kex \in 1 .. seeds[z]
  <2>1. CASE z \in Loaded(k)
    <3>1. Draft(k, log, readers).zones[z] = Rendered(k, z)
      BY <2>1 DEF Draft, Edition
    <3>2. Rendered(k, z).key = seeds[z] /\ Rendered(k, z).kex \in {seeds[z], disk[k].did[z]}
      BY DEF Rendered, Sealed
    <3>3. disk[k].did[z] \in 1 .. seeds[z]
      BY DEF KeysInv, Known
    <3> QED
      BY <1>2, <3>1, <3>2, <3>3
  <2>2. CASE z \notin Loaded(k)
    <3>1. Draft(k, log, readers).zones[z] = Manifest(k).zones[z]
      BY <2>2 DEF Draft, Edition
    <3> QED
      BY <1>5, <3>1
  <2> QED
    BY <2>1, <2>2
<1>7. /\ Draft(k, log, readers).key \in 1 .. seeds["public"]
      /\ Draft(k, log, readers).self \in 1 .. seeds["self"]
  BY <1>2, <1>3, <1>5 DEF Draft, Edition, SelfKeyFor
<1>8. Keyed(Draft(k, log, readers))
  BY <1>6, <1>7
<1>9. ASSUME NEW i \in DOMAIN drafts' PROVE Keyed(drafts'[i])
  <2> HIDE DEF Keyed
  <2>1. CASE i \in DOMAIN drafts
    BY <1>1, <1>4, <2>1
  <2>2. CASE i \notin DOMAIN drafts
    <3>1. i = Len(drafts')
      BY <1>1, <2>2
    <3> QED
      BY <1>1, <1>8, <3>1
  <2> QED
    BY <2>1, <2>2
<1> QED
  BY <1>9

\* The files of one keystore change, and the keys that they list are known.
LEMMA KeysInFiles ==
    ASSUME EditionsTyped, KeysInv, NEW k \in Keystores, NEW x \in Files,
           disk' = [disk EXCEPT ![k] = x],
           UNCHANGED <<seeds, mandates, entries, drafts, bundles>>,
           Known(x.did), Known(x.snap),
           job'.step = "install" => job' \in InstallJob /\ job.step = "install"
                                      /\ job'.bundle = job.bundle
    PROVE  KeysInv'
<1>1. \A o \in Keystores : disk'[o] = IF o = k THEN x ELSE disk[o]
  BY DEF EditionsTyped, DiskOK
<1>2. (\A o \in Keystores : Known(disk[o].did) /\ Known(disk[o].snap))'
  BY <1>1 DEF KeysInv, Known
<1>3. (\A o \in Keystores : bundles[o] # NoBundle => Known(bundles[o].did))'
  BY DEF KeysInv, Known
<1>4. (job.step = "install" => Known(job.bundle.did))'
  BY DEF KeysInv, Known
<1> QED
  BY <1>2, <1>3, <1>4 DEF KeysInv

\* No key comes into use, and nothing is written to a keystore.
LEMMA KeysStay ==
    ASSUME KeysInv, UNCHANGED <<seeds, disk, entries, drafts>>,
           \A a \in DOMAIN mandates' : \/ a \in DOMAIN mandates /\ mandates'[a] = mandates[a]
                                       \/ mandates'[a] \in 1 .. seeds[SphereOf[a]],
           \A k \in Keystores : bundles'[k] = bundles[k] \/ Known(bundles'[k].did),
           job'.step = "install" => \/ job' = job
                                    \/ Known(job'.bundle.did)
    PROVE  KeysInv'
<1>1. (\A o \in Keystores : Known(disk[o].did) /\ Known(disk[o].snap))'
  BY DEF KeysInv, Known
<1>2. (\A o \in Keystores : bundles[o] # NoBundle => Known(bundles[o].did))'
  BY DEF KeysInv, Known
<1>3. (job.step = "install" => Known(job.bundle.did))'
  BY DEF KeysInv, Known
<1>4. \A a \in DOMAIN mandates' : mandates'[a] \in 1 .. seeds[SphereOf[a]]
  BY DEF KeysInv
<1> QED
  BY <1>1, <1>2, <1>3, <1>4 DEF KeysInv

\* An edition is begun.
LEMMA KeysInEdition ==
    ASSUME EditionsTyped, KeysInv, UNCHANGED <<seeds, mandates, bundles>>,
           \A k \in Keystores : disk'[k].did = disk[k].did /\ disk'[k].snap = disk[k].snap,
           job'.step = "zones",
           \A i \in DOMAIN drafts' :
              /\ drafts'[i].key \in 1 .. seeds["public"]
              /\ drafts'[i].self \in 1 .. seeds["self"]
              /\ \A z \in Zones : /\ drafts'[i].zones[z].key \in 1 .. seeds[z]
                                  /\ drafts'[i].zones[z].kex \in 1 .. seeds[z],
           \A i \in DOMAIN entries' :
              /\ entries'[i].key \in 1 .. seeds[ZoneOf[entries'[i].section]]
              /\ entries'[i].self \in 1 .. seeds["self"]
    PROVE  KeysInv'
<1>1. (\A o \in Keystores : Known(disk[o].did) /\ Known(disk[o].snap))'
  BY DEF KeysInv, Known
<1>2. (\A o \in Keystores : bundles[o] # NoBundle => Known(bundles[o].did))'
  BY DEF KeysInv, Known
<1> QED
  BY <1>1, <1>2 DEF KeysInv

\* No step uses a key that was never made.
LEMMA KeysStep == EditionsTyped /\ KeysInv /\ [Next]_vars => KeysInv'
<1> SUFFICES ASSUME EditionsTyped, KeysInv, [Next]_vars PROVE KeysInv'
  OBVIOUS
<1>0. disk \in [Keystores -> Files] /\ seeds \in Versions /\ Owner \in Keystores
        /\ Installed(Owner)
  BY OwnerIsInstalled DEF EditionsTyped, DiskOK
<1>seeds. \A z \in Zones : seeds[z] \in Nat /\ seeds[z] >= 1 /\ seeds[z] \in 1 .. seeds[z]
  BY <1>0 DEF KeysInv, Versions
<1>1. CASE Writes
  <2>1. PICK k \in Keystores, s \in Sections, r \in Entries, docs \in [Zones -> Doc],
           log \in Seq(Nat), readers \in SUBSET Keystores, e \in Nat :
              WriteOf(k, s, r, docs, log, readers, e)
    BY <1>1, WritesAre
  <2>2. /\ Persist(k, docs, log, readers, e, {}) /\ Installed(k)
        /\ UNCHANGED <<seeds, mandates, bundles>> /\ entries' = Append(entries, r)
        /\ \E op \in Operations, payload \in SUBSET {"title", "body"} :
              r = Entry(k, op, s, payload, r.at)
    BY <2>1 DEF WriteOf
  <2>3. \A o \in Keystores : disk'[o].did = disk[o].did /\ disk'[o].snap = disk[o].snap
    BY <1>0, <2>1 DEF WriteOf, Files
  <2>4. job'.step = "zones"
    BY <2>2 DEF Persist
  <2>5. r.key = seeds[ZoneOf[r.section]] /\ ZoneOf[r.section] \in Zones
    BY <2>2, EditionsAssumption DEF Entry, Entries
  <2>9. r.self \in 1 .. seeds["self"]
    <3>1. r.self = SelfKeyFor(k)
      BY <2>2 DEF Entry
    <3>2. Manifest(k).self \in 1 .. seeds["self"]
      BY <2>2, ManifestIs DEF KeysInv, Manifest
    <3>3. "self" \in Zones
      BY DEF Zones
    <3> QED
      BY <1>seeds, <3>1, <3>2, <3>3 DEF SelfKeyFor
  <2>6. \A i \in DOMAIN entries' :
              /\ entries'[i].key \in 1 .. seeds[ZoneOf[entries'[i].section]]
              /\ entries'[i].self \in 1 .. seeds["self"]
    <3>1. \A i \in DOMAIN entries' :
             entries'[i] = r \/ (i \in DOMAIN entries /\ entries'[i] = entries[i])
      BY <2>2 DEF EditionsTyped
    <3>2. r.key \in 1 .. seeds[ZoneOf[r.section]]
      BY <1>seeds, <2>5
    <3> QED
      BY <2>9, <3>1, <3>2 DEF KeysInv
  <2>7. {} \in SUBSET Agents
    OBVIOUS
  <2>8. \A i \in DOMAIN drafts' :
              /\ drafts'[i].key \in 1 .. seeds["public"]
              /\ drafts'[i].self \in 1 .. seeds["self"]
              /\ \A z \in Zones : /\ drafts'[i].zones[z].key \in 1 .. seeds[z]
                                  /\ drafts'[i].zones[z].kex \in 1 .. seeds[z]
    BY <2>2, <2>7, DraftsKeys
  <2> QED
    BY <2>2, <2>3, <2>4, <2>6, <2>8, KeysInEdition
<1>2. CASE WriteZone
  <2>1. PICK k \in Keystores, z \in Zones, x \in Files, doc \in Doc :
              /\ x = [disk[k] EXCEPT !.zones =
                         [@ EXCEPT ![z] = [seal |-> Len(drafts), doc |-> doc]]]
              /\ disk' = [disk EXCEPT ![k] = x] /\ job'.step = "zones"
    BY <1>2, WriteZoneIs
  <2>2. x.did = disk[k].did /\ x.snap = disk[k].snap
    BY <1>0, <2>1 DEF Files
  <2>3. UNCHANGED <<seeds, mandates, entries, drafts, bundles>>
    BY <1>2 DEF WriteZone
  <2>4. Known(x.did) /\ Known(x.snap)
    BY <2>2 DEF KeysInv
  <2> QED
    BY <2>1, <2>3, <2>4, KeysInFiles
<1>3. CASE Snapshot
  <2>1. PICK k \in Keystores, x \in Files :
              /\ x = [disk[k] EXCEPT !.snap = disk[k].did]
              /\ disk' = [disk EXCEPT ![k] = x] /\ job'.step = "manifest"
    BY <1>3, SnapshotIs
  <2>2. x.did = disk[k].did /\ x.snap = disk[k].did
    BY <1>0, <2>1 DEF Files
  <2>3. UNCHANGED <<seeds, mandates, entries, drafts, bundles>>
    BY <1>3 DEF Snapshot
  <2>4. Known(x.did) /\ Known(x.snap)
    BY <2>2 DEF KeysInv
  <2> QED
    BY <2>1, <2>3, <2>4, KeysInFiles
<1>4. CASE WriteManifest
  <2>1. PICK k \in Keystores, x \in Files :
              /\ x = [disk[k] EXCEPT !.manifest = Len(drafts)]
              /\ disk' = [disk EXCEPT ![k] = x] /\ job'.step = "archive"
    BY <1>4, WriteManifestIs
  <2>2. x.did = disk[k].did /\ x.snap = disk[k].snap
    BY <1>0, <2>1 DEF Files
  <2>3. UNCHANGED <<seeds, mandates, entries, drafts, bundles>>
    BY <1>4 DEF WriteManifest
  <2>4. Known(x.did) /\ Known(x.snap)
    BY <2>2 DEF KeysInv
  <2> QED
    BY <2>1, <2>3, <2>4, KeysInFiles
<1>5. CASE Archive
  <2>1. PICK k \in Keystores, x \in Files :
              /\ x = [disk[k] EXCEPT !.history = x.history]
              /\ disk' = [disk EXCEPT ![k] = x] /\ job' = Idle
    BY <1>5, ArchiveIs
  <2>2. x.did = disk[k].did /\ x.snap = disk[k].snap
    BY <1>0, <2>1 DEF Files
  <2>3. UNCHANGED <<seeds, mandates, entries, drafts, bundles>> /\ job'.step # "install"
    BY <1>5 DEF Archive, Idle
  <2>4. Known(x.did) /\ Known(x.snap)
    BY <2>2 DEF KeysInv
  <2> QED
    BY <2>1, <2>3, <2>4, KeysInFiles
<1>6. CASE \E a \in Agents : Grant(a)
  <2>1. PICK a \in Agents : Grant(a)
    BY <1>6
  <2>2. seeds[SphereOf[a]] \in 1 .. seeds[SphereOf[a]]
    BY <1>seeds, EditionsAssumption
  <2>3. \A o \in DOMAIN mandates' : \/ o \in DOMAIN mandates /\ mandates'[o] = mandates[o]
                                    \/ mandates'[o] \in 1 .. seeds[SphereOf[o]]
    BY <2>1, <2>2 DEF Grant, Put
  <2>4. UNCHANGED <<seeds, disk, entries, drafts, bundles>> /\ job'.step = "grant"
    BY <2>1 DEF Grant
  <2> QED
    BY <2>3, <2>4, KeysStay
<1>7. CASE \E a \in Agents : Revoke(a)
  BY <1>7, KeysStay DEF Revoke
<1>8. CASE IssueWithRewrap
  <2>1. PICK readers : readers = IF job.agent \in GammaReaders
                               THEN ReadersFor(Owner) \cup {job.agent}
                               ELSE CarriedReaders
    OBVIOUS
  <2>2. job \in OwnerJob
    BY <1>8, OwnerJobIs DEF IssueWithRewrap
  <2>3. readers \in SUBSET Keystores
    BY <2>1, <2>2, OwnerIsInstalled, ReadersAre, CarriedAre DEF OwnerJob, Keystores
  <2>4. /\ Persist(Owner, Docs(Owner), disk[Owner].log, readers, None, {})
        /\ UNCHANGED <<seeds, mandates, disk, bundles, entries>>
    BY <1>8, <2>1 DEF IssueWithRewrap
  <2>5. /\ {} \in SUBSET Agents /\ None \in Nat
        /\ Docs(Owner) \in [Zones -> Doc] /\ disk[Owner].log \in Seq(Nat)
    BY <1>0, DocsAre DEF None, Files, EditionsTyped
  <2>6. \A i \in DOMAIN drafts' :
              /\ drafts'[i].key \in 1 .. seeds["public"]
              /\ drafts'[i].self \in 1 .. seeds["self"]
              /\ \A z \in Zones : /\ drafts'[i].zones[z].key \in 1 .. seeds[z]
                                  /\ drafts'[i].zones[z].kex \in 1 .. seeds[z]
    BY <1>0, <2>3, <2>4, <2>5, DraftsKeys
  <2>7. job'.step = "zones"
    BY <2>4 DEF Persist
  <2>8. \A i \in DOMAIN entries' :
              /\ entries'[i].key \in 1 .. seeds[ZoneOf[entries'[i].section]]
              /\ entries'[i].self \in 1 .. seeds["self"]
    BY <2>4 DEF KeysInv
  <2> QED
    BY <2>4, <2>6, <2>7, <2>8, KeysInEdition
<1>9. CASE RepinAfterRevocation
  <2>1. PICK readers, drops : readers = KeptReaders /\ drops = {job.agent}
    OBVIOUS
  <2>2. job \in OwnerJob
    BY <1>9, OwnerJobIs DEF RepinAfterRevocation
  <2>3. readers \in SUBSET Keystores /\ drops \in SUBSET Agents
    BY <2>1, <2>2, OwnerIsInstalled, CarriedAre DEF OwnerJob, KeptReaders
  <2>4. /\ Persist(Owner, Docs(Owner), disk[Owner].log, readers, None, drops)
        /\ UNCHANGED <<seeds, mandates, disk, bundles, entries>>
    BY <1>9, <2>1 DEF RepinAfterRevocation
  <2>5. /\ None \in Nat /\ Docs(Owner) \in [Zones -> Doc] /\ disk[Owner].log \in Seq(Nat)
    BY <1>0, DocsAre DEF None, Files, EditionsTyped
  <2>6. \A i \in DOMAIN drafts' :
              /\ drafts'[i].key \in 1 .. seeds["public"]
              /\ drafts'[i].self \in 1 .. seeds["self"]
              /\ \A z \in Zones : /\ drafts'[i].zones[z].key \in 1 .. seeds[z]
                                  /\ drafts'[i].zones[z].kex \in 1 .. seeds[z]
    BY <1>0, <2>3, <2>4, <2>5, DraftsKeys
  <2>7. job'.step = "zones"
    BY <2>4 DEF Persist
  <2>8. \A i \in DOMAIN entries' :
              /\ entries'[i].key \in 1 .. seeds[ZoneOf[entries'[i].section]]
              /\ entries'[i].self \in 1 .. seeds["self"]
    BY <2>4 DEF KeysInv
  <2> QED
    BY <2>4, <2>6, <2>7, <2>8, KeysInEdition
<1>10. CASE FailToLoad \/ Die
  BY <1>10, KeysStay DEF FailToLoad, Die, Idle
<1>11. CASE \E z \in Zones : Rotate(z)
  <2>1. PICK z \in Zones : Rotate(z)
    BY <1>11
  <2>2. seeds' = [seeds EXCEPT ![z] = @ + 1] /\ job'.step = "publish"
          /\ UNCHANGED <<disk, mandates, entries, drafts, bundles>>
    BY <2>1 DEF Rotate
  <2>3. \A y \in Zones : seeds'[y] \in Nat /\ seeds'[y] >= seeds[y]
    BY <1>0, <2>2 DEF Versions
  <2>4. \A y \in Zones, v \in Nat : v \in 1 .. seeds[y] => v \in 1 .. seeds'[y]
    BY <1>seeds, <2>3
  <2>5. \A y \in Zones : \A v : v \in 1 .. seeds[y] => v \in 1 .. seeds'[y]
    BY <2>4
  <2>7. (\A o \in Keystores : Known(disk[o].did) /\ Known(disk[o].snap))'
    BY <2>2, <2>5 DEF KeysInv, Known
  <2>8. (\A o \in Keystores : bundles[o] # NoBundle => Known(bundles[o].did))'
    BY <2>2, <2>5 DEF KeysInv, Known
  <2>9. \A i \in DOMAIN entries : ZoneOf[entries[i].section] \in Zones
    <3>1. \A i \in DOMAIN entries : entries[i] \in Entries
      BY DEF EditionsTyped
    <3> QED
      BY <3>1, EditionsAssumption DEF Entries
  <2>10. \A a \in DOMAIN mandates : SphereOf[a] \in Zones
    BY EditionsAssumption DEF EditionsTyped
  <2>11. "public" \in Zones /\ "self" \in Zones
    BY DEF Zones
  <2>12. \A y \in Zones : seeds'[y] >= 1
    BY <1>seeds, <2>3
  <2> QED
    BY <2>2, <2>5, <2>7, <2>8, <2>9, <2>10, <2>11, <2>12 DEF KeysInv
<1>12. CASE PublishKey
  <2>1. PICK z \in Zones, x \in Files :
              /\ x = [disk[Owner] EXCEPT !.did = [@ EXCEPT ![z] = seeds[z]]]
              /\ disk' = [disk EXCEPT ![Owner] = x] /\ job' = Idle
    BY <1>12, PublishIs
  <2>2. x.did = [disk[Owner].did EXCEPT ![z] = seeds[z]] /\ x.snap = disk[Owner].snap
    BY <1>0, <2>1 DEF Files
  <2>3. UNCHANGED <<seeds, mandates, entries, drafts, bundles>> /\ job'.step # "install"
    BY <1>12 DEF PublishKey, Idle
  <2>4. disk[Owner].did \in Versions
    BY <1>0 DEF Files
  <2>5. Known(x.did) /\ Known(x.snap)
    BY <1>0, <1>seeds, <2>2, <2>4 DEF KeysInv, Known, Versions
  <2> QED
    BY <1>0, <2>1, <2>3, <2>5, KeysInFiles
<1>13. CASE \E k \in Keystores : Pack(k)
  <2>1. PICK k \in Keystores : Pack(k)
    BY <1>13
  <2>2. PICK b \in Bundle : bundles' = [bundles EXCEPT ![k] = b] /\ b.did = disk[k].snap
    BY <2>1, PackIs
  <2>3. \A o \in Keystores : bundles'[o] = bundles[o] \/ Known(bundles'[o].did)
    BY <2>2 DEF KeysInv, EditionsTyped, BundlesOK
  <2>4. UNCHANGED <<seeds, disk, entries, drafts, mandates, job>>
    BY <2>1 DEF Pack
  <2> QED
    BY <2>3, <2>4, KeysStay
<1>14. CASE \E k, from \in Keystores : Install(k, from)
  <2>1. PICK k \in Keystores, from \in Keystores : Install(k, from)
    BY <1>14
  <2>2. Known(job'.bundle.did)
    BY <2>1 DEF KeysInv, Install
  <2>3. UNCHANGED <<seeds, disk, entries, drafts, mandates, bundles>>
    BY <2>1 DEF Install
  <2> QED
    BY <2>2, <2>3, KeysStay
<1>15. CASE InstallFile
  <2>1. PICK k \in Keystores, b \in Bundle, f \in InstallNames, x \in Files :
           Installs(k, b, f, x) /\ BundleOK(b)
    BY <1>15, InstallFileIs
  <2>2. /\ x.did = IF f = "did" THEN b.did ELSE disk[k].did
        /\ x.snap = IF f = "snap" THEN b.did ELSE disk[k].snap
    BY <1>0, <2>1, InstalledIs DEF Installs
  <2>3. /\ UNCHANGED <<seeds, mandates, entries, drafts, bundles>>
        /\ disk' = [disk EXCEPT ![k] = x] /\ b = job.bundle /\ job.step = "install"
        /\ job'.step = "install" => job' \in InstallJob /\ job'.bundle = job.bundle
    BY <1>15, <2>1 DEF Installs, InstallFile, Idle
  <2>4. Known(x.did) /\ Known(x.snap)
    BY <2>2, <2>3 DEF KeysInv
  <2> QED
    BY <2>3, <2>4, KeysInFiles
<1>16. CASE UNCHANGED vars
  BY <1>16, KeysStay DEF vars
<1> QED
  BY <1>1, <1>2, <1>3, <1>4, <1>5, <1>6, <1>7, <1>8, <1>9, <1>10, <1>11, <1>12, <1>13,
     <1>14, <1>15, <1>16 DEF Next

-----------------------------------------------------------------------------
(* The log *)

\* Every entry of a log names the one before it.
Linked(built, log) ==
    \A i \in DOMAIN log :
        built[log[i]].prev = IF i = 1 THEN None ELSE log[i - 1]

\* An entry is built after the one it names, and the time of one author does not go
\* back: each machine has its own clock.
EntriesInv ==
    \A i \in DOMAIN entries :
        /\ entries[i].prev < i
        /\ entries[i].at <= clock[entries[i].by]
        /\ \A j \in DOMAIN entries :
              i < j /\ entries[i].by = entries[j].by => entries[i].at <= entries[j].at

\* The logs of keystores and of bundles are chains, whoever died at what.
LinksInv ==
    /\ \A k \in Keystores : Linked(entries, disk[k].log)
    /\ \A k \in Keystores : bundles[k] # NoBundle => Linked(entries, bundles[k].log)
    /\ job.step = "install" => Linked(entries, job.bundle.log)

\* What logs are, whatever happened.
LogInv == EntriesInv /\ LinksInv

\* At first the logs are empty.
LEMMA LogInit == Init => LogInv
<1> SUFFICES ASSUME Init PROVE LogInv
  OBVIOUS
<1>1. DOMAIN entries = {} /\ \A k \in Keystores : bundles[k] = NoBundle
  BY DEF Init
<1>2. \A k \in Keystores : DOMAIN disk[k].log = {}
  BY DEF Init
<1>3. job.step # "install"
  BY DEF Init, Idle
<1> QED
  BY <1>1, <1>2, <1>3 DEF LogInv, EntriesInv, LinksInv, Linked

\* No entry is built, and the logs come from where there were some.
LEMMA LogStays ==
    ASSUME LogInv, UNCHANGED <<entries, clock>>,
           \A k \in Keystores : disk'[k].log = disk[k].log \/ Linked(entries, disk'[k].log),
           \A k \in Keystores : bundles'[k] = bundles[k] \/ Linked(entries, bundles'[k].log),
           job'.step = "install" => Linked(entries', job'.bundle.log)
    PROVE  LogInv'
<1>1. EntriesInv'
  BY DEF LogInv, EntriesInv
<1>2. (\A k \in Keystores : Linked(entries, disk[k].log))'
  BY DEF LogInv, LinksInv, Linked
<1>3. (\A k \in Keystores : bundles[k] # NoBundle => Linked(entries, bundles[k].log))'
  BY DEF LogInv, LinksInv, Linked
<1>4. (job.step = "install" => Linked(entries, job.bundle.log))'
  BY DEF Linked
<1> QED
  BY <1>1, <1>2, <1>3, <1>4 DEF LogInv, LinksInv

\* An entry is built and appended.
LEMMA LogGrows ==
    ASSUME EditionsTyped, LogInv, NEW k \in Keystores, NEW s \in Sections,
           NEW r \in Entries, NEW docs \in [Zones -> Doc], NEW log \in Seq(Nat),
           NEW readers \in SUBSET Keystores, NEW e \in Nat,
           WriteOf(k, s, r, docs, log, readers, e)
    PROVE  LogInv'
<1>1. /\ disk[k] \in Files /\ Len(entries) \in Nat /\ entries \in Seq(Entries)
      /\ \A o \in Keystores : \A i \in DOMAIN disk[o].log : disk[o].log[i] \in 1 .. Len(entries)
      /\ disk \in [Keystores -> Files]
  BY DEF EditionsTyped, DiskOK
<1>2. /\ e = Len(entries) + 1 /\ entries' = Append(entries, r)
      /\ log = Append(disk[k].log, e) /\ UNCHANGED bundles
      /\ r.prev = GammaHead(k) /\ r.by = k
      /\ clock' = [clock EXCEPT ![k] = r.at] /\ r.at >= clock[k]
      /\ disk' = [disk EXCEPT ![k].log = log]
      /\ Persist(k, docs, log, readers, e, {})
  BY DEF WriteOf, Entry
<1>3. /\ Len(entries') = e /\ entries'[e] = r /\ DOMAIN entries' = 1 .. e
      /\ \A i \in 1 .. Len(entries) : entries'[i] = entries[i]
  BY <1>1, <1>2
<1>4. r.prev \in 0 .. Len(entries)
  <2>1. PICK g \in Seq(Nat) : g = disk[k].log
    BY <1>1 DEF Files
  <2>2. g # <<>> => Len(g) \in DOMAIN g
    OBVIOUS
  <2> QED
    BY <1>1, <1>2, <2>1, <2>2 DEF GammaHead, None, Last
<1>5. EntriesInv'
  <2>1. ASSUME NEW i \in 1 .. Len(entries)
        PROVE  /\ entries'[i] = entries[i] /\ entries[i].by \in Keystores
               /\ entries[i].at <= clock[entries[i].by] /\ entries[i].at \in Nat
               /\ entries[i].prev < i
    <3>1. entries[i] \in Entries /\ i \in DOMAIN entries
      BY <1>1
    <3>2. entries[i].at \in Nat /\ entries'[i] = entries[i] /\ entries[i].by \in Keystores
      BY <1>3, <3>1 DEF Entries
    <3> QED
      BY <3>1, <3>2 DEF LogInv, EntriesInv
  <2>2. clock \in [Keystores -> Nat] /\ r.at \in Nat
    BY DEF EditionsTyped, Entries
  <2>5. \A o \in Keystores : clock[o] \in Nat /\ clock'[o] \in Nat /\ clock[o] <= clock'[o]
    BY <1>2, <2>2
  <2>3. \A i \in 1 .. e : entries'[i].prev < i /\ entries'[i].at <= clock'[entries'[i].by]
    <3> TAKE i \in 1 .. e
    <3>1. CASE i = e
      BY <1>1, <1>2, <1>3, <1>4, <2>2, <3>1
    <3>2. CASE i # e
      <4>1. i \in 1 .. Len(entries)
        BY <1>1, <1>2, <3>2
      <4>2. PICK o \in Keystores : o = entries[i].by
        BY <2>1, <4>1
      <4>3. entries'[i].by = o /\ entries[i].at <= clock[o] /\ entries[i].at \in Nat
              /\ entries'[i].at = entries[i].at /\ entries'[i].prev < i
        BY <2>1, <4>1, <4>2
      <4> QED
        BY <2>5, <4>2, <4>3
    <3> QED
      BY <3>1, <3>2
  <2>4. \A i, j \in 1 .. e :
           i < j /\ entries'[i].by = entries'[j].by => entries'[i].at <= entries'[j].at
    <3> SUFFICES ASSUME NEW i \in 1 .. e, NEW j \in 1 .. e, i < j,
                        entries'[i].by = entries'[j].by
                 PROVE  entries'[i].at <= entries'[j].at
      OBVIOUS
    <3>1. i \in 1 .. Len(entries)
      BY <1>1, <1>2
    <3>2. CASE j = e
      BY <1>2, <1>3, <2>1, <2>5, <2>2, <3>1, <3>2
    <3>3. CASE j # e
      <4>1. j \in 1 .. Len(entries)
        BY <1>1, <1>2, <3>3
      <4> QED
        BY <1>1, <2>1, <3>1, <4>1 DEF LogInv, EntriesInv
    <3> QED
      BY <3>2, <3>3
  <2> QED
    BY <1>3, <2>3, <2>4 DEF EntriesInv
<1>6. ASSUME NEW g \in Seq(Nat), \A i \in DOMAIN g : g[i] \in 1 .. Len(entries), Linked(entries, g)
      PROVE  Linked(entries', g)
  BY <1>3, <1>6 DEF Linked
<1>7. ASSUME NEW o \in Keystores PROVE Linked(entries', disk'[o].log)
  <2>1. CASE o # k
    <3>1. disk'[o] = disk[o] /\ disk[o].log \in Seq(Nat)
      BY <1>1, <1>2, <2>1 DEF Files
    <3>2. PICK g \in Seq(Nat) : g = disk[o].log
      BY <3>1
    <3>3. Linked(entries', g)
      <4>1. \A i \in DOMAIN g : g[i] \in 1 .. Len(entries)
        BY <1>1, <3>2
      <4> QED
        BY <1>6, <3>2, <4>1 DEF LogInv, LinksInv
    <3> QED
      BY <3>1, <3>2, <3>3 DEF Linked
  <2>2. CASE o = k
    <3>1. PICK g \in Seq(Nat) : g = disk[k].log
      BY <1>1 DEF Files
    <3>2. disk'[k].log = log /\ log = Append(g, e) /\ Len(log) = Len(g) + 1
      BY <1>1, <1>2, <3>1 DEF Files
    <3>3. /\ Linked(entries', g)
          /\ \A i \in DOMAIN g : log[i] = g[i] /\ log[i] \in 1 .. Len(entries)
      <4>1. \A i \in DOMAIN g : g[i] \in 1 .. Len(entries)
        BY <1>1, <3>1
      <4>2. Linked(entries, g)
        BY <3>1 DEF LogInv, LinksInv
      <4>3. \A i \in DOMAIN g : log[i] = g[i]
        BY <3>2
      <4> QED
        BY <1>6, <4>1, <4>2, <4>3
    <3>4. r.prev = IF g = <<>> THEN None ELSE g[Len(g)]
      BY <1>2, <3>1 DEF GammaHead, Last
    <3>5. ASSUME NEW i \in 1 .. Len(log)
          PROVE  entries'[log[i]].prev = IF i = 1 THEN None ELSE log[i - 1]
      <4>1. CASE i = Len(log)
        BY <1>3, <3>2, <3>3, <3>4, <4>1
      <4>2. CASE i # Len(log)
        BY <3>2, <3>3, <4>2 DEF Linked
      <4> QED
        BY <4>1, <4>2
    <3>6. DOMAIN log = 1 .. Len(log)
      OBVIOUS
    <3> QED
      BY <2>2, <3>2, <3>5, <3>6 DEF Linked
  <2> QED
    BY <2>1, <2>2
<1>8. ASSUME NEW o \in Keystores, bundles[o] # NoBundle PROVE Linked(entries', bundles[o].log)
  <2>1. BundleOK(bundles[o]) /\ Linked(entries, bundles[o].log)
    BY <1>8 DEF EditionsTyped, BundlesOK, LogInv, LinksInv
  <2>2. PICK g \in Seq(Nat) : g = bundles[o].log
    BY <2>1 DEF BundleOK, Bundle
  <2>3. Linked(entries', g)
    BY <1>6, <2>1, <2>2 DEF BundleOK
  <2> QED
    BY <1>2, <2>2, <2>3 DEF Linked
<1>9. job'.step # "install"
  BY <1>2 DEF Persist
<1>10. (\A o \in Keystores : Linked(entries, disk[o].log))'
  BY <1>7
<1>11. (\A o \in Keystores : bundles[o] # NoBundle => Linked(entries, bundles[o].log))'
  BY <1>2, <1>8
<1> QED
  BY <1>5, <1>9, <1>10, <1>11 DEF LogInv, LinksInv

\* No step breaks a log.
LEMMA LogStep == EditionsTyped /\ LogInv /\ [Next]_vars => LogInv'
<1> SUFFICES ASSUME EditionsTyped, LogInv, [Next]_vars PROVE LogInv'
  OBVIOUS
<1>0. disk \in [Keystores -> Files] /\ Owner \in Keystores
  BY OwnerIsInstalled DEF EditionsTyped, DiskOK
<1>1. CASE Writes
  BY <1>1, WritesAre, LogGrows
<1>2. CASE WriteZone
  <2>1. PICK k \in Keystores, z \in Zones, doc \in Doc, x \in Files :
              /\ x = [disk[k] EXCEPT !.zones =
                         [@ EXCEPT ![z] = [seal |-> Len(drafts), doc |-> doc]]]
              /\ disk' = [disk EXCEPT ![k] = x] /\ job'.step = "zones"
    BY <1>2, WriteZoneIs
  <2>2. \A o \in Keystores : disk'[o].log = disk[o].log
    BY <1>0, <2>1 DEF Files
  <2> QED
    BY <1>2, <2>1, <2>2, LogStays DEF WriteZone
<1>3. CASE Snapshot
  <2>1. PICK k \in Keystores, x \in Files :
              /\ x = [disk[k] EXCEPT !.snap = disk[k].did]
              /\ disk' = [disk EXCEPT ![k] = x] /\ job'.step = "manifest"
    BY <1>3, SnapshotIs
  <2>2. \A o \in Keystores : disk'[o].log = disk[o].log
    BY <1>0, <2>1 DEF Files
  <2> QED
    BY <1>3, <2>1, <2>2, LogStays DEF Snapshot
<1>4. CASE WriteManifest
  <2>1. PICK k \in Keystores, x \in Files :
              /\ x = [disk[k] EXCEPT !.manifest = Len(drafts)]
              /\ disk' = [disk EXCEPT ![k] = x] /\ job'.step = "archive"
    BY <1>4, WriteManifestIs
  <2>2. \A o \in Keystores : disk'[o].log = disk[o].log
    BY <1>0, <2>1 DEF Files
  <2> QED
    BY <1>4, <2>1, <2>2, LogStays DEF WriteManifest
<1>5. CASE Archive
  <2>1. PICK k \in Keystores, x \in Files :
              /\ x = [disk[k] EXCEPT !.history = x.history]
              /\ disk' = [disk EXCEPT ![k] = x] /\ job' = Idle
    BY <1>5, ArchiveIs
  <2>2. \A o \in Keystores : disk'[o].log = disk[o].log
    BY <1>0, <2>1 DEF Files
  <2> QED
    BY <1>5, <2>1, <2>2, LogStays DEF Archive, Idle
<1>6. CASE \E a \in Agents : Grant(a) \/ Revoke(a)
  <2>1. /\ UNCHANGED <<entries, clock, disk, bundles>>
        /\ job' = Idle \/ job'.step \in {"grant", "revoke"}
    BY <1>6 DEF Grant, Revoke
  <2> QED
    BY <2>1, LogStays DEF Idle
<1>7. CASE IssueWithRewrap
  BY <1>7, LogStays DEF IssueWithRewrap, Persist
<1>8. CASE RepinAfterRevocation
  BY <1>8, LogStays DEF RepinAfterRevocation, Persist
<1>9. CASE FailToLoad \/ Die
  BY <1>9, LogStays DEF FailToLoad, Die, Idle
<1>10. CASE \E z \in Zones : Rotate(z)
  BY <1>10, LogStays DEF Rotate
<1>11. CASE PublishKey
  <2>1. PICK z \in Zones, x \in Files :
              /\ x = [disk[Owner] EXCEPT !.did = [@ EXCEPT ![z] = seeds[z]]]
              /\ disk' = [disk EXCEPT ![Owner] = x] /\ job' = Idle
    BY <1>11, PublishIs
  <2>2. \A o \in Keystores : disk'[o].log = disk[o].log
    BY <1>0, <2>1 DEF Files
  <2> QED
    BY <1>11, <2>1, <2>2, LogStays DEF PublishKey, Idle
<1>12. CASE \E k \in Keystores : Pack(k)
  <2>1. PICK k \in Keystores : Pack(k)
    BY <1>12
  <2>2. PICK b \in Bundle : bundles' = [bundles EXCEPT ![k] = b] /\ b.log = disk[k].log
    BY <2>1, PackIs
  <2>3. \A o \in Keystores : bundles'[o] = bundles[o] \/ Linked(entries, bundles'[o].log)
    BY <2>2 DEF LogInv, LinksInv, EditionsTyped, BundlesOK
  <2>4. UNCHANGED <<entries, clock, disk, job>>
    BY <2>1 DEF Pack
  <2> QED
    BY <2>3, <2>4, LogStays DEF LogInv, LinksInv
<1>13. CASE \E k, from \in Keystores : Install(k, from)
  <2>1. PICK k \in Keystores, from \in Keystores : Install(k, from)
    BY <1>13
  <2>2. Linked(entries', job'.bundle.log)
    BY <2>1 DEF Install, LogInv, LinksInv
  <2> QED
    BY <2>1, <2>2, LogStays DEF Install
<1>14. CASE InstallFile
  <2>1. PICK k \in Keystores, b \in Bundle, f \in InstallNames, x \in Files :
           Installs(k, b, f, x) /\ BundleOK(b)
    BY <1>14, InstallFileIs
  <2>2. x.log = IF f = "log" THEN LogAfter(disk[k], b) ELSE disk[k].log
    BY <1>0, <2>1, InstalledIs DEF Installs
  <2>3. /\ disk' = [disk EXCEPT ![k] = x] /\ job.step = "install" /\ b = job.bundle
        /\ UNCHANGED <<entries, clock, bundles>>
        /\ job' = Idle \/ job'.bundle = b
    BY <1>14, <2>1 DEF Installs, InstallFile
  <2>4. Linked(entries, b.log) /\ Linked(entries, disk[k].log)
    BY <2>3 DEF LogInv, LinksInv
  <2>5. \A o \in Keystores : disk'[o].log = disk[o].log \/ Linked(entries, disk'[o].log)
    BY <1>0, <2>2, <2>3, <2>4 DEF LogAfter
  <2> QED
    BY <2>3, <2>4, <2>5, LogStays DEF Idle
<1>15. CASE UNCHANGED vars
  BY <1>15, LogStays DEF vars, LogInv, LinksInv
<1> QED
  BY <1>1, <1>2, <1>3, <1>4, <1>5, <1>6, <1>7, <1>8, <1>9, <1>10, <1>11, <1>12, <1>13,
     <1>14, <1>15 DEF Next

\* Why a log may fail to verify: the clocks, or a key rotated since.
LEMMA LogsVerify ==
    ASSUME EditionsTyped, KeysInv, LogInv, NEW k \in Keystores
    PROVE  GammaErrors(k) \subseteq
            (IF \E i, j \in DOMAIN entries : OutOfTime(i, j) THEN {"time"} ELSE {})
            \cup (IF seeds # FirstKeys THEN {"signature"} ELSE {})
<1> DEFINE log == disk[k].log
           Bad(c) == \E i \in DOMAIN log :
              CASE c = "link" -> entries[log[i]].prev # (IF i = 1 THEN None ELSE log[i - 1])
                [] c = "time" -> i > 1 /\ entries[log[i]].at <= entries[log[i - 1]].at
                [] c = "signature" ->
                      entries[log[i]].by = Owner
                        /\ entries[log[i]].key # disk[k].did[ZoneOf[entries[log[i]].section]]
<1>1. GammaErrors(k) = {c \in {"link", "time", "signature"} : Bad(c)}
  BY DEF GammaErrors
<1>2. /\ log \in Seq(Nat) /\ entries \in Seq(Entries)
      /\ \A i \in DOMAIN log : log[i] \in DOMAIN entries
  BY DEF EditionsTyped, DiskOK, Files
<1>3. ~Bad("link")
  BY DEF LogInv, LinksInv, Linked
<1>4. ASSUME Bad("time")
      PROVE  \E i, j \in DOMAIN entries : OutOfTime(i, j)
  <2>1. PICK i \in DOMAIN log : i > 1 /\ entries[log[i]].at <= entries[log[i - 1]].at
    BY <1>4
  <2>2. i - 1 \in DOMAIN log
    BY <1>2, <2>1
  <2>3. PICK a, b \in DOMAIN entries : a = log[i - 1] /\ b = log[i]
    BY <1>2, <2>2
  <2>4. a < b
    BY <2>1, <2>3 DEF LogInv, LinksInv, Linked, EntriesInv
  <2>5. entries[a].by = entries[b].by => entries[a].at <= entries[b].at
    BY <2>4 DEF LogInv, EntriesInv
  <2>6. entries[a] \in Entries /\ entries[b] \in Entries /\ a \in Nat /\ b \in Nat
    BY <1>2, <2>3
  <2>7. OutOfTime(a, b)
    BY <2>1, <2>3, <2>4, <2>5, <2>6 DEF Entries, OutOfTime
  <2> QED
    BY <2>7
<1>5. ASSUME Bad("signature") PROVE seeds # FirstKeys
  <2>1. PICK i \in DOMAIN log :
           entries[log[i]].key # disk[k].did[ZoneOf[entries[log[i]].section]]
    BY <1>5
  <2>2. entries[log[i]] \in Entries
    BY <1>2
  <2>3. PICK z \in Zones : z = ZoneOf[entries[log[i]].section]
    BY <2>2, EditionsAssumption DEF Entries
  <2>4. entries[log[i]].key \in 1 .. seeds[z] /\ disk[k].did[z] \in 1 .. seeds[z]
    BY <1>2, <2>3 DEF KeysInv, Known
  <2>5. seeds[z] # 1
    <3>1. seeds[z] = 1 => entries[log[i]].key = 1 /\ disk[k].did[z] = 1
      BY <2>4
    <3> QED
      BY <2>1, <2>3, <3>1
  <2> QED
    BY <2>5 DEF FirstKeys
<1> HIDE DEF Bad
<1> QED
  BY <1>1, <1>3, <1>4, <1>5

\* The log of a keystore verifies through deaths and bundles, as long as no two
\* entries are of one millisecond, no machine wrote with a clock behind that of one
\* that wrote before, and no key was rotated.
THEOREM LogsKeepVerifying == Spec => []LogVerifiesUnlessExplained
<1>1. Init => EditionsTyped /\ KeysInv /\ LogInv
  BY TypedInit, KeysInit, LogInit
<1>2. EditionsTyped /\ KeysInv /\ LogInv /\ [Next]_vars
         => EditionsTyped' /\ KeysInv' /\ LogInv'
  BY TypedStep, KeysStep, LogStep
<1>3. EditionsTyped /\ KeysInv /\ LogInv => LogVerifiesUnlessExplained
  BY LogsVerify DEF LogVerifiesUnlessExplained
<1> QED
  BY <1>1, <1>2, <1>3, PTL DEF Spec

-----------------------------------------------------------------------------
(* An edition is begun *)

\* What a write, a grant and a revocation have in common.
Begins(k, docs, log, readers, entry, drops) ==
    /\ job.step \in {"idle", "grant", "revoke"}
    /\ Installed(k) /\ CanLoad(k)
    /\ k # Owner => k \in DOMAIN mandates
    /\ Persist(k, docs, log, readers, entry, drops)
    /\ UNCHANGED <<seeds, mandates, revoked, bundles, history>>
    /\ \/ /\ entry = None /\ docs = Docs(k) /\ log = disk[k].log
          /\ UNCHANGED <<disk, entries>>
       \/ \E r \in Entries :
             /\ entry = Len(entries) + 1 /\ ZoneOf[r.section] \in Loaded(k)
             /\ docs = [Docs(k) EXCEPT ![ZoneOf[r.section]] = Apply(@, r, entry)]
             /\ log = Append(disk[k].log, entry)
             /\ entries' = Append(entries, r)
             /\ disk' = [disk EXCEPT ![k].log = log]

\* A write, a grant and a revocation begin an edition.
LEMMA BeginsIs ==
    ASSUME EditionsTyped, Writes \/ IssueWithRewrap \/ RepinAfterRevocation
    PROVE  \E k \in Keystores, docs \in [Zones -> Doc], log \in Seq(Nat),
              readers \in SUBSET Keystores, entry \in Nat, drops \in SUBSET Agents :
                 Begins(k, docs, log, readers, entry, drops)
<1>0. /\ {} \in SUBSET Agents /\ None \in Nat /\ Owner \in Keystores /\ Installed(Owner)
      /\ Docs(Owner) \in [Zones -> Doc] /\ disk[Owner].log \in Seq(Nat)
  BY OwnerIsInstalled, DocsAre DEF None, EditionsTyped, DiskOK, Files
<1>1. CASE Writes
  <2>1. PICK k \in Keystores, s \in Sections, r \in Entries, docs \in [Zones -> Doc],
           log \in Seq(Nat), readers \in SUBSET Keystores, e \in Nat :
              WriteOf(k, s, r, docs, log, readers, e)
    BY <1>1, WritesAre
  <2>2. job.step = "idle"
    <3>1. \A o, op, t, payload, at : Write(o, op, t, payload, at) => job = Idle
      BY DEF Write
    <3>2. job = Idle
      BY <1>1, <3>1, Zenon DEF Writes
    <3> QED
      BY <3>2 DEF Idle
  <2>3. r.section = s
    BY <2>1 DEF WriteOf, Entry
  <2>4. Begins(k, docs, log, readers, e, {})
    BY <2>1, <2>2, <2>3 DEF Begins, WriteOf
  <2> QED
    BY <1>0, <2>4
<1>2. CASE IssueWithRewrap
  <2>1. PICK readers : readers = IF job.agent \in GammaReaders
                               THEN ReadersFor(Owner) \cup {job.agent}
                               ELSE CarriedReaders
    OBVIOUS
  <2>2. job \in OwnerJob
    BY <1>2, OwnerJobIs DEF IssueWithRewrap
  <2>3. readers \in SUBSET Keystores
    BY <2>1, <2>2, OwnerIsInstalled, ReadersAre, CarriedAre DEF OwnerJob, Keystores
  <2>4. Begins(Owner, Docs(Owner), disk[Owner].log, readers, None, {})
    BY <1>0, <1>2, <2>1 DEF Begins, IssueWithRewrap
  <2> QED
    BY <1>0, <2>3, <2>4
<1>3. CASE RepinAfterRevocation
  <2>1. PICK readers, drops : readers = KeptReaders /\ drops = {job.agent}
    OBVIOUS
  <2>2. job \in OwnerJob
    BY <1>3, OwnerJobIs DEF RepinAfterRevocation
  <2>3. readers \in SUBSET Keystores /\ drops \in SUBSET Agents
    BY <2>1, <2>2, OwnerIsInstalled, CarriedAre DEF OwnerJob, KeptReaders
  <2>4. Begins(Owner, Docs(Owner), disk[Owner].log, readers, None, drops)
    BY <1>0, <1>3, <2>1 DEF Begins, RepinAfterRevocation
  <2> QED
    BY <1>0, <2>3, <2>4
<1> QED
  BY <1>1, <1>2, <1>3

\* What follows of the files and of the drafts.
Begun(k, docs, log, readers, entry, drops) ==
    /\ Len(drafts') = Len(drafts) + 1 /\ Len(drafts) \in Nat
    /\ DOMAIN drafts' = DOMAIN drafts \cup {Len(drafts')}
    /\ \A i \in DOMAIN drafts : drafts'[i] = drafts[i]
    /\ drafts'[Len(drafts')] = Draft(k, log, readers)
    /\ \A o \in Keystores :
          /\ disk'[o].log = IF o = k THEN log ELSE disk[o].log
          /\ disk'[o].did = disk[o].did /\ disk'[o].snap = disk[o].snap
          /\ disk'[o].manifest = disk[o].manifest
          /\ disk'[o].zones = disk[o].zones /\ disk'[o].history = disk[o].history
    /\ job' = [step |-> "zones", who |-> k, docs |-> docs, entry |-> entry,
               todo |-> ZoneFiles(k), drops |-> drops, touched |-> entry # None]
    /\ ToSet(job'.todo) = Loaded(k) /\ Loaded(k) \subseteq Zones

\* The state in which an edition is begun.
LEMMA BegunIs ==
    ASSUME EditionsTyped, NEW k \in Keystores, NEW docs \in [Zones -> Doc],
           NEW log \in Seq(Nat), NEW readers \in SUBSET Keystores, NEW entry \in Nat,
           NEW drops \in SUBSET Agents, Begins(k, docs, log, readers, entry, drops)
    PROVE  Begun(k, docs, log, readers, entry, drops)
<1>1. Persist(k, docs, log, readers, entry, drops) /\ Installed(k)
  BY DEF Begins
<1>2. /\ Len(drafts') = Len(drafts) + 1 /\ Len(drafts) \in Nat
      /\ \A i \in DOMAIN drafts : drafts'[i] = drafts[i]
      /\ drafts'[Len(drafts')] = Draft(k, log, readers)
      /\ drafts' \in Seq(Manifests) /\ drafts \in Seq(Manifests)
  BY <1>1, PersistTyped DEF EditionsTyped
<1>3. DOMAIN drafts' = DOMAIN drafts \cup {Len(drafts')}
  BY <1>2
<1>4. disk \in [Keystores -> Files]
  BY DEF EditionsTyped, DiskOK
<1>5. ASSUME NEW o \in Keystores
      PROVE  /\ disk'[o].log = IF o = k THEN log ELSE disk[o].log
             /\ disk'[o].did = disk[o].did /\ disk'[o].snap = disk[o].snap
             /\ disk'[o].manifest = disk[o].manifest
             /\ disk'[o].zones = disk[o].zones /\ disk'[o].history = disk[o].history
  <2>1. CASE log = disk[k].log /\ disk' = disk
    BY <2>1
  <2>2. CASE disk' = [disk EXCEPT ![k].log = log]
    BY <1>4, <2>2 DEF Files
  <2> QED
    BY <2>1, <2>2 DEF Begins
<1>6. job' = [step |-> "zones", who |-> k, docs |-> docs, entry |-> entry,
              todo |-> ZoneFiles(k), drops |-> drops, touched |-> entry # None]
  BY <1>1 DEF Persist
<1>7. ToSet(job'.todo) = Loaded(k) /\ Loaded(k) \subseteq Zones
  BY <1>6, AllFilesAtFirst
<1> QED
  BY <1>2, <1>3, <1>5, <1>6, <1>7 DEF Begun

-----------------------------------------------------------------------------
(* The chain of editions *)

\* An edition names the one that it was made from, and its author, who has a
\* mandate; the archives are where their versions say.
DraftsInv ==
    /\ \A i \in DOMAIN drafts :
          /\ drafts[i].prev \in 0 .. i - 1
          /\ drafts[i].supersedes = IF drafts[i].prev = None THEN None
                                    ELSE drafts[drafts[i].prev].version
          /\ drafts[i].by \in {Owner} \cup DOMAIN mandates
          /\ \A z \in Zones : drafts[i].zones[z].by \in {Owner} \cup DOMAIN mandates
    /\ \A k \in Keystores : \A v \in DOMAIN disk[k].history :
          drafts[disk[k].history[v]].version = v

\* At first there is one edition.
LEMMA DraftsInit == Init => DraftsInv
<1> SUFFICES ASSUME Init PROVE DraftsInv
  OBVIOUS
<1>1. \A i \in DOMAIN drafts :
         /\ i = 1 /\ drafts[i].prev = None /\ drafts[i].supersedes = None
         /\ drafts[i].by = Owner /\ \A z \in Zones : drafts[i].zones[z].by = Owner
         /\ drafts[i].version = 1
  BY DEF Init
<1>2. 1 \in DOMAIN drafts
  BY DEF Init
<1>3. \A k \in Keystores : \A v \in DOMAIN disk[k].history : v = 1 /\ disk[k].history[v] = 1
  BY DEF Init, Put, Empty
<1> QED
  BY <1>1, <1>2, <1>3 DEF DraftsInv, None

\* The chain stays when no edition is begun.
LEMMA DraftsStay ==
    ASSUME DraftsInv, UNCHANGED drafts, DOMAIN mandates \subseteq DOMAIN mandates',
           \A k \in Keystores : \A v \in DOMAIN disk'[k].history :
              \/ v \in DOMAIN disk[k].history /\ disk'[k].history[v] = disk[k].history[v]
              \/ drafts[disk'[k].history[v]].version = v
    PROVE  DraftsInv'
<1>1. (\A k \in Keystores : \A v \in DOMAIN disk[k].history :
          drafts[disk[k].history[v]].version = v)'
  BY DEF DraftsInv
<1>2. (\A i \in DOMAIN drafts :
          /\ drafts[i].prev \in 0 .. i - 1
          /\ drafts[i].supersedes = IF drafts[i].prev = None THEN None
                                    ELSE drafts[drafts[i].prev].version
          /\ drafts[i].by \in {Owner} \cup DOMAIN mandates
          /\ \A z \in Zones : drafts[i].zones[z].by \in {Owner} \cup DOMAIN mandates)'
  BY DEF DraftsInv
<1> QED
  BY <1>1, <1>2 DEF DraftsInv

\* The chain grows by the edition that is begun.
LEMMA DraftsGrow ==
    ASSUME EditionsTyped, DraftsInv, NEW k \in Keystores, NEW docs \in [Zones -> Doc],
           NEW log \in Seq(Nat), NEW readers \in SUBSET Keystores, NEW entry \in Nat,
           NEW drops \in SUBSET Agents, Begins(k, docs, log, readers, entry, drops)
    PROVE  DraftsInv'
<1>1. /\ Len(drafts') = Len(drafts) + 1 /\ Len(drafts) \in Nat
      /\ DOMAIN drafts' = DOMAIN drafts \cup {Len(drafts')}
      /\ \A i \in DOMAIN drafts : drafts'[i] = drafts[i]
      /\ drafts'[Len(drafts')] = Draft(k, log, readers)
      /\ \A o \in Keystores : disk'[o].history = disk[o].history
  BY BegunIs DEF Begun
<1>2. Installed(k) /\ UNCHANGED mandates /\ k \in {Owner} \cup DOMAIN mandates
  BY DEF Begins
<1>3. disk[k].manifest \in DOMAIN drafts /\ disk[k].manifest # None
  BY <1>2, ManifestIs DEF Installed
<1>4. DOMAIN drafts = 1 .. Len(drafts)
  BY DEF EditionsTyped
<1>5. ASSUME NEW i \in DOMAIN drafts
      PROVE  /\ drafts'[i].prev \in 0 .. i - 1
             /\ drafts'[i].supersedes = IF drafts'[i].prev = None THEN None
                                        ELSE drafts'[drafts'[i].prev].version
             /\ drafts'[i].by \in {Owner} \cup DOMAIN mandates
             /\ \A z \in Zones : drafts'[i].zones[z].by \in {Owner} \cup DOMAIN mandates
  <2>1. drafts[i].prev # None => drafts[i].prev \in DOMAIN drafts
    BY <1>1, <1>4 DEF DraftsInv, None
  <2> QED
    BY <1>1, <2>1 DEF DraftsInv
<1>6. /\ drafts'[Len(drafts')].prev = disk[k].manifest
      /\ drafts'[Len(drafts')].supersedes = drafts[disk[k].manifest].version
      /\ drafts'[Len(drafts')].by = k
  BY <1>1 DEF Draft, Edition, Manifest
<1>7. ASSUME NEW z \in Zones
      PROVE  drafts'[Len(drafts')].zones[z].by \in {Owner} \cup DOMAIN mandates
  <2>1. drafts'[Len(drafts')].zones[z] = IF z \in Loaded(k) THEN Rendered(k, z)
                                         ELSE drafts[disk[k].manifest].zones[z]
    BY <1>1 DEF Draft, Edition, Manifest
  <2>2. Rendered(k, z).by = k
    BY DEF Rendered, Sealed
  <2> QED
    BY <1>2, <1>3, <2>1, <2>2 DEF DraftsInv
<1>8. (\A i \in DOMAIN drafts :
          /\ drafts[i].prev \in 0 .. i - 1
          /\ drafts[i].supersedes = IF drafts[i].prev = None THEN None
                                    ELSE drafts[drafts[i].prev].version
          /\ drafts[i].by \in {Owner} \cup DOMAIN mandates
          /\ \A z \in Zones : drafts[i].zones[z].by \in {Owner} \cup DOMAIN mandates)'
  <2>1. disk[k].manifest \in 0 .. Len(drafts') - 1
    BY <1>1, <1>3, <1>4
  <2> QED
    BY <1>1, <1>2, <1>3, <1>5, <1>6, <1>7, <2>1
<1>9. \A o \in Keystores : \A v \in DOMAIN disk[o].history :
          disk[o].history[v] \in DOMAIN drafts
  BY <1>4 DEF EditionsTyped, DiskOK
<1>10. (\A o \in Keystores : \A v \in DOMAIN disk[o].history :
          drafts[disk[o].history[v]].version = v)'
  BY <1>1, <1>9 DEF DraftsInv
<1> QED
  BY <1>8, <1>10 DEF DraftsInv

\* No step breaks the chain.
LEMMA DraftsStep == EditionsTyped /\ DraftsInv /\ [Next]_vars => DraftsInv'
<1> SUFFICES ASSUME EditionsTyped, DraftsInv, [Next]_vars PROVE DraftsInv'
  OBVIOUS
<1>0. disk \in [Keystores -> Files] /\ Owner \in Keystores
  BY OwnerIsInstalled DEF EditionsTyped, DiskOK
<1>1. CASE Writes \/ IssueWithRewrap \/ RepinAfterRevocation
  BY <1>1, BeginsIs, DraftsGrow
<1>2. CASE WriteZone
  <2>1. PICK k \in Keystores, z \in Zones, doc \in Doc, x \in Files :
              /\ x = [disk[k] EXCEPT !.zones =
                         [@ EXCEPT ![z] = [seal |-> Len(drafts), doc |-> doc]]]
              /\ disk' = [disk EXCEPT ![k] = x]
    BY <1>2, WriteZoneIs
  <2>2. \A o \in Keystores : disk'[o].history = disk[o].history
    BY <1>0, <2>1 DEF Files
  <2> QED
    BY <1>2, <2>2, DraftsStay DEF WriteZone
<1>3. CASE Snapshot
  <2>1. PICK k \in Keystores, x \in Files :
              /\ x = [disk[k] EXCEPT !.snap = disk[k].did]
              /\ disk' = [disk EXCEPT ![k] = x]
    BY <1>3, SnapshotIs
  <2>2. \A o \in Keystores : disk'[o].history = disk[o].history
    BY <1>0, <2>1 DEF Files
  <2> QED
    BY <1>3, <2>2, DraftsStay DEF Snapshot
<1>4. CASE WriteManifest
  <2>1. PICK k \in Keystores, x \in Files :
              /\ x = [disk[k] EXCEPT !.manifest = Len(drafts)]
              /\ disk' = [disk EXCEPT ![k] = x]
    BY <1>4, WriteManifestIs
  <2>2. \A o \in Keystores : disk'[o].history = disk[o].history
    BY <1>0, <2>1 DEF Files
  <2> QED
    BY <1>4, <2>2, DraftsStay DEF WriteManifest
<1>5. CASE Archive
  <2>1. PICK k \in Keystores, x \in Files :
              /\ disk' = [disk EXCEPT ![k] = x]
              /\ \A v \in DOMAIN x.history :
                    \/ v \in DOMAIN disk[k].history /\ x.history[v] = disk[k].history[v]
                    \/ v = Last(drafts).version /\ x.history[v] = Len(drafts)
    BY <1>5, ArchiveIs
  <2>2. \A o \in Keystores : \A v \in DOMAIN disk'[o].history :
              \/ v \in DOMAIN disk[o].history /\ disk'[o].history[v] = disk[o].history[v]
              \/ drafts[disk'[o].history[v]].version = v
    BY <1>0, <2>1 DEF Last
  <2> QED
    BY <1>5, <2>2, DraftsStay DEF Archive
<1>6. CASE \E a \in Agents : Grant(a) \/ Revoke(a)
  BY <1>6, DraftsStay DEF Grant, Revoke, Put
<1>7. CASE FailToLoad \/ Die
  BY <1>7, DraftsStay DEF FailToLoad, Die
<1>8. CASE \E z \in Zones : Rotate(z)
  BY <1>8, DraftsStay DEF Rotate
<1>9. CASE PublishKey
  <2>1. PICK z \in Zones, x \in Files :
              /\ x = [disk[Owner] EXCEPT !.did = [@ EXCEPT ![z] = seeds[z]]]
              /\ disk' = [disk EXCEPT ![Owner] = x]
    BY <1>9, PublishIs
  <2>2. \A o \in Keystores : disk'[o].history = disk[o].history
    BY <1>0, <2>1 DEF Files
  <2> QED
    BY <1>9, <2>2, DraftsStay DEF PublishKey
<1>10. CASE \E k \in Keystores : Pack(k)
  BY <1>10, DraftsStay DEF Pack
<1>11. CASE \E k, from \in Keystores : Install(k, from)
  BY <1>11, DraftsStay DEF Install
<1>12. CASE InstallFile
  <2>1. PICK k \in Keystores, b \in Bundle, f \in InstallNames, x \in Files :
           Installs(k, b, f, x) /\ BundleOK(b)
    BY <1>12, InstallFileIs
  <2>2. x.history = disk[k].history /\ disk' = [disk EXCEPT ![k] = x]
          /\ UNCHANGED <<drafts, mandates>>
    BY <1>0, <2>1, InstalledIs DEF Installs
  <2>3. \A o \in Keystores : disk'[o].history = disk[o].history
    BY <1>0, <2>2
  <2> QED
    BY <2>2, <2>3, DraftsStay
<1>13. CASE UNCHANGED vars
  BY <1>13, DraftsStay DEF vars
<1> QED
  BY <1>1, <1>2, <1>3, <1>4, <1>5, <1>6, <1>7, <1>8, <1>9, <1>10, <1>11, <1>12,
     <1>13 DEF Next

-----------------------------------------------------------------------------
(* The files of an edition agree *)

\* Every zone has a file.
Present(zones) == \A z \in Zones : zones[z].seal # None

\* Every section of a document was set by an entry of the log.
RefsIn(doc, log) == \A s \in DOMAIN doc : doc[s].ref \in ToSet(log)

\* The files are those that a manifest describes.
Matches(zones, did, log, m) ==
    /\ \A z \in Zones : zones[z].seal = m.zones[z].seal
    /\ did = m.did
    /\ m.head = IF log = <<>> THEN None ELSE Last(log)
    /\ m.count = Len(log)

\* An edition of this keystore is half written.
HalfWritten(k) ==
    /\ job.step \in {"zones", "manifest"}
    /\ job.who = k
    /\ job.step = "zones" => job.touched

\* The files of a keystore agree with each other, unless they are of two bundles, and
\* with their manifest, unless a process died or is at work.
FilesSound(k) ==
    /\ k \notin torn =>
          /\ \A z \in Zones : RefsIn(disk[k].zones[z].doc, disk[k].log)
          /\ Installed(k) => Present(disk[k].zones)
    /\ k \notin torn \cup died /\ Installed(k) /\ ~HalfWritten(k) =>
          Matches(disk[k].zones, disk[k].snap, disk[k].log, drafts[disk[k].manifest])

\* So do those of a bundle.
BundleSound(built, b) ==
    ~b.torn =>
        /\ Present(b.zones) /\ \A z \in Zones : RefsIn(b.zones[z].doc, b.log)
        /\ ~b.died => Matches(b.zones, b.did, b.log, built[b.manifest])

\* An edition at work: what its manifest will describe, and how far it is.
EditionSound ==
    LET k == job.who
        d == disk[k]
        m == drafts[Len(drafts)] IN
    /\ m.did = d.did
    /\ m.head = (IF d.log = <<>> THEN None ELSE Last(d.log)) /\ m.count = Len(d.log)
    /\ ToSet(job.todo) \subseteq Loaded(k)
    /\ \A z \in Loaded(k) :
          /\ m.zones[z].seal = Len(drafts)
          /\ z \notin ToSet(job.todo) => d.zones[z].seal = Len(drafts)
          /\ k \notin torn => RefsIn(job.docs[z], d.log)
    /\ k \notin torn \cup died =>
          \A z \in Zones \ Loaded(k) : d.zones[z].seal = m.zones[z].seal
    /\ job.step # "zones" => ToSet(job.todo) = {} /\ d.snap = d.did
    /\ job.step = "archive" => d.manifest = Len(drafts)

\* A bundle being installed: what is not left to install is installed.
InstallSound ==
    LET d == disk[job.who]
        b == job.bundle
        done == InstallNames \ ToSet(job.todo) IN
    /\ BundleSound(drafts, b) /\ job.who \in torn
    /\ "snap" \in done => d.snap = b.did
    /\ "manifest" \in done => d.manifest = b.manifest
    /\ \A z \in Zones : z \in done /\ b.zones[z].seal # None => d.zones[z] = b.zones[z]

\* What the command at work has done and has left.
JobSound ==
    /\ job.step \in {"zones", "manifest", "archive"} => EditionSound
    /\ job.step = "install" => InstallSound

\* The files agree, in keystores, in bundles and on the way from one to the other.
SoundInv ==
    /\ \A k \in Keystores : FilesSound(k)
    /\ \A k \in Keystores : bundles[k] # NoBundle => BundleSound(drafts, bundles[k])
    /\ JobSound

\* At first there is nothing to disagree.
LEMMA SoundInit == Init => SoundInv
<1> SUFFICES ASSUME Init PROVE SoundInv
  OBVIOUS
<1>1. job.step = "idle" /\ \A k \in Keystores : bundles[k] = NoBundle
  BY DEF Init, Idle
<1>2. \A k \in Keystores, z \in Zones : DOMAIN disk[k].zones[z].doc = {}
  BY DEF Init, NoFile, Empty
<1>3. Owner \in Keystores /\ \A k \in Keystores : Installed(k) <=> k = Owner
  BY DEF Init, Installed, None, Keystores
<1>4. /\ \A z \in Zones : disk[Owner].zones[z].seal = 1
      /\ disk[Owner].snap = FirstKeys /\ disk[Owner].log = <<>> /\ disk[Owner].manifest = 1
  BY <1>3 DEF Init
<1>5. /\ \A z \in Zones : drafts[1].zones[z].seal = 1
      /\ drafts[1].did = FirstKeys /\ drafts[1].head = None /\ drafts[1].count = 0
  BY DEF Init
<1>6. Present(disk[Owner].zones)
        /\ Matches(disk[Owner].zones, disk[Owner].snap, disk[Owner].log, drafts[1])
  BY <1>4, <1>5 DEF Present, Matches, None
<1>7. \A k \in Keystores : FilesSound(k)
  BY <1>2, <1>3, <1>4, <1>6 DEF FilesSound, RefsIn
<1> QED
  BY <1>1, <1>7 DEF SoundInv, JobSound

\* What a log makes of references as it grows.
LEMMA RefsStay ==
    ASSUME NEW log \in Seq(Nat), NEW e \in Nat, NEW doc, RefsIn(doc, log)
    PROVE  RefsIn(doc, Append(log, e))
<1>1. \A i \in DOMAIN log : i \in DOMAIN Append(log, e) /\ Append(log, e)[i] = log[i]
  OBVIOUS
<1>2. ToSet(log) \subseteq ToSet(Append(log, e))
  BY <1>1 DEF ToSet
<1> QED
  BY <1>2 DEF RefsIn

\* Every section of a document that an operation makes was set by an entry.
LEMMA ApplyRefs ==
    ASSUME NEW log \in Seq(Nat), NEW e \in Nat, NEW doc \in Doc, NEW r,
           r.op \in Operations, RefsIn(doc, log)
    PROVE  RefsIn(Apply(doc, r, e), Append(log, e))
<1>1. RefsIn(doc, Append(log, e))
  BY RefsStay
<1>2. e \in ToSet(Append(log, e))
  <2>1. Len(log) + 1 \in DOMAIN Append(log, e) /\ Append(log, e)[Len(log) + 1] = e
    OBVIOUS
  <2> QED
    BY <2>1 DEF ToSet
<1>3. PICK S \in SUBSET Sections : doc \in [S -> [title: Nat, body: Nat, ref: Nat]]
  BY DEF Doc
<1>4. ASSUME NEW s \in DOMAIN Apply(doc, r, e)
      PROVE  Apply(doc, r, e)[s].ref = e
               \/ (s \in DOMAIN doc /\ Apply(doc, r, e)[s].ref = doc[s].ref)
  <2>1. CASE r.op = "section.add"
    <3>1. Apply(doc, r, e) = Put(doc, r.section, [title |-> e, body |-> e, ref |-> e])
      BY <2>1 DEF Apply
    <3> QED
      BY <1>4, <3>1 DEF Put
  <2>2. CASE r.op = "section.modify"
    <3> DEFINE v == [title |-> IF "title" \in r.payload THEN e ELSE doc[r.section].title,
                     body |-> IF "body" \in r.payload THEN e ELSE doc[r.section].body,
                     ref |-> e]
    <3>1. Apply(doc, r, e) = [doc EXCEPT ![r.section] = v] /\ v.ref = e
      BY <2>2 DEF Apply
    <3> HIDE DEF v
    <3> QED
      BY <1>3, <1>4, <3>1
  <2>3. CASE r.op = "section.delete"
    <3>1. Apply(doc, r, e) = [t \in DOMAIN doc \ {r.section} |-> doc[t]]
      BY <2>3 DEF Apply
    <3> QED
      BY <1>4, <3>1
  <2> QED
    BY <2>1, <2>2, <2>3 DEF Operations
<1> QED
  BY <1>1, <1>2, <1>4 DEF RefsIn

\* Files that stay agree as before, whatever else is drafted.
LEMMA FileStays ==
    ASSUME EditionsTyped, NEW k \in Keystores, FilesSound(k),
           disk'[k].zones = disk[k].zones, disk'[k].snap = disk[k].snap,
           disk'[k].log = disk[k].log, disk'[k].manifest = disk[k].manifest,
           \A i \in DOMAIN drafts : drafts'[i] = drafts[i],
           k \in torn => k \in torn', k \in died => k \in torn' \cup died',
           HalfWritten(k) => HalfWritten(k)' \/ k \in torn' \cup died'
    PROVE  FilesSound(k)'
<1>1. Installed(k)' <=> Installed(k)
  BY DEF Installed
<1>2. Installed(k) => drafts'[disk[k].manifest] = drafts[disk[k].manifest]
  BY ManifestIs
<1> QED
  BY <1>1, <1>2 DEF FilesSound

\* So do those of a bundle.
LEMMA BundleStaysSound ==
    ASSUME EditionsTyped, NEW b, BundleOK(b), BundleSound(drafts, b),
           \A i \in DOMAIN drafts : drafts'[i] = drafts[i]
    PROVE  BundleSound(drafts', b)
<1>1. drafts'[b.manifest] = drafts[b.manifest]
  BY DEF BundleOK, EditionsTyped
<1> QED
  BY <1>1 DEF BundleSound

\* So do those of all bundles.
LEMMA BundlesStaySound ==
    ASSUME EditionsTyped, SoundInv, UNCHANGED bundles,
           \A i \in DOMAIN drafts : drafts'[i] = drafts[i]
    PROVE  (\A o \in Keystores : bundles[o] # NoBundle => BundleSound(drafts, bundles[o]))'
<1>1. ASSUME NEW o \in Keystores, bundles[o] # NoBundle
      PROVE  BundleSound(drafts', bundles[o])
  <2>1. PICK b : b = bundles[o]
    OBVIOUS
  <2>2. BundleOK(b) /\ BundleSound(drafts, b)
    BY <1>1, <2>1 DEF EditionsTyped, BundlesOK, SoundInv
  <2> QED
    BY <2>1, <2>2, BundleStaysSound
<1> QED
  BY <1>1

\* A step that writes no file of an edition.
LEMMA SoundAside ==
    ASSUME EditionsTyped, SoundInv, UNCHANGED drafts,
           \A k \in Keystores :
              /\ disk'[k].zones = disk[k].zones /\ disk'[k].snap = disk[k].snap
              /\ disk'[k].log = disk[k].log /\ disk'[k].manifest = disk[k].manifest
              /\ k \in torn => k \in torn'
              /\ k \in died => k \in torn' \cup died'
              /\ HalfWritten(k) => HalfWritten(k)' \/ k \in torn' \cup died'
              /\ bundles'[k] = bundles[k] \/ BundleSound(drafts, bundles'[k]),
           JobSound'
    PROVE  SoundInv'
<1>1. \A k \in Keystores : FilesSound(k)'
  BY FileStays DEF SoundInv
<1>2. (\A k \in Keystores : bundles[k] # NoBundle => BundleSound(drafts, bundles[k]))'
  BY DEF SoundInv
<1> QED
  BY <1>1, <1>2 DEF SoundInv

\* An edition is begun: its manifest describes what will be written.
LEMMA EditionBegins ==
    ASSUME EditionsTyped, SoundInv, NEW k \in Keystores, NEW docs \in [Zones -> Doc],
           NEW log \in Seq(Nat), NEW readers \in SUBSET Keystores, NEW entry \in Nat,
           NEW drops \in SUBSET Agents, Begins(k, docs, log, readers, entry, drops)
    PROVE  SoundInv'
<1>1. /\ Len(drafts') = Len(drafts) + 1 /\ Len(drafts) \in Nat
      /\ DOMAIN drafts' = DOMAIN drafts \cup {Len(drafts')}
      /\ \A i \in DOMAIN drafts : drafts'[i] = drafts[i]
      /\ drafts'[Len(drafts')] = Draft(k, log, readers)
      /\ \A o \in Keystores :
            /\ disk'[o].log = IF o = k THEN log ELSE disk[o].log
            /\ disk'[o].did = disk[o].did /\ disk'[o].snap = disk[o].snap
            /\ disk'[o].manifest = disk[o].manifest
            /\ disk'[o].zones = disk[o].zones /\ disk'[o].history = disk[o].history
      /\ job' = [step |-> "zones", who |-> k, docs |-> docs, entry |-> entry,
                 todo |-> ZoneFiles(k), drops |-> drops, touched |-> entry # None]
      /\ ToSet(job'.todo) = Loaded(k) /\ Loaded(k) \subseteq Zones
  BY BegunIs DEF Begun
<1>2. /\ job.step \in {"idle", "grant", "revoke"} /\ Installed(k)
      /\ UNCHANGED <<bundles, torn, died>>
      /\ \/ entry = None /\ docs = Docs(k) /\ log = disk[k].log
         \/ \E r \in Entries :
               /\ entry = Len(entries) + 1 /\ ZoneOf[r.section] \in Loaded(k)
               /\ docs = [Docs(k) EXCEPT ![ZoneOf[r.section]] = Apply(@, r, entry)]
               /\ log = Append(disk[k].log, entry)
  BY DEF Begins, history
<1>3. \A o \in Keystores : ~HalfWritten(o)
  BY <1>2 DEF HalfWritten
<1>4. /\ Docs(k) \in [Zones -> Doc] /\ disk[k].log \in Seq(Nat) /\ Len(entries) \in Nat
      /\ \A z \in Zones : disk[k].zones[z].doc \in Doc
      /\ \A z \in Loaded(k) : Docs(k)[z] = disk[k].zones[z].doc
  BY DocsAre DEF EditionsTyped, DiskOK, Files, ZoneFile
<1>5. ASSUME k \notin torn, NEW z \in Zones
      PROVE  /\ RefsIn(disk[k].zones[z].doc, log)
             /\ z \in Loaded(k) => RefsIn(docs[z], log)
  <2>1. RefsIn(disk[k].zones[z].doc, disk[k].log)
    BY <1>5 DEF SoundInv, FilesSound
  <2>2. CASE docs = Docs(k) /\ log = disk[k].log
    BY <1>4, <2>1, <2>2
  <2>3. ASSUME NEW r \in Entries,
               entry = Len(entries) + 1, ZoneOf[r.section] \in Loaded(k),
               docs = [Docs(k) EXCEPT ![ZoneOf[r.section]] = Apply(@, r, entry)],
               log = Append(disk[k].log, entry)
        PROVE  /\ RefsIn(disk[k].zones[z].doc, log)
               /\ z \in Loaded(k) => RefsIn(docs[z], log)
    <3>1. RefsIn(disk[k].zones[z].doc, log)
      BY <1>4, <2>1, <2>3, RefsStay
    <3>2. r.op \in Operations
      BY DEF Entries
    <3>3. RefsIn(Apply(disk[k].zones[z].doc, r, entry), log)
      BY <1>4, <2>1, <2>3, <3>2, ApplyRefs
    <3>4. z \in Loaded(k) => docs[z] \in {disk[k].zones[z].doc,
                                          Apply(disk[k].zones[z].doc, r, entry)}
      BY <1>4, <2>3
    <3> QED
      BY <3>1, <3>3, <3>4
  <2> QED
    BY <1>2, <2>2, <2>3
<1>6. ASSUME NEW o \in Keystores PROVE FilesSound(o)'
  <2>1. CASE o # k
    <3>1. o \in died => o \in died'
      BY <1>2
    <3> QED
      BY <1>1, <1>2, <1>3, <2>1, <3>1, FileStays DEF SoundInv
  <2>2. CASE o = k /\ entry = None /\ log = disk[k].log
    BY <1>1, <1>2, <1>3, <2>2, FileStays DEF SoundInv
  <2>3. CASE o = k /\ entry # None
    <3>1. HalfWritten(k)'
      BY <1>1, <2>3 DEF HalfWritten
    <3>2. k \notin torn => \A z \in Zones : RefsIn(disk'[k].zones[z].doc, disk'[k].log)
      BY <1>1, <1>5
    <3>3. k \notin torn => Present(disk'[k].zones)
      BY <1>1, <1>2 DEF SoundInv, FilesSound
    <3>4. torn' = torn
      BY <1>2
    <3> QED
      BY <2>3, <3>1, <3>2, <3>3, <3>4 DEF FilesSound
  <2> QED
    BY <1>2, <2>1, <2>2, <2>3 DEF None
<1>7. (\A o \in Keystores : bundles[o] # NoBundle => BundleSound(drafts, bundles[o]))'
  BY <1>1, <1>2, BundlesStaySound
<1>8. EditionSound'
  <2>1. PICK m : m = Draft(k, log, readers)
    OBVIOUS
  <2>2. /\ m.did = disk[k].did /\ m.count = Len(log)
        /\ m.head = IF log = <<>> THEN None ELSE Last(log)
    BY <2>1 DEF Draft, Edition
  <2>3. ASSUME NEW z \in Loaded(k) PROVE m.zones[z].seal = Len(drafts')
    <3>1. m.zones[z] = Rendered(k, z)
      BY <1>1, <2>1 DEF Draft, Edition
    <3> QED
      BY <1>1, <3>1 DEF Rendered, Sealed
  <2>4. ASSUME k \notin torn \cup died, NEW z \in Zones \ Loaded(k)
        PROVE  disk[k].zones[z].seal = m.zones[z].seal
    <3>1. m.zones[z] = Manifest(k).zones[z]
      BY <2>1 DEF Draft, Edition
    <3>2. Matches(disk[k].zones, disk[k].snap, disk[k].log, drafts[disk[k].manifest])
      BY <1>2, <1>3, <2>4 DEF SoundInv, FilesSound
    <3> QED
      BY <3>1, <3>2 DEF Matches, Manifest
  <2>5. /\ job'.who = k /\ job'.docs = docs /\ job'.step = "zones"
        /\ drafts'[Len(drafts')] = m /\ torn' = torn /\ died' = died
    BY <1>1, <1>2, <2>1
  <2> QED
    BY <1>1, <1>5, <2>2, <2>3, <2>4, <2>5 DEF EditionSound
<1>9. JobSound'
  BY <1>1, <1>8 DEF JobSound
<1> QED
  BY <1>6, <1>7, <1>9 DEF SoundInv

\* The files of the edition are written, one after the other.
LEMMA ZoneIsSound == ASSUME EditionsTyped, SoundInv, WriteZone PROVE SoundInv'
<1>1. PICK k \in Keystores, z \in Zones, doc \in Doc, x \in Files :
              /\ k = job.who /\ z = Head(job.todo) /\ doc = job.docs[z]
              /\ x = [disk[k] EXCEPT !.zones =
                         [@ EXCEPT ![z] = [seal |-> Len(drafts), doc |-> doc]]]
              /\ disk' = [disk EXCEPT ![k] = x]
              /\ job' \in PersistJob /\ job'.step = "zones" /\ job'.who = k
              /\ job'.docs = job.docs /\ job'.entry = job.entry /\ job'.drops = job.drops
              /\ job'.todo = Tail(job.todo) /\ job'.touched
              /\ z \notin ToSet(job'.todo) /\ ToSet(job.todo) = {z} \cup ToSet(job'.todo)
  BY WriteZoneIs
<1>2. EditionSound /\ job.step = "zones" /\ UNCHANGED <<drafts, bundles, torn, died>>
  BY DEF WriteZone, SoundInv, JobSound, history
<1>3. disk[k] \in Files /\ disk \in [Keystores -> Files] /\ Len(drafts) \in Nat \ {0}
        /\ Loaded(k) \subseteq Zones
  BY FilesAre, AllFilesAtFirst DEF EditionsTyped, DiskOK
<1>4. /\ disk'[k] = x /\ x.did = disk[k].did /\ x.snap = disk[k].snap
      /\ x.log = disk[k].log /\ x.manifest = disk[k].manifest
      /\ x.zones[z] = [seal |-> Len(drafts), doc |-> doc]
      /\ \A y \in Zones \ {z} : x.zones[y] = disk[k].zones[y]
  BY <1>1, <1>3 DEF Files
<1>5. z \in Loaded(k)
  BY <1>1, <1>2 DEF EditionSound
<1>6. ASSUME NEW o \in Keystores PROVE FilesSound(o)'
  <2>1. CASE o # k
    <3>1. disk'[o] = disk[o] /\ ~HalfWritten(o)
      BY <1>1, <1>3, <2>1 DEF HalfWritten
    <3>2. o \in died => o \in died'
      BY <1>2
    <3> QED
      BY <1>2, <3>1, <3>2, FileStays DEF SoundInv
  <2>2. CASE o = k
    <3>1. HalfWritten(k)'
      BY <1>1 DEF HalfWritten
    <3>2. k \notin torn => \A y \in Zones : RefsIn(x.zones[y].doc, x.log)
      <4>1. k \notin torn => RefsIn(doc, disk[k].log)
        BY <1>1, <1>2, <1>5 DEF EditionSound
      <4>2. k \notin torn => \A y \in Zones : RefsIn(disk[k].zones[y].doc, disk[k].log)
        BY DEF SoundInv, FilesSound
      <4>3. x.zones[z].doc = doc
        BY <1>4
      <4> QED
        BY <1>4, <4>1, <4>2, <4>3
    <3>3. k \notin torn /\ Installed(k)' => Present(x.zones)
      <4>1. x.zones[z].seal # None
        BY <1>3, <1>4 DEF None
      <4>2. k \notin torn /\ Installed(k)' => Present(disk[k].zones)
        BY <1>4 DEF SoundInv, FilesSound, Installed
      <4> QED
        BY <1>4, <4>1, <4>2 DEF Present
    <3> QED
      BY <1>2, <1>4, <2>2, <3>1, <3>2, <3>3 DEF FilesSound
  <2> QED
    BY <2>1, <2>2
<1>7. (\A o \in Keystores : bundles[o] # NoBundle => BundleSound(drafts, bundles[o]))'
  BY <1>2, BundlesStaySound
<1>8. EditionSound'
  <2>1. ToSet(job'.todo) \subseteq Loaded(k)
    BY <1>1, <1>2 DEF EditionSound
  <2>2. ASSUME NEW y \in Loaded(k)
        PROVE  /\ drafts[Len(drafts)].zones[y].seal = Len(drafts)
               /\ y \notin ToSet(job'.todo) => x.zones[y].seal = Len(drafts)
               /\ k \notin torn => RefsIn(job.docs[y], x.log)
    <3>1. y # z => x.zones[y] = disk[k].zones[y]
      BY <1>3, <1>4
    <3>2. x.zones[z].seal = Len(drafts)
      BY <1>4
    <3> QED
      BY <1>1, <1>2, <1>4, <3>1, <3>2 DEF EditionSound
  <2>3. k \notin torn \cup died =>
          \A y \in Zones \ Loaded(k) : x.zones[y].seal = drafts[Len(drafts)].zones[y].seal
    BY <1>1, <1>2, <1>4, <1>5 DEF EditionSound
  <2>4. LET m == drafts[Len(drafts)] IN
          /\ m.did = x.did /\ m.count = Len(x.log)
          /\ m.head = IF x.log = <<>> THEN None ELSE Last(x.log)
    BY <1>1, <1>2, <1>4 DEF EditionSound
  <2>5. /\ job'.who = k /\ job'.docs = job.docs /\ job'.step = "zones" /\ disk'[k] = x
        /\ drafts' = drafts /\ torn' = torn /\ died' = died
    BY <1>1, <1>2, <1>4
  <2> QED
    BY <2>1, <2>2, <2>3, <2>4, <2>5 DEF EditionSound
<1>9. JobSound'
  BY <1>1, <1>8 DEF JobSound
<1> QED
  BY <1>6, <1>7, <1>9 DEF SoundInv

\* The snapshot of did.json is what the manifest will describe.
LEMMA SnapshotIsSound == ASSUME EditionsTyped, SoundInv, Snapshot PROVE SoundInv'
<1>1. PICK k \in Keystores, x \in Files :
              /\ k = job.who /\ job.todo = <<>>
              /\ x = [disk[k] EXCEPT !.snap = disk[k].did]
              /\ disk' = [disk EXCEPT ![k] = x]
              /\ job' \in PersistJob /\ job'.step = "manifest" /\ job'.who = k
              /\ job'.docs = job.docs /\ job'.entry = job.entry /\ job'.drops = job.drops
              /\ job'.todo = job.todo
  BY SnapshotIs
<1>2. EditionSound /\ job.step = "zones" /\ UNCHANGED <<drafts, bundles, torn, died>>
  BY DEF Snapshot, SoundInv, JobSound, history
<1>3. disk[k] \in Files /\ disk \in [Keystores -> Files]
  BY FilesAre DEF EditionsTyped, DiskOK
<1>4. /\ disk'[k] = x /\ x.did = disk[k].did /\ x.snap = disk[k].did
      /\ x.log = disk[k].log /\ x.manifest = disk[k].manifest
      /\ x.zones = disk[k].zones
  BY <1>1, <1>3 DEF Files
<1>5. ToSet(job'.todo) = {}
  BY <1>1 DEF ToSet
<1>6. ASSUME NEW o \in Keystores PROVE FilesSound(o)'
  <2>1. CASE o # k
    <3>1. disk'[o] = disk[o] /\ ~HalfWritten(o)
      BY <1>1, <1>3, <2>1 DEF HalfWritten
    <3>2. o \in died => o \in died'
      BY <1>2
    <3> QED
      BY <1>2, <3>1, <3>2, FileStays DEF SoundInv
  <2>2. CASE o = k
    <3>1. HalfWritten(k)' /\ (Installed(k)' <=> Installed(k))
      BY <1>1, <1>4 DEF HalfWritten, Installed
    <3> QED
      BY <1>2, <1>4, <2>2, <3>1 DEF SoundInv, FilesSound
  <2> QED
    BY <2>1, <2>2
<1>7. (\A o \in Keystores : bundles[o] # NoBundle => BundleSound(drafts, bundles[o]))'
  BY <1>2, BundlesStaySound
<1>8. EditionSound'
  <2>1. ToSet(job'.todo) \subseteq Loaded(k)
    BY <1>5
  <2>2. ASSUME NEW y \in Loaded(k)
        PROVE  /\ drafts[Len(drafts)].zones[y].seal = Len(drafts)
               /\ x.zones[y].seal = Len(drafts)
               /\ k \notin torn => RefsIn(job.docs[y], x.log)
    BY <1>1, <1>2, <1>4, <1>5 DEF EditionSound
  <2>3. k \notin torn \cup died =>
          \A y \in Zones \ Loaded(k) : x.zones[y].seal = drafts[Len(drafts)].zones[y].seal
    BY <1>1, <1>2, <1>4 DEF EditionSound
  <2>4. LET m == drafts[Len(drafts)] IN
          /\ m.did = x.did /\ m.count = Len(x.log)
          /\ m.head = IF x.log = <<>> THEN None ELSE Last(x.log)
    BY <1>1, <1>2, <1>4 DEF EditionSound
  <2>5. /\ job'.who = k /\ job'.docs = job.docs /\ job'.step = "manifest" /\ disk'[k] = x
        /\ drafts' = drafts /\ torn' = torn /\ died' = died /\ x.snap = x.did
    BY <1>1, <1>2, <1>4
  <2> QED
    BY <1>5, <2>1, <2>2, <2>3, <2>4, <2>5 DEF EditionSound
<1>9. JobSound'
  BY <1>1, <1>8 DEF JobSound
<1> QED
  BY <1>6, <1>7, <1>9 DEF SoundInv

\* The manifest is written last: the files of the keystore are those it describes.
LEMMA ManifestIsSound == ASSUME EditionsTyped, SoundInv, WriteManifest PROVE SoundInv'
<1>1. PICK k \in Keystores, x \in Files :
              /\ k = job.who
              /\ x = [disk[k] EXCEPT !.manifest = Len(drafts)]
              /\ disk' = [disk EXCEPT ![k] = x]
              /\ job' \in PersistJob /\ job'.step = "archive" /\ job'.who = k
              /\ job'.docs = job.docs /\ job'.entry = job.entry /\ job'.drops = job.drops
              /\ job'.todo = job.todo
  BY WriteManifestIs
<1>2. /\ EditionSound /\ job.step = "manifest" /\ UNCHANGED <<drafts, bundles, torn>>
      /\ died' = IF k = Owner THEN died \ {Owner} ELSE died
  BY <1>1 DEF WriteManifest, SoundInv, JobSound
<1>3. disk[k] \in Files /\ disk \in [Keystores -> Files] /\ Installed(k)
  BY <1>1, <1>2, FilesAre, PersistingIs DEF EditionsTyped, DiskOK, Installed
<1>4. /\ disk'[k] = x /\ x.did = disk[k].did /\ x.snap = disk[k].snap
      /\ x.log = disk[k].log /\ x.manifest = Len(drafts)
      /\ x.zones = disk[k].zones
  BY <1>1, <1>3 DEF Files
<1>5. k \notin torn \cup died' => Matches(x.zones, x.snap, x.log, drafts[Len(drafts)])
  <2>1. k = Owner => Loaded(k) = Zones
    BY DEF Loaded
  <2>2. k \notin died' => k = Owner \/ k \notin died
    BY <1>2
  <2>3. k \notin torn \cup died' =>
           \A z \in Zones : x.zones[z].seal = drafts[Len(drafts)].zones[z].seal
    BY <1>1, <1>2, <1>4, <2>1, <2>2 DEF EditionSound
  <2> QED
    BY <1>1, <1>2, <1>4, <2>3 DEF EditionSound, Matches
<1>6. ASSUME NEW o \in Keystores PROVE FilesSound(o)'
  <2>1. CASE o # k
    <3>1. disk'[o] = disk[o] /\ ~HalfWritten(o)
      BY <1>1, <1>3, <2>1 DEF HalfWritten
    <3>2. o \in died => o \in died'
      BY <1>2, <2>1
    <3> QED
      BY <1>2, <3>1, <3>2, FileStays DEF SoundInv
  <2>2. CASE o = k
    BY <1>2, <1>3, <1>4, <1>5, <2>2 DEF SoundInv, FilesSound
  <2> QED
    BY <2>1, <2>2
<1>7. (\A o \in Keystores : bundles[o] # NoBundle => BundleSound(drafts, bundles[o]))'
  BY <1>2, BundlesStaySound
<1>8. EditionSound'
  <2>1. k \notin torn \cup died' =>
          \A z \in Zones \ Loaded(k) : x.zones[z].seal = drafts[Len(drafts)].zones[z].seal
    BY <1>5 DEF Matches
  <2>2. /\ ToSet(job'.todo) = {} /\ x.snap = x.did
        /\ \A y \in Loaded(k) :
              /\ drafts[Len(drafts)].zones[y].seal = Len(drafts)
              /\ x.zones[y].seal = Len(drafts)
              /\ k \notin torn => RefsIn(job.docs[y], x.log)
    BY <1>1, <1>2, <1>4 DEF EditionSound
  <2>3. LET m == drafts[Len(drafts)] IN
          /\ m.did = x.did /\ m.count = Len(x.log)
          /\ m.head = IF x.log = <<>> THEN None ELSE Last(x.log)
    BY <1>1, <1>2, <1>4 DEF EditionSound
  <2>4. /\ job'.who = k /\ job'.docs = job.docs /\ job'.step = "archive" /\ disk'[k] = x
        /\ drafts' = drafts /\ torn' = torn /\ x.manifest = Len(drafts)
    BY <1>1, <1>2, <1>4
  <2> QED
    BY <2>1, <2>2, <2>3, <2>4 DEF EditionSound
<1>9. JobSound'
  BY <1>1, <1>8 DEF JobSound
<1> QED
  BY <1>6, <1>7, <1>9 DEF SoundInv

\* Archiving changes no file that a manifest describes.
LEMMA ArchiveIsSound == ASSUME EditionsTyped, SoundInv, Archive PROVE SoundInv'
<1>1. PICK k \in Keystores, x \in Files :
              /\ x = [disk[k] EXCEPT !.history = x.history]
              /\ disk' = [disk EXCEPT ![k] = x] /\ job' = Idle
  BY ArchiveIs
<1>2. job.step = "archive" /\ UNCHANGED <<drafts, bundles, torn, died>>
  BY DEF Archive
<1>3. disk[k] \in Files /\ disk \in [Keystores -> Files]
  BY FilesAre DEF EditionsTyped, DiskOK
<1>4. \A o \in Keystores :
         /\ disk'[o].zones = disk[o].zones /\ disk'[o].snap = disk[o].snap
         /\ disk'[o].log = disk[o].log /\ disk'[o].manifest = disk[o].manifest
  BY <1>1, <1>3 DEF Files
<1>5. JobSound' /\ \A o \in Keystores : ~HalfWritten(o)
  BY <1>1, <1>2 DEF JobSound, Idle, HalfWritten
<1> QED
  BY <1>2, <1>4, <1>5, SoundAside

-----------------------------------------------------------------------------
(* Bundles *)

\* What is packed is as sound as the keystore.
LEMMA PackIsSound ==
    ASSUME EditionsTyped, SoundInv, NEW k \in Keystores, Pack(k) PROVE SoundInv'
<1>1. PICK b \in Bundle :
              /\ BundleOK(b) /\ bundles' = [bundles EXCEPT ![k] = b]
              /\ b.manifest = disk[k].manifest /\ b.did = disk[k].snap
              /\ b.zones = disk[k].zones /\ b.log = disk[k].log
              /\ b.torn = (k \in torn) /\ b.died = (k \in died)
  BY PackIs
<1>2. job = Idle /\ Installed(k) /\ UNCHANGED <<disk, drafts, job, torn, died>>
  BY DEF Pack, history
<1>3. ~HalfWritten(k) /\ JobSound'
  BY <1>2 DEF HalfWritten, Idle, JobSound
<1>4. BundleSound(drafts, b)
  BY <1>1, <1>2, <1>3 DEF SoundInv, FilesSound, BundleSound
<1>5. \A o \in Keystores : bundles'[o] = bundles[o] \/ BundleSound(drafts, bundles'[o])
  BY <1>1, <1>4 DEF EditionsTyped, BundlesOK
<1> QED
  BY <1>2, <1>3, <1>5, SoundAside DEF HalfWritten

\* An install that begins has installed nothing.
LEMMA InstallBegins ==
    ASSUME EditionsTyped, SoundInv, NEW k \in Keystores, NEW from \in Keystores,
           Install(k, from)
    PROVE  SoundInv'
<1>1. PICK b \in Bundle :
              /\ BundleOK(b) /\ b = bundles[from] /\ BundleVerifies(b, k)
              /\ job' \in InstallJob /\ job'.who = k /\ job'.bundle = b
              /\ job'.todo = <<"did", "manifest", "snap", "public", "circle", "self", "log">>
  BY InstallIs
<1>2. /\ job = Idle /\ bundles[from] # NoBundle /\ torn' = torn \cup {k}
      /\ UNCHANGED <<disk, drafts, bundles, died>>
  BY DEF Install
<1>3. \A o \in Keystores : ~HalfWritten(o)
  BY <1>2 DEF HalfWritten, Idle
<1>4. BundleSound(drafts, b)
  BY <1>1, <1>2 DEF SoundInv
<1>5. InstallNames \ ToSet(job'.todo) = {}
  BY <1>1 DEF InstallNames, ToSet
<1>6. job'.step = "install" /\ k \in torn'
  BY <1>1, <1>2 DEF InstallJob
<1>7. JobSound'
  <2>1. InstallSound'
    BY <1>1, <1>2, <1>4, <1>5, <1>6 DEF InstallSound, Zones, InstallNames
  <2> QED
    BY <1>6, <2>1 DEF JobSound
<1>8. \A o \in Keystores : (o \in torn => o \in torn') /\ (o \in died => o \in died')
  BY <1>2
<1> QED
  BY <1>2, <1>3, <1>7, <1>8, SoundAside

\* The last file of a bundle is its log: a keystore that is not torn then has the
\* files of the bundle.
LEMMA InstalledWhole ==
    ASSUME EditionsTyped, SoundInv, NEW k \in Keystores, NEW b \in Bundle,
           NEW x \in Files, Installs(k, b, "log", x), k \notin torn'
    PROVE  /\ ~b.torn /\ x.log = b.log /\ x.snap = b.did /\ x.manifest = b.manifest
           /\ \A z \in Zones : x.zones[z] = b.zones[z]
<1>1. /\ k = job.who /\ b = job.bundle /\ "log" = Head(job.todo) /\ job \in InstallJob
      /\ torn' = IF b.torn \/ (b.log = <<>> /\ disk[k].log # <<>>)
                 THEN torn ELSE torn \ {k}
      /\ x = InstalledFile(disk[k], "log", b)
  BY DEF Installs
<1>2. InstallSound /\ ToSet(job.todo) = {"log"} /\ k \in torn
  BY <1>1, OneInstallLess DEF SoundInv, JobSound, InstallSound, InstallJob
<1>3. /\ x.snap = disk[k].snap /\ x.manifest = disk[k].manifest
      /\ x.log = LogAfter(disk[k], b)
      /\ \A z \in Zones : x.zones[z] = disk[k].zones[z]
  <2>1. disk[k] \in Files /\ "log" \in InstallNames /\ "log" \notin Zones
    BY FilesAre DEF InstallNames, Zones
  <2> QED
    BY <1>1, <2>1, InstalledIs
<1>4. ~b.torn /\ x.log = b.log
  BY <1>1, <1>2, <1>3 DEF LogAfter
<1>5. Present(b.zones)
  BY <1>1, <1>2, <1>4 DEF InstallSound, BundleSound
<1>6. \A z \in Zones : z \in InstallNames \ ToSet(job.todo)
  BY <1>2 DEF Zones, InstallNames
<1>7. \A z \in Zones : x.zones[z] = b.zones[z]
  BY <1>1, <1>2, <1>3, <1>5, <1>6 DEF InstallSound, Present
<1>8. x.snap = b.did /\ x.manifest = b.manifest
  BY <1>1, <1>2, <1>3 DEF InstallSound, InstallNames
<1> QED
  BY <1>4, <1>7, <1>8

\* A bundle is whole when its log is there: the files are the bundle's.
LEMMA InstallIsSound == ASSUME EditionsTyped, SoundInv, InstallFile PROVE SoundInv'
<1>1. PICK k \in Keystores, b \in Bundle, f \in InstallNames, x \in Files :
           Installs(k, b, f, x) /\ BundleOK(b)
  BY InstallFileIs
<1>2. /\ k = job.who /\ b = job.bundle /\ f = Head(job.todo) /\ job \in InstallJob
      /\ disk' = [disk EXCEPT ![k] = x]
      /\ UNCHANGED <<drafts, bundles>> /\ job.step = "install"
  BY <1>1 DEF Installs, InstallJob
<1>3. InstallSound
  BY <1>2 DEF SoundInv, JobSound
<1>4. disk[k] \in Files /\ disk \in [Keystores -> Files]
  BY FilesAre DEF EditionsTyped, DiskOK
<1>5. /\ x.snap = IF f = "snap" THEN b.did ELSE disk[k].snap
      /\ x.manifest = IF f = "manifest" THEN b.manifest ELSE disk[k].manifest
      /\ x.log = IF f = "log" THEN LogAfter(disk[k], b) ELSE disk[k].log
      /\ \A z \in Zones : x.zones[z] =
            IF f = z /\ b.zones[z].seal # None THEN b.zones[z] ELSE disk[k].zones[z]
  BY <1>1, <1>4, InstalledIs DEF Installs
<1>6. (\A o \in Keystores : bundles[o] # NoBundle => BundleSound(drafts, bundles[o]))'
  BY <1>2, BundlesStaySound
<1>7. \A o \in Keystores : ~HalfWritten(o)
  BY <1>2 DEF HalfWritten
<1>8. ASSUME NEW o \in Keystores, o # k PROVE FilesSound(o)'
  <2>1. disk'[o] = disk[o]
    BY <1>2, <1>4, <1>8
  <2>2. (o \in torn => o \in torn') /\ (o \in died => o \in died')
    BY <1>1, <1>8 DEF Installs
  <2> QED
    BY <1>2, <1>7, <2>1, <2>2, FileStays DEF SoundInv
<1>9. CASE f # "log"
  <2>1. /\ job' \in InstallJob /\ job'.who = k /\ job'.bundle = b
        /\ job'.todo = Tail(job.todo) /\ torn' = torn /\ k \in torn
        /\ ToSet(job.todo) = {f} \cup ToSet(job'.todo)
    BY <1>1, <1>2, <1>3, <1>9, OneInstallLess DEF Installs, InstallJob, InstallSound
  <2>2. FilesSound(k)'
    BY <2>1 DEF FilesSound
  <2>3. BundleSound(drafts', b)
    BY <1>2, <1>3 DEF InstallSound
  <2>4. disk'[k] = x
    BY <1>2, <1>4
  <2>5. ASSUME NEW g \in InstallNames \ ToSet(job'.todo)
        PROVE  g = f \/ g \in InstallNames \ ToSet(job.todo)
    BY <2>1
  <2>6. ASSUME NEW z \in Zones, z \in InstallNames \ ToSet(job'.todo),
               b.zones[z].seal # None
        PROVE  x.zones[z] = b.zones[z]
    BY <1>2, <1>3, <1>5, <2>5, <2>6 DEF InstallSound
  <2>7. /\ "snap" \in InstallNames \ ToSet(job'.todo) => x.snap = b.did
        /\ "manifest" \in InstallNames \ ToSet(job'.todo) => x.manifest = b.manifest
    BY <1>2, <1>3, <1>5, <2>5 DEF InstallSound
  <2>8. InstallSound'
    BY <2>1, <2>3, <2>4, <2>6, <2>7 DEF InstallSound
  <2>9. JobSound'
    BY <2>1, <2>8 DEF JobSound, InstallJob
  <2> QED
    BY <1>6, <1>8, <2>2, <2>9 DEF SoundInv
<1>10. CASE f = "log"
  <2>1. /\ job' = Idle
        /\ torn' = IF b.torn \/ (b.log = <<>> /\ disk[k].log # <<>>)
                   THEN torn ELSE torn \ {k}
        /\ died' = IF b.died THEN died \cup {k} ELSE died \ {k}
        /\ ToSet(job.todo) = {"log"} /\ k \in torn
    BY <1>1, <1>2, <1>3, <1>10, OneInstallLess DEF Installs, InstallJob, InstallSound
  <2>2. FilesSound(k)'
    <3> SUFFICES ASSUME k \notin torn' PROVE FilesSound(k)'
      BY DEF FilesSound
    <3>1. /\ ~b.torn /\ x.log = b.log /\ x.snap = b.did /\ x.manifest = b.manifest
          /\ \A z \in Zones : x.zones[z] = b.zones[z]
      BY <1>1, <1>10, InstalledWhole
    <3>2. Present(b.zones) /\ \A z \in Zones : RefsIn(b.zones[z].doc, b.log)
      BY <1>2, <1>3, <3>1 DEF InstallSound, BundleSound
    <3>3. disk'[k] = x
      BY <1>2, <1>4
    <3>4. k \notin died' => ~b.died
      BY <2>1
    <3>5. ~b.died => Matches(x.zones, x.snap, x.log, drafts[x.manifest])
      BY <1>2, <1>3, <3>1 DEF InstallSound, BundleSound, Matches
    <3>6. Present(x.zones) /\ \A z \in Zones : RefsIn(x.zones[z].doc, x.log)
      BY <3>1, <3>2 DEF Present
    <3> QED
      BY <1>2, <3>3, <3>4, <3>5, <3>6 DEF FilesSound
  <2>3. JobSound'
    BY <2>1 DEF JobSound, Idle
  <2> QED
    BY <1>6, <1>8, <2>2, <2>3 DEF SoundInv
<1> QED
  BY <1>9, <1>10

\* A death leaves the files as they are, and its keystore is known to have seen one.
LEMMA DeathIsSound == ASSUME EditionsTyped, SoundInv, Die PROVE SoundInv'
<1>1. /\ job' = Idle /\ UNCHANGED <<disk, drafts, bundles, torn>>
      /\ died' = IF job.step = "manifest" \/ (job.step = "zones" /\ job.touched)
                 THEN died \cup {job.who} ELSE died
  BY DEF Die
<1>2. \A k \in Keystores : HalfWritten(k) => k \in died'
  BY <1>1 DEF HalfWritten
<1>3. \A k \in Keystores : k \in died => k \in died'
  BY <1>1
<1>4. JobSound'
  BY <1>1 DEF JobSound, Idle
<1> QED
  BY <1>1, <1>2, <1>3, <1>4, SoundAside

\* No step makes files disagree unnoticed.
LEMMA SoundStep == EditionsTyped /\ SoundInv /\ [Next]_vars => SoundInv'
<1> SUFFICES ASSUME EditionsTyped, SoundInv, [Next]_vars PROVE SoundInv'
  OBVIOUS
<1>0. disk \in [Keystores -> Files] /\ Owner \in Keystores
  BY OwnerIsInstalled DEF EditionsTyped, DiskOK
<1>1. CASE Writes \/ IssueWithRewrap \/ RepinAfterRevocation
  BY <1>1, BeginsIs, EditionBegins
<1>2. CASE \/ \E a \in Agents : Grant(a) \/ Revoke(a)
           \/ FailToLoad \/ \E z \in Zones : Rotate(z)
  <2>1. /\ UNCHANGED <<disk, drafts, bundles, torn, died>>
        /\ job = Idle \/ job.step \in {"grant", "revoke"}
        /\ job' = Idle \/ job'.step \in {"grant", "revoke", "publish"}
    BY <1>2 DEF Grant, Revoke, FailToLoad, Rotate, history
  <2>2. (\A k \in Keystores : ~HalfWritten(k)) /\ JobSound'
    BY <2>1 DEF HalfWritten, Idle, JobSound
  <2> QED
    BY <2>1, <2>2, SoundAside
<1>3. CASE PublishKey
  <2>1. PICK z \in Zones, x \in Files :
              /\ x = [disk[Owner] EXCEPT !.did = [@ EXCEPT ![z] = seeds[z]]]
              /\ disk' = [disk EXCEPT ![Owner] = x] /\ job' = Idle
    BY <1>3, PublishIs
  <2>2. \A o \in Keystores :
           /\ disk'[o].zones = disk[o].zones /\ disk'[o].snap = disk[o].snap
           /\ disk'[o].log = disk[o].log /\ disk'[o].manifest = disk[o].manifest
    BY <1>0, <2>1 DEF Files
  <2>3. job.step = "publish" /\ UNCHANGED <<drafts, bundles, torn, died>>
    BY <1>3 DEF PublishKey, history
  <2>4. (\A k \in Keystores : ~HalfWritten(k)) /\ JobSound'
    BY <2>1, <2>3 DEF HalfWritten, Idle, JobSound
  <2> QED
    BY <2>2, <2>3, <2>4, SoundAside
<1>4. CASE UNCHANGED vars
  <2>1. JobSound' /\ \A k \in Keystores : HalfWritten(k) => HalfWritten(k)'
    <3>1. UNCHANGED <<job, disk, drafts, torn, died>>
      BY <1>4 DEF vars, history
    <3> QED
      BY <3>1 DEF SoundInv, JobSound, EditionSound, InstallSound, HalfWritten
  <2> QED
    BY <1>4, <2>1, SoundAside DEF vars, history
<1> QED
  BY <1>1, <1>2, <1>3, <1>4, ZoneIsSound, SnapshotIsSound, ManifestIsSound, ArchiveIsSound,
     PackIsSound, InstallBegins, InstallIsSound, DeathIsSound DEF Next

-----------------------------------------------------------------------------
(* What the owner's verification may find *)

\* A signature fails when a key was rotated or a mandate revoked.
LEMMA SignaturesFail ==
    ASSUME KeysInv, NEW by \in {Owner} \cup DOMAIN mandates, DOMAIN mandates \subseteq Agents,
           NEW z \in Zones, NEW key, key \in 1 .. seeds[z],
           ~Signed(Owner, by, z, key, disk[Owner].did)
    PROVE  seeds # FirstKeys \/ revoked # {}
<1>1. \A y \in Zones : disk[Owner].did[y] \in 1 .. seeds[y]
  BY DEF KeysInv, Known, Keystores
<1>2. CASE by = Owner
  <2>1. key # disk[Owner].did[z]
    BY <1>2 DEF Signed
  <2>2. seeds[z] = 1 => key = 1 /\ disk[Owner].did[z] = 1
    BY <1>1
  <2> QED
    BY <2>1, <2>2 DEF FirstKeys
<1>3. CASE by # Owner
  <2>1. by \in DOMAIN mandates /\ SphereOf[by] \in Zones
    BY <1>3, EditionsAssumption
  <2>2. mandates[by] # disk[Owner].did[SphereOf[by]] \/ by \in revoked
    BY <1>3, <2>1 DEF Signed, Resolves
  <2>3. mandates[by] \in 1 .. seeds[SphereOf[by]]
    BY <2>1 DEF KeysInv
  <2>4. seeds[SphereOf[by]] = 1 =>
           mandates[by] = 1 /\ disk[Owner].did[SphereOf[by]] = 1
    BY <1>1, <2>1, <2>3
  <2> QED
    BY <2>1, <2>2, <2>4 DEF FirstKeys
<1> QED
  BY <1>2, <1>3

\* The edition before is another one only when an agent counted the version again.
LEMMA ChainsFail ==
    ASSUME EditionsTyped, DraftsInv,
           Manifest(Owner).supersedes \in DOMAIN disk[Owner].history,
           disk[Owner].history[Manifest(Owner).supersedes] # Manifest(Owner).prev
    PROVE  Collision
<1>1. PICK i \in DOMAIN drafts : i = disk[Owner].manifest /\ Manifest(Owner) = drafts[i]
  BY OwnerIsInstalled, ManifestIs DEF Manifest
<1>2. PICK v : v = drafts[i].supersedes
  OBVIOUS
<1>3. PICK j : j = disk[Owner].history[v]
  OBVIOUS
<1>4. v \in 1 .. Len(drafts) /\ j \in DOMAIN drafts /\ drafts[j].version = v
  BY <1>1, <1>2, <1>3, OwnerIsInstalled DEF EditionsTyped, DiskOK, DraftsInv
<1>5. drafts[i].prev # None
  BY <1>1, <1>2, <1>4 DEF DraftsInv, None
<1>6. drafts[i].prev \in DOMAIN drafts
  <2>1. drafts[i].prev \in 0 .. i - 1 /\ DOMAIN drafts = 1 .. Len(drafts)
          /\ Len(drafts) \in Nat /\ i \in 1 .. Len(drafts)
    BY DEF DraftsInv, EditionsTyped
  <2> QED
    BY <1>5, <2>1 DEF None
<1>7. drafts[drafts[i].prev].version = v /\ j # drafts[i].prev
  BY <1>1, <1>2, <1>3, <1>5 DEF DraftsInv
<1> QED
  BY <1>4, <1>6, <1>7 DEF Collision

\* The checks of verifyEthos that may fail on files that agree.
LEMMA EditionVerifies ==
    ASSUME EditionsTyped, KeysInv, DraftsInv, SoundInv, Quiet(Owner), Owner \notin died
    PROVE  VerifyErrors \subseteq
              (IF seeds # FirstKeys \/ revoked # {} THEN {"signature"} ELSE {})
              \cup (IF \E z \in Private : seeds[z] # 1 THEN {"open"} ELSE {})
              \cup (IF seeds["self"] # 1 THEN {"log"} ELSE {})
              \cup (IF Collision THEN {"chain"} ELSE {})
<1> DEFINE d == disk[Owner]
           m == Manifest(Owner)
           Fails(check, z) ==
            CASE check = "open" -> ~Opens(Owner, z)
              [] check = "content" ->
                    Opens(Owner, z) /\ d.zones[z].seal # m.zones[z].seal
              [] check = "signature" ->
                    ~Signed(Owner, m.zones[z].by, z, m.zones[z].key, d.did)
              [] check = "entry" ->
                    LogOpens /\ Opens(Owner, z) /\ \E s \in DOMAIN d.zones[z].doc :
                        d.zones[z].doc[s].ref \notin ToSet(d.log)
<1>1. VerifyErrors =
        {c \in {"open", "content", "signature", "entry"} : \E z \in Zones : Fails(c, z)}
        \cup (IF d.snap # m.did THEN {"did"} ELSE {})
        \cup (IF ~Signed(Owner, m.by, "public", m.key, d.did) THEN {"signature"} ELSE {})
        \cup (IF LogOpens THEN {} ELSE {"log"})
        \cup (IF LogOpens /\ (m.head # GammaHead(Owner) \/ m.count # Len(d.log))
              THEN {"anchor"} ELSE {})
        \cup (IF m.supersedes \in DOMAIN d.history /\ d.history[m.supersedes] # m.prev
              THEN {"chain"} ELSE {})
  BY DEF VerifyErrors
<1>2. Owner \in Keystores /\ disk[Owner].manifest \in DOMAIN drafts /\ Owner \notin torn
        /\ ~HalfWritten(Owner) /\ Installed(Owner) /\ DOMAIN mandates \subseteq Agents
  BY OwnerIsInstalled, ManifestIs DEF Quiet, HalfWritten, Idle, EditionsTyped
<1>3. Matches(d.zones, d.snap, d.log, m) /\ \A z \in Zones : RefsIn(d.zones[z].doc, d.log)
  BY <1>2 DEF SoundInv, FilesSound, Manifest
<1>4. /\ m.key \in 1 .. seeds["public"] /\ m.by \in {Owner} \cup DOMAIN mandates
      /\ \A z \in Zones : /\ m.zones[z].key \in 1 .. seeds[z]
                          /\ m.zones[z].kex \in 1 .. seeds[z]
                          /\ m.zones[z].by \in {Owner} \cup DOMAIN mandates
  BY <1>2 DEF KeysInv, DraftsInv, Manifest
<1>5. \A z \in Zones : ~Fails("content", z) /\ ~Fails("entry", z)
  BY <1>3 DEF Matches, RefsIn
<1>6. ASSUME NEW z \in Zones, Fails("open", z) PROVE z \in Private /\ seeds[z] # 1
  <2>1. z # "public" /\ m.zones[z].kex # seeds[z]
    BY <1>3, <1>6 DEF Opens, Matches
  <2>2. seeds[z] = 1 => m.zones[z].kex = 1
    BY <1>4
  <2> QED
    BY <2>1, <2>2 DEF Private
<1>7. ASSUME NEW z \in Zones, Fails("signature", z)
      PROVE  seeds # FirstKeys \/ revoked # {}
  BY <1>2, <1>4, <1>7, SignaturesFail
<1>8. ~Signed(Owner, m.by, "public", m.key, d.did) => seeds # FirstKeys \/ revoked # {}
  <2>1. "public" \in Zones
    BY DEF Zones
  <2> QED
    BY <1>2, <1>4, <2>1, SignaturesFail
<1>9. d.snap = m.did /\ m.head = GammaHead(Owner) /\ m.count = Len(d.log)
  BY <1>3 DEF Matches, GammaHead
<1>10. m.supersedes \in DOMAIN d.history /\ d.history[m.supersedes] # m.prev => Collision
  BY ChainsFail
<1>11. seeds["self"] = 1 => LogOpens
  <2> SUFFICES ASSUME seeds["self"] = 1, NEW e \in ToSet(disk[Owner].log)
               PROVE  entries[e].self = 1
    BY DEF LogOpens
  <2>1. e \in DOMAIN entries
    BY <1>2 DEF ToSet, EditionsTyped, DiskOK
  <2> QED
    BY <2>1 DEF KeysInv
<1> HIDE DEF Fails, m, d
<1> QED
  BY <1>1, <1>5, <1>6, <1>7, <1>8, <1>9, <1>10, <1>11

\* An edition that nobody died on and that was installed whole verifies, but for a
\* key rotated, a mandate revoked, or a version counted twice since.  The log does not
\* open again once the self key was rotated.
THEOREM EditionsKeepVerifying == Spec => []VerifiesUnlessExplained
<1>1. Init => EditionsTyped /\ KeysInv /\ DraftsInv /\ SoundInv
  BY TypedInit, KeysInit, DraftsInit, SoundInit
<1>2. EditionsTyped /\ KeysInv /\ DraftsInv /\ SoundInv /\ [Next]_vars
         => EditionsTyped' /\ KeysInv' /\ DraftsInv' /\ SoundInv'
  BY TypedStep, KeysStep, DraftsStep, SoundStep
<1>3. EditionsTyped /\ KeysInv /\ DraftsInv /\ SoundInv => VerifiesUnlessExplained
  BY EditionVerifies DEF VerifiesUnlessExplained
<1> QED
  BY <1>1, <1>2, <1>3, PTL DEF Spec

-----------------------------------------------------------------------------
(* Replaying a log *)

\* What an entry makes of the document of a zone.
Counted(built, e, z, without, doc) ==
    IF ZoneOf[built[e].section] = z /\ e \notin without THEN Apply(doc, built[e], e) ELSE doc

\* One entry of a replay.
ReplayStep(built, log, z, without, doc, n) == Counted(built, log[n], z, without, doc)

\* f is the replay of the first m entries of the log, one by one.
IsReplay(built, log, z, without, m, f) ==
    f = [n \in 0 .. m |->
            IF n = 0 THEN Empty ELSE ReplayStep(built, log, z, without, f[n - 1], n)]

\* A set of numbers that is not empty has a least one.
LEMMA LeastOf ==
    ASSUME NEW T \in SUBSET Nat, T # {}
    PROVE  \E n \in T : n - 1 \notin T
<1> DEFINE R == {ss \in Nat \X Nat : ss[1] < ss[2]}
<1>1. IsWellFoundedOn(R, Nat)
  BY NatLessThanWellFounded DEF OpToRel
<1>2. PICK n \in T : \A m \in T : ~(<<m, n>> \in R)
  <2> HIDE DEF R
  <2> QED
    BY <1>1, WFMin
<1>3. ASSUME n - 1 \in T PROVE FALSE
  <2>1. n \in Nat /\ n - 1 \in Nat /\ n - 1 < n
    BY <1>3
  <2>2. <<n - 1, n>> \in R
    BY <2>1
  <2> HIDE DEF R
  <2> QED
    BY <1>2, <1>3, <2>2
<1> QED
  BY <1>3

\* A log of any length has a replay: the least length without one would be one longer
\* than a length with one.
LEMMA ReplayExists ==
    ASSUME NEW built, NEW log, NEW z, NEW without, NEW m \in Nat
    PROVE  \E f : IsReplay(built, log, z, without, m, f)
<1> DEFINE Good(n) == \E f : IsReplay(built, log, z, without, n, f)
           Bad == {n \in Nat : ~Good(n)}
<1>1. Good(0)
  <2>1. IsReplay(built, log, z, without, 0, [n \in 0 .. 0 |-> Empty])
    BY DEF IsReplay
  <2> QED
    BY <2>1
<1>2. ASSUME NEW n \in Nat \ {0}, Good(n - 1) PROVE Good(n)
  <2>1. PICK f : IsReplay(built, log, z, without, n - 1, f)
    BY <1>2
  <2> DEFINE last == ReplayStep(built, log, z, without, f[n - 1], n)
             g == [i \in 0 .. n |-> IF i = n THEN last ELSE f[i]]
  <2>2. \A i \in 0 .. n - 1 : g[i] = f[i] /\ f[i] =
            IF i = 0 THEN Empty ELSE ReplayStep(built, log, z, without, f[i - 1], i)
    <3> HIDE DEF last
    <3> QED
      BY <2>1 DEF IsReplay
  <2>3. \A i \in 0 .. n : g[i] =
            IF i = 0 THEN Empty ELSE ReplayStep(built, log, z, without, g[i - 1], i)
    <3> SUFFICES ASSUME NEW i \in 0 .. n
                 PROVE  g[i] = IF i = 0 THEN Empty
                               ELSE ReplayStep(built, log, z, without, g[i - 1], i)
      OBVIOUS
    <3>1. i # 0 => i - 1 \in 0 .. n - 1
      OBVIOUS
    <3>2. i # n => i \in 0 .. n - 1
      OBVIOUS
    <3>3. g[n] = last /\ n # 0 /\ n - 1 \in 0 .. n - 1
      OBVIOUS
    <3> HIDE DEF g
    <3> QED
      BY <2>2, <3>1, <3>2, <3>3
  <2>4. IsReplay(built, log, z, without, n, g)
    <3>1. g = [i \in 0 .. n |-> g[i]]
      OBVIOUS
    <3> HIDE DEF g
    <3> QED
      BY <2>3, <3>1 DEF IsReplay
  <2> QED
    BY <2>4
<1>3. ASSUME Bad # {} PROVE FALSE
  <2>1. PICK n \in Bad : n - 1 \notin Bad
    <3> HIDE DEF Good
    <3> QED
      BY <1>3, LeastOf
  <2>2. n \in Nat /\ n # 0
    <3> HIDE DEF Good
    <3> QED
      BY <1>1, <2>1
  <2> HIDE DEF Good
  <2>3. Good(n - 1)
    BY <2>1, <2>2
  <2> QED
    BY <1>2, <2>1, <2>2, <2>3
<1> HIDE DEF Good
<1>4. Good(m)
  BY <1>3
<1> QED
  BY <1>4 DEF Good

\* A replay, entry by entry.
LEMMA ReplayUnfolds ==
    ASSUME NEW built, NEW log, NEW z, NEW without, NEW m \in Nat, NEW f,
           IsReplay(built, log, z, without, m, f)
    PROVE  /\ f[0] = Empty
           /\ \A n \in 1 .. m : f[n] = ReplayStep(built, log, z, without, f[n - 1], n)
<1>1. \A n \in 0 .. m : f[n] =
         IF n = 0 THEN Empty ELSE ReplayStep(built, log, z, without, f[n - 1], n)
  BY DEF IsReplay
<1> QED
  BY <1>1

\* It has only one: two would differ first at some entry, and what that entry is
\* applied to is the same.
LEMMA ReplayUnique ==
    ASSUME NEW built, NEW log, NEW z, NEW without, NEW m \in Nat, NEW f, NEW g,
           IsReplay(built, log, z, without, m, f), IsReplay(built, log, z, without, m, g)
    PROVE  f = g
<1> DEFINE Bad == {n \in 0 .. m : f[n] # g[n]}
<1>1. /\ f[0] = Empty
      /\ \A n \in 1 .. m : f[n] = ReplayStep(built, log, z, without, f[n - 1], n)
  BY ReplayUnfolds
<1>0. /\ g[0] = Empty
      /\ \A n \in 1 .. m : g[n] = ReplayStep(built, log, z, without, g[n - 1], n)
  BY ReplayUnfolds
<1>2. ASSUME Bad # {} PROVE FALSE
  <2>1. Bad \in SUBSET Nat
    OBVIOUS
  <2>2. PICK n \in Bad : n - 1 \notin Bad
    <3> HIDE DEF Bad
    <3> QED
      BY <1>2, <2>1, LeastOf
  <2>3. n \in 1 .. m /\ f[n - 1] = g[n - 1]
    BY <1>0, <1>1, <2>2
  <2> QED
    BY <1>0, <1>1, <2>2, <2>3
<1>3. \A n \in 0 .. m : f[n] = g[n]
  BY <1>2
<1>4. f = [n \in 0 .. m |-> f[n]]
  BY DEF IsReplay
<1>5. g = [n \in 0 .. m |-> g[n]]
  BY DEF IsReplay
<1> HIDE DEF Bad
<1> QED
  BY <1>3, <1>4, <1>5

\* The recursive function of the model computes that replay.
LEMMA ReplayIs ==
    ASSUME NEW built, NEW log \in Seq(Nat), NEW z, NEW without, NEW f,
           IsReplay(built, log, z, without, Len(log), f)
    PROVE  Replayed(built, log, z, without) = f[Len(log)]
<1> DEFINE F == CHOOSE h : IsReplay(built, log, z, without, Len(log), h)
<1>1. Replayed(built, log, z, without) = F[Len(log)]
  BY DEF Replayed, IsReplay, ReplayStep, Counted
<1>2. IsReplay(built, log, z, without, Len(log), F)
  BY Zenon
<1>3. F = f
  <2> HIDE DEF F
  <2> QED
    BY <1>2, ReplayUnique
<1> QED
  BY <1>1, <1>3

\* Nothing makes of the empty document anything.
LEMMA ReplayEmpty ==
    ASSUME NEW built, NEW z, NEW without
    PROVE  Replayed(built, <<>>, z, without) = Empty
<1>1. <<>> \in Seq(Nat) /\ Len(<<>>) = 0
  OBVIOUS
<1>2. PICK f : IsReplay(built, <<>>, z, without, 0, f)
  BY ReplayExists
<1>3. f[0] = Empty
  BY <1>2 DEF IsReplay
<1> QED
  BY <1>1, <1>2, <1>3, ReplayIs

\* The entries of the log that are of the zone are the same ones.
SameEntries(b1, b2, log, z, w1, w2) ==
    \A i \in DOMAIN log :
        /\ b1[log[i]] = b2[log[i]]
        /\ ZoneOf[b1[log[i]].section] = z => (log[i] \in w1 <=> log[i] \in w2)

\* Only those count.
LEMMA ReplaySame ==
    ASSUME NEW b1, NEW b2, NEW log \in Seq(Nat), NEW z, NEW w1, NEW w2,
           SameEntries(b1, b2, log, z, w1, w2)
    PROVE  Replayed(b1, log, z, w1) = Replayed(b2, log, z, w2)
<1>0. Len(log) \in Nat
  OBVIOUS
<1>1. PICK f : IsReplay(b1, log, z, w1, Len(log), f)
  BY <1>0, ReplayExists
<1>2. \A n \in 1 .. Len(log) : \A doc :
         ReplayStep(b1, log, z, w1, doc, n) = ReplayStep(b2, log, z, w2, doc, n)
  BY DEF ReplayStep, Counted, SameEntries
<1>3. \A n \in 0 .. Len(log) :
        (IF n = 0 THEN Empty ELSE ReplayStep(b1, log, z, w1, f[n - 1], n))
          = IF n = 0 THEN Empty ELSE ReplayStep(b2, log, z, w2, f[n - 1], n)
  BY <1>2
<1>4. IsReplay(b2, log, z, w2, Len(log), f)
  BY <1>1, <1>3 DEF IsReplay
<1> QED
  BY <1>1, <1>4, ReplayIs

\* The last entry counts on what the others have made.
LEMMA ReplayAppend ==
    ASSUME NEW built, NEW log \in Seq(Nat), NEW e \in Nat, NEW z, NEW w
    PROVE  Replayed(built, Append(log, e), z, w) =
              Counted(built, e, z, w, Replayed(built, log, z, w))
<1> DEFINE n == Len(log)
           longer == Append(log, e)
<1>1. longer \in Seq(Nat) /\ Len(longer) = n + 1 /\ n \in Nat /\ n + 1 \in Nat /\ longer[n + 1] = e
        /\ \A i \in 1 .. n : longer[i] = log[i]
  OBVIOUS
<1>2. PICK g : IsReplay(built, longer, z, w, n + 1, g)
  <2> HIDE DEF n, longer
  <2> QED
    BY <1>1, ReplayExists
<1>3. Replayed(built, longer, z, w) = g[n + 1]
  BY <1>1, <1>2, ReplayIs
<1> DEFINE f == [i \in 0 .. n |-> g[i]]
<1> HIDE DEF longer
<1>4. /\ g[0] = Empty
      /\ \A i \in 1 .. n + 1 : g[i] = ReplayStep(built, longer, z, w, g[i - 1], i)
  BY <1>2 DEF IsReplay
<1>5. \A i \in 1 .. n : \A doc :
         ReplayStep(built, longer, z, w, doc, i) = ReplayStep(built, log, z, w, doc, i)
  BY <1>1 DEF ReplayStep
<1>6. \A i \in 0 .. n : f[i] =
         IF i = 0 THEN Empty ELSE ReplayStep(built, log, z, w, f[i - 1], i)
  BY <1>4, <1>5
<1>7. IsReplay(built, log, z, w, n, f)
  <2> HIDE DEF f
  <2>1. f = [i \in 0 .. n |-> f[i]]
    BY DEF f
  <2> QED
    BY <1>6, <2>1 DEF IsReplay
<1>8. Replayed(built, log, z, w) = f[n] /\ f[n] = g[n]
  BY <1>7, ReplayIs
<1>9. g[n + 1] = Counted(built, e, z, w, g[n])
  BY <1>1, <1>4 DEF ReplayStep
<1> QED
  BY <1>3, <1>8, <1>9 DEF longer

-----------------------------------------------------------------------------
(* Documents and logs *)

\* The entry at work, until the file of its zone is written.
Unwritten ==
    IF job.step = "zones" /\ job.entry # None
          /\ ZoneOf[entries[job.entry].section] \in ToSet(job.todo)
    THEN {job.entry} ELSE {}

\* The documents are what the log makes of the empty ones.
Recounts(built, zones, log, without) ==
    \A z \in Zones : zones[z].doc = Replayed(built, log, z, without)

\* The documents that a command will write, and the bundle that it installs; the
\* entry of the command is in no other log.
JobRecounts ==
    /\ job.step = "install" /\ ~job.bundle.torn =>
          Recounts(entries, job.bundle.zones, job.bundle.log, lost)
    /\ job.step = "zones" =>
          /\ job.who \notin torn =>
                \A z \in Loaded(job.who) :
                    job.docs[z] = Replayed(entries, disk[job.who].log, z, lost)
          /\ job.entry # None =>
                /\ \A o \in Keystores \ {job.who} : job.entry \notin ToSet(disk[o].log)
                /\ \A o \in Keystores :
                      bundles[o] # NoBundle => job.entry \notin ToSet(bundles[o].log)

\* The documents are what the logs make of the empty ones, in keystores that are not
\* torn, in bundles and in what the command at work will write.
ReplayInv ==
    /\ \A k \in Keystores : k \notin torn =>
          Recounts(entries, disk[k].zones, disk[k].log, lost \cup Unwritten)
    /\ \A k \in Keystores : bundles[k] # NoBundle /\ ~bundles[k].torn =>
          Recounts(entries, bundles[k].zones, bundles[k].log, lost \cup Unwritten)
    /\ JobRecounts

\* At first there is nothing to replay.
LEMMA ReplayInit == Init => ReplayInv
<1> SUFFICES ASSUME Init PROVE ReplayInv
  OBVIOUS
<1>1. job.step = "idle" /\ \A k \in Keystores : bundles[k] = NoBundle
  BY DEF Init, Idle
<1>2. \A k \in Keystores : disk[k].log = <<>> /\ \A z \in Zones : disk[k].zones[z].doc = Empty
  BY DEF Init, NoFile
<1>3. \A k \in Keystores :
         Recounts(entries, disk[k].zones, disk[k].log, lost \cup Unwritten)
  BY <1>2, ReplayEmpty DEF Recounts
<1> QED
  BY <1>1, <1>3 DEF ReplayInv, JobRecounts

\* A log makes the same documents when its entries are the same, and as lost.
LEMMA RecountsSame ==
    ASSUME NEW zones, NEW log \in Seq(Nat), NEW b1, NEW b2, NEW w1, NEW w2,
           \A i \in DOMAIN log : b1[log[i]] = b2[log[i]]
                                   /\ (log[i] \in w1 <=> log[i] \in w2),
           Recounts(b1, zones, log, w1)
    PROVE  Recounts(b2, zones, log, w2)
<1>1. ASSUME NEW z \in Zones PROVE Replayed(b1, log, z, w1) = Replayed(b2, log, z, w2)
  <2>1. SameEntries(b1, b2, log, z, w1, w2)
    BY DEF SameEntries
  <2> QED
    BY <2>1, ReplaySame
<1> QED
  BY <1>1 DEF Recounts

\* A step that changes no document and no log.
LEMMA ReplayAside ==
    ASSUME ReplayInv, UNCHANGED entries,
           lost' \cup Unwritten' = lost \cup Unwritten,
           \A k \in Keystores :
              /\ disk'[k].zones = disk[k].zones /\ disk'[k].log = disk[k].log
              /\ k \in torn => k \in torn'
              /\ \/ bundles'[k] = bundles[k]
                 \/ ~bundles'[k].torn =>
                       Recounts(entries, bundles'[k].zones, bundles'[k].log,
                                lost \cup Unwritten),
           JobRecounts'
    PROVE  ReplayInv'
<1>1. PICK w : w = lost \cup Unwritten
  OBVIOUS
<1>2. \A k \in Keystores : k \notin torn' => Recounts(entries', disk'[k].zones, disk'[k].log, w)
  BY <1>1 DEF ReplayInv
<1>3. \A k \in Keystores : bundles'[k] # NoBundle /\ ~bundles'[k].torn =>
          Recounts(entries', bundles'[k].zones, bundles'[k].log, w)
  BY <1>1 DEF ReplayInv
<1> QED
  BY <1>1, <1>2, <1>3 DEF ReplayInv

\* Logs have only entries that are built.
LEMMA LogsAre ==
    ASSUME EditionsTyped
    PROVE  /\ \A k \in Keystores :
                 /\ disk[k].log \in Seq(Nat)
                 /\ \A i \in DOMAIN disk[k].log : disk[k].log[i] \in 1 .. Len(entries)
                 /\ bundles[k] # NoBundle =>
                       /\ bundles[k].log \in Seq(Nat)
                       /\ \A i \in DOMAIN bundles[k].log :
                             bundles[k].log[i] \in 1 .. Len(entries)
           /\ Len(entries) \in Nat /\ lost \subseteq 1 .. Len(entries)
<1>1. ASSUME NEW k \in Keystores
      PROVE  /\ disk[k].log \in Seq(Nat)
             /\ \A i \in DOMAIN disk[k].log : disk[k].log[i] \in 1 .. Len(entries)
  BY FilesAre DEF Files
<1>2. ASSUME NEW k \in Keystores, bundles[k] # NoBundle
      PROVE  /\ bundles[k].log \in Seq(Nat)
             /\ \A i \in DOMAIN bundles[k].log : bundles[k].log[i] \in 1 .. Len(entries)
  <2>1. BundleOK(bundles[k])
    BY <1>2 DEF EditionsTyped, BundlesOK
  <2> QED
    BY <2>1 DEF BundleOK, Bundle
<1>3. Len(entries) \in Nat /\ lost \subseteq 1 .. Len(entries)
  BY DEF EditionsTyped
<1> QED
  BY <1>1, <1>2, <1>3

\* An entry is appended, and what it makes of its zone is to be written.
LEMMA ReplayGrows ==
    ASSUME EditionsTyped, ReplayInv, NEW k \in Keystores, NEW docs \in [Zones -> Doc],
           NEW log \in Seq(Nat), NEW readers \in SUBSET Keystores, NEW entry \in Nat,
           NEW drops \in SUBSET Agents, Begins(k, docs, log, readers, entry, drops),
           NEW r \in Entries, entry = Len(entries) + 1, ZoneOf[r.section] \in Loaded(k),
           docs = [Docs(k) EXCEPT ![ZoneOf[r.section]] = Apply(@, r, entry)],
           log = Append(disk[k].log, entry), entries' = Append(entries, r)
    PROVE  ReplayInv'
<1>1. /\ \A o \in Keystores :
            /\ disk'[o].log = IF o = k THEN log ELSE disk[o].log
            /\ disk'[o].zones = disk[o].zones
      /\ job' = [step |-> "zones", who |-> k, docs |-> docs, entry |-> entry,
                 todo |-> ZoneFiles(k), drops |-> drops, touched |-> entry # None]
      /\ ToSet(job'.todo) = Loaded(k) /\ Loaded(k) \subseteq Zones
  <2>1. \A o \in Keystores :
            /\ disk'[o].log = IF o = k THEN log ELSE disk[o].log
            /\ disk'[o].zones = disk[o].zones
    <3>1. Begun(k, docs, log, readers, entry, drops)
      BY BegunIs
    <3> QED
      BY <3>1 DEF Begun
  <2>2. job' = [step |-> "zones", who |-> k, docs |-> docs, entry |-> entry,
                todo |-> ZoneFiles(k), drops |-> drops, touched |-> entry # None]
    BY DEF Begins, Persist
  <2>3. ToSet(job'.todo) = Loaded(k) /\ Loaded(k) \subseteq Zones
    BY <2>2, AllFilesAtFirst
  <2> QED
    BY <2>1, <2>2, <2>3
<1>2. job.step \in {"idle", "grant", "revoke"} /\ UNCHANGED <<bundles, torn, lost>>
  BY DEF Begins, history
<1>3. Unwritten = {}
  BY <1>2 DEF Unwritten
<1>4. /\ entries'[entry] = r
      /\ \A i \in 1 .. Len(entries) : i # entry /\ entries'[i] = entries[i]
      /\ entry # None /\ entry \notin lost
  BY LogsAre DEF EditionsTyped, None
<1>5. Unwritten' = {entry}
  BY <1>1, <1>4 DEF Unwritten
<1>6. PICK old, new, w, v : /\ old = entries /\ new = entries'
                            /\ w = lost /\ v = lost \cup {entry}
  OBVIOUS
<1>7. ASSUME NEW g \in Seq(Nat), \A i \in DOMAIN g : g[i] \in 1 .. Len(entries),
             NEW z \in Zones
      PROVE  /\ Replayed(new, g, z, w) = Replayed(old, g, z, w)
             /\ Replayed(new, g, z, v) = Replayed(old, g, z, w)
  <2>1. \A i \in DOMAIN g : /\ new[g[i]] = old[g[i]]
                            /\ g[i] \in v <=> g[i] \in w
    BY <1>4, <1>6, <1>7
  <2>2. SameEntries(new, old, g, z, w, w)
    BY <2>1 DEF SameEntries
  <2>3. SameEntries(new, old, g, z, v, w)
    BY <2>1 DEF SameEntries
  <2>4. Replayed(new, g, z, w) = Replayed(old, g, z, w)
    BY <2>2, ReplaySame
  <2>5. Replayed(new, g, z, v) = Replayed(old, g, z, w)
    BY <2>3, ReplaySame
  <2> QED
    BY <2>4, <2>5
<1>log. PICK g \in Seq(Nat) : g = disk[k].log /\ \A i \in DOMAIN g : g[i] \in 1 .. Len(entries)
  BY LogsAre
<1>docs. ASSUME NEW z
      PROVE  /\ Replayed(new, log, z, v) = Replayed(new, g, z, v)
             /\ Replayed(new, log, z, w) =
                   IF ZoneOf[r.section] = z THEN Apply(Replayed(new, g, z, w), r, entry)
                   ELSE Replayed(new, g, z, w)
  <2>1. log = Append(g, entry) /\ new[entry] = r /\ entry \in v /\ entry \notin w
    BY <1>4, <1>6, <1>log
  <2>2. Replayed(new, Append(g, entry), z, v) =
           Counted(new, entry, z, v, Replayed(new, g, z, v))
    BY ReplayAppend
  <2>3. Replayed(new, Append(g, entry), z, w) =
           Counted(new, entry, z, w, Replayed(new, g, z, w))
    BY ReplayAppend
  <2> QED
    BY <2>1, <2>2, <2>3 DEF Counted
<1>8. ASSUME NEW o \in Keystores, o \notin torn, NEW z \in Zones
      PROVE  disk[o].zones[z].doc = Replayed(new, disk'[o].log, z, v)
  <2>1. PICK h : h = disk[o].log
    OBVIOUS
  <2>2. disk[o].zones[z].doc = Replayed(old, h, z, w)
    BY <1>3, <1>6, <1>8, <2>1 DEF ReplayInv, Recounts
  <2>3. h \in Seq(Nat) /\ \A i \in DOMAIN h : h[i] \in 1 .. Len(entries)
    BY <2>1, LogsAre
  <2>4. Replayed(new, h, z, v) = Replayed(old, h, z, w)
    BY <1>7, <2>3
  <2>5. CASE o # k
    BY <1>1, <2>1, <2>2, <2>4, <2>5
  <2>6. CASE o = k
    BY <1>1, <1>log, <1>docs, <2>1, <2>2, <2>4, <2>6
  <2> QED
    BY <2>5, <2>6
<1>9. ASSUME NEW o \in Keystores, bundles[o] # NoBundle, ~bundles[o].torn, NEW z \in Zones
      PROVE  bundles[o].zones[z].doc = Replayed(new, bundles[o].log, z, v)
  <2>1. PICK h : h = bundles[o].log
    OBVIOUS
  <2>2. bundles[o].zones[z].doc = Replayed(old, h, z, w)
    BY <1>3, <1>6, <1>9, <2>1 DEF ReplayInv, Recounts
  <2>3. h \in Seq(Nat) /\ \A i \in DOMAIN h : h[i] \in 1 .. Len(entries)
    BY <1>9, <2>1, LogsAre
  <2> QED
    BY <1>7, <2>1, <2>2, <2>3
<1>10. ASSUME k \notin torn, NEW z \in Loaded(k)
       PROVE  docs[z] = Replayed(new, log, z, w)
  <2>1. z \in Zones /\ Docs(k) \in [Zones -> Doc] /\ Docs(k)[z] = disk[k].zones[z].doc
    BY <1>1, DocsAre DEF EditionsTyped
  <2>2. Docs(k)[z] = Replayed(old, g, z, w)
    BY <1>3, <1>6, <1>log, <1>10, <2>1 DEF ReplayInv, Recounts
  <2>3. Docs(k)[z] = Replayed(new, g, z, w)
    BY <1>7, <1>log, <2>1, <2>2
  <2>4. docs[z] = IF ZoneOf[r.section] = z THEN Apply(Docs(k)[z], r, entry) ELSE Docs(k)[z]
    BY <2>1
  <2> QED
    BY <1>docs, <2>3, <2>4
<1>11. /\ \A o \in Keystores \ {k} : entry \notin ToSet(disk'[o].log)
       /\ \A o \in Keystores : bundles[o] # NoBundle => entry \notin ToSet(bundles[o].log)
  <2>1. ASSUME NEW h, \A i \in DOMAIN h : h[i] \in 1 .. Len(entries)
        PROVE  entry \notin ToSet(h)
    BY <1>4, <2>1 DEF ToSet
  <2>2. ASSUME NEW o \in Keystores \ {k} PROVE entry \notin ToSet(disk'[o].log)
    <3>1. disk'[o].log = disk[o].log /\ \A i \in DOMAIN disk[o].log :
                                           disk[o].log[i] \in 1 .. Len(entries)
      BY <1>1, LogsAre
    <3> QED
      BY <2>1, <3>1
  <2>3. ASSUME NEW o \in Keystores, bundles[o] # NoBundle
        PROVE  entry \notin ToSet(bundles[o].log)
    <3>1. \A i \in DOMAIN bundles[o].log : bundles[o].log[i] \in 1 .. Len(entries)
      BY <2>3, LogsAre
    <3> QED
      BY <2>1, <3>1
  <2> QED
    BY <2>2, <2>3
<1>12. JobRecounts'
  <2>1. job'.step = "zones" /\ job'.who = k /\ job'.docs = docs /\ job'.entry = entry
          /\ disk'[k].log = log
    BY <1>1
  <2> QED
    BY <1>2, <1>6, <1>10, <1>11, <2>1 DEF JobRecounts
<1>13. (\A o \in Keystores : o \notin torn =>
          Recounts(entries, disk[o].zones, disk[o].log, lost \cup Unwritten))'
  BY <1>1, <1>2, <1>5, <1>6, <1>8 DEF Recounts
<1>14. (\A o \in Keystores : bundles[o] # NoBundle /\ ~bundles[o].torn =>
          Recounts(entries, bundles[o].zones, bundles[o].log, lost \cup Unwritten))'
  BY <1>2, <1>5, <1>6, <1>9 DEF Recounts
<1> QED
  BY <1>12, <1>13, <1>14 DEF ReplayInv

\* An edition is begun.
LEMMA ReplayBegins ==
    ASSUME EditionsTyped, ReplayInv, NEW k \in Keystores, NEW docs \in [Zones -> Doc],
           NEW log \in Seq(Nat), NEW readers \in SUBSET Keystores, NEW entry \in Nat,
           NEW drops \in SUBSET Agents, Begins(k, docs, log, readers, entry, drops)
    PROVE  ReplayInv'
<1>1. CASE entry = None /\ docs = Docs(k) /\ UNCHANGED <<disk, entries>>
  <2>1. job.step \in {"idle", "grant", "revoke"} /\ UNCHANGED <<bundles, torn, lost>>
    BY DEF Begins, history
  <2>2. job'.step = "zones" /\ job'.who = k /\ job'.docs = docs /\ job'.entry = None
    BY <1>1 DEF Begins, Persist
  <2>3. Unwritten = {} /\ Unwritten' = {}
    BY <2>1, <2>2 DEF Unwritten
  <2>4. \A z \in Loaded(k) : z \in Zones /\ Docs(k)[z] = disk[k].zones[z].doc
    BY DocsAre, AllFilesAtFirst DEF EditionsTyped
  <2>5. k \notin torn => \A z \in Loaded(k) : docs[z] = Replayed(entries, disk[k].log, z, lost)
    BY <1>1, <2>3, <2>4 DEF ReplayInv, Recounts
  <2>6. JobRecounts'
    BY <1>1, <2>1, <2>2, <2>5 DEF JobRecounts
  <2> QED
    BY <1>1, <2>1, <2>3, <2>6, ReplayAside
<1>2. CASE \E r \in Entries :
             /\ entry = Len(entries) + 1 /\ ZoneOf[r.section] \in Loaded(k)
             /\ docs = [Docs(k) EXCEPT ![ZoneOf[r.section]] = Apply(@, r, entry)]
             /\ log = Append(disk[k].log, entry)
             /\ entries' = Append(entries, r)
  BY <1>2, ReplayGrows
<1> QED
  BY <1>1, <1>2 DEF Begins

\* The file of a zone is written: what counts is written with it.
LEMMA ReplayWritten == ASSUME EditionsTyped, SoundInv, ReplayInv, WriteZone PROVE ReplayInv'
<1>1. PICK k \in Keystores, z \in Zones, doc \in Doc, x \in Files :
              /\ k = job.who /\ z = Head(job.todo) /\ doc = job.docs[z]
              /\ x = [disk[k] EXCEPT !.zones =
                         [@ EXCEPT ![z] = [seal |-> Len(drafts), doc |-> doc]]]
              /\ disk' = [disk EXCEPT ![k] = x]
              /\ job' \in PersistJob /\ job'.step = "zones" /\ job'.who = k
              /\ job'.docs = job.docs /\ job'.entry = job.entry /\ job'.drops = job.drops
              /\ job'.todo = Tail(job.todo) /\ job'.touched
              /\ z \notin ToSet(job'.todo) /\ ToSet(job.todo) = {z} \cup ToSet(job'.todo)
  BY WriteZoneIs
<1>2. EditionSound /\ job.step = "zones"
        /\ UNCHANGED <<entries, bundles, torn, lost>>
  BY DEF WriteZone, SoundInv, JobSound, history
<1>3. disk[k] \in Files /\ disk \in [Keystores -> Files]
  BY FilesAre DEF EditionsTyped, DiskOK
<1>4. /\ \A o \in Keystores : disk'[o].log = disk[o].log
      /\ \A o \in Keystores \ {k} : disk'[o] = disk[o]
      /\ disk'[k].zones[z].doc = doc
      /\ \A y \in Zones \ {z} : disk'[k].zones[y] = disk[k].zones[y]
  BY <1>1, <1>3 DEF Files
<1>5. z \in Loaded(k)
  BY <1>1, <1>2 DEF EditionSound
<1>6. PICK es, l, w, v, e : /\ es = entries /\ l = lost /\ w = lost \cup Unwritten
                            /\ v = lost \cup Unwritten' /\ e = job.entry
  OBVIOUS
<1>7. /\ \A i : (i \in w <=> i \in v) \/ (i = e /\ e # None /\ ZoneOf[es[e].section] = z)
      /\ \A i : i \in v => i \in l \/ (i = e /\ ZoneOf[es[e].section] # z)
      /\ \A i : i \in l => i \in v
  BY <1>1, <1>2, <1>6 DEF Unwritten
<1>8. ASSUME NEW g \in Seq(Nat), e # None => e \notin ToSet(g), NEW zones,
             Recounts(es, zones, g, w)
      PROVE  Recounts(es, zones, g, v)
  <2>1. \A i \in DOMAIN g : e # None => g[i] # e
    BY <1>8 DEF ToSet
  <2>2. \A i \in DOMAIN g : es[g[i]] = es[g[i]] /\ (g[i] \in w <=> g[i] \in v)
    BY <1>7, <2>1
  <2> QED
    BY <1>8, <2>2, RecountsSame
<1>9. (\A o \in Keystores : o \notin torn =>
          Recounts(entries, disk[o].zones, disk[o].log, lost \cup Unwritten))'
  <2> SUFFICES ASSUME NEW o \in Keystores, o \notin torn
               PROVE  Recounts(es, disk'[o].zones, disk'[o].log, v)
    BY <1>2, <1>6
  <2>1. PICK g \in Seq(Nat) : g = disk[o].log /\ g = disk'[o].log
    BY <1>4, LogsAre
  <2>2. Recounts(es, disk[o].zones, g, w)
    BY <1>6, <2>1 DEF ReplayInv
  <2>3. CASE o # k
    <3>1. e # None => e \notin ToSet(g)
      BY <1>1, <1>2, <1>6, <2>1, <2>3 DEF ReplayInv, JobRecounts
    <3>2. PICK zones : zones = disk[o].zones
      OBVIOUS
    <3>3. Recounts(es, zones, g, v)
      BY <1>8, <2>2, <3>1, <3>2
    <3> QED
      BY <1>4, <2>1, <2>3, <3>2, <3>3
  <2>4. CASE o = k
    <3>1. doc = Replayed(es, g, z, l)
      BY <1>1, <1>2, <1>5, <1>6, <2>1, <2>4 DEF ReplayInv, JobRecounts
    <3>2. SameEntries(es, es, g, z, l, v)
      BY <1>7 DEF SameEntries
    <3>3. doc = Replayed(es, g, z, v)
      BY <3>1, <3>2, ReplaySame
    <3>4. ASSUME NEW y \in Zones \ {z} PROVE disk'[k].zones[y].doc = Replayed(es, g, y, v)
      <4>1. disk[k].zones[y].doc = Replayed(es, g, y, w)
        BY <2>2, <2>4 DEF Recounts
      <4>2. SameEntries(es, es, g, y, w, v)
        BY <1>7 DEF SameEntries
      <4>3. Replayed(es, g, y, w) = Replayed(es, g, y, v)
        BY <4>2, ReplaySame
      <4> QED
        BY <1>4, <4>1, <4>3
    <3> QED
      BY <1>4, <2>1, <2>4, <3>3, <3>4 DEF Recounts
  <2> QED
    BY <2>3, <2>4
<1>10. (\A o \in Keystores : bundles[o] # NoBundle /\ ~bundles[o].torn =>
          Recounts(entries, bundles[o].zones, bundles[o].log, lost \cup Unwritten))'
  <2> SUFFICES ASSUME NEW o \in Keystores, bundles[o] # NoBundle, ~bundles[o].torn
               PROVE  Recounts(es, bundles[o].zones, bundles[o].log, v)
    BY <1>2, <1>6
  <2>0. PICK g \in Seq(Nat) : g = bundles[o].log
    BY LogsAre
  <2>1. PICK zones : zones = bundles[o].zones
    OBVIOUS
  <2>2. Recounts(es, zones, g, w)
    BY <1>6, <2>0, <2>1 DEF ReplayInv
  <2>3. e # None => e \notin ToSet(g)
    BY <1>2, <1>6, <2>0 DEF ReplayInv, JobRecounts
  <2> QED
    BY <1>8, <2>0, <2>1, <2>2, <2>3
<1>11. JobRecounts'
  <2>1. /\ job'.step = "zones" /\ job'.who = job.who /\ job'.docs = job.docs
        /\ job'.entry = job.entry
    BY <1>1
  <2>2. \A o \in Keystores : disk'[o].log = disk[o].log
    BY <1>4
  <2>3. job.who \in Keystores
    BY <1>1
  <2> QED
    BY <1>2, <2>1, <2>2, <2>3 DEF ReplayInv, JobRecounts
<1> QED
  BY <1>9, <1>10, <1>11 DEF ReplayInv

\* A file of a bundle is installed: with the last one, the log, the documents are those
\* of the bundle.
LEMMA ReplayInstalled == ASSUME EditionsTyped, SoundInv, ReplayInv, InstallFile PROVE ReplayInv'
<1>1. PICK k \in Keystores, b \in Bundle, f \in InstallNames, x \in Files :
           Installs(k, b, f, x) /\ BundleOK(b)
  BY InstallFileIs
<1>2. /\ k = job.who /\ b = job.bundle /\ f = Head(job.todo) /\ job \in InstallJob
      /\ disk' = [disk EXCEPT ![k] = x]
      /\ UNCHANGED <<entries, bundles, lost>> /\ job.step = "install"
  BY <1>1 DEF Installs, InstallJob
<1>3. k \in torn /\ disk \in [Keystores -> Files]
  BY <1>2 DEF SoundInv, JobSound, InstallSound, EditionsTyped, DiskOK
<1>4. /\ job' = Idle \/ (job'.step = "install" /\ job'.bundle = b)
      /\ f # "log" => torn' = torn
      /\ torn' = torn \/ torn' = torn \ {k}
  BY <1>1 DEF Installs, InstallJob
<1>5. Unwritten = {} /\ Unwritten' = {}
  BY <1>2, <1>4 DEF Unwritten, Idle
<1>6. PICK es, w : es = entries /\ w = lost
  OBVIOUS
<1>7. ASSUME NEW o \in Keystores, o \notin torn'
      PROVE  Recounts(es, disk'[o].zones, disk'[o].log, w)
  <2>1. CASE o # k
    BY <1>2, <1>3, <1>4, <1>5, <1>6, <1>7, <2>1 DEF ReplayInv
  <2>2. CASE o = k
    <3>1. f = "log"
      BY <1>3, <1>4, <1>7, <2>2
    <3>2. ~b.torn /\ x.log = b.log /\ \A z \in Zones : x.zones[z] = b.zones[z]
      BY <1>1, <1>7, <2>2, <3>1, InstalledWhole
    <3>3. Recounts(es, b.zones, b.log, w)
      BY <1>2, <1>6, <3>2 DEF ReplayInv, JobRecounts
    <3> QED
      BY <1>2, <1>3, <2>2, <3>2, <3>3 DEF Recounts
  <2> QED
    BY <2>1, <2>2
<1>8. (\A o \in Keystores : o \notin torn =>
          Recounts(entries, disk[o].zones, disk[o].log, lost \cup Unwritten))'
  BY <1>2, <1>5, <1>6, <1>7
<1>9. (\A o \in Keystores : bundles[o] # NoBundle /\ ~bundles[o].torn =>
          Recounts(entries, bundles[o].zones, bundles[o].log, lost \cup Unwritten))'
  BY <1>2, <1>5 DEF ReplayInv
<1>10. JobRecounts'
  BY <1>2, <1>4 DEF ReplayInv, JobRecounts, Idle
<1> QED
  BY <1>8, <1>9, <1>10 DEF ReplayInv

\* A step of a command that is not writing documents.
LEMMA ReplayIdles ==
    ASSUME ReplayInv, UNCHANGED <<entries, lost>>,
           job.step = "zones" => ToSet(job.todo) = {}, job'.step # "zones",
           \A k \in Keystores :
              /\ disk'[k].zones = disk[k].zones /\ disk'[k].log = disk[k].log
              /\ k \in torn => k \in torn'
              /\ \/ bundles'[k] = bundles[k]
                 \/ ~bundles'[k].torn =>
                       Recounts(entries, bundles'[k].zones, bundles'[k].log,
                                lost \cup Unwritten),
           job'.step = "install" /\ ~job'.bundle.torn =>
              Recounts(entries, job'.bundle.zones, job'.bundle.log, lost)
    PROVE  ReplayInv'
<1>1. Unwritten = {} /\ Unwritten' = {}
  BY DEF Unwritten
<1>2. JobRecounts'
  BY DEF JobRecounts
<1> QED
  BY <1>1, <1>2, ReplayAside

\* No step makes a document that its log does not.
LEMMA ReplayNext == EditionsTyped /\ SoundInv /\ ReplayInv /\ [Next]_vars => ReplayInv'
<1> SUFFICES ASSUME EditionsTyped, SoundInv, ReplayInv, [Next]_vars PROVE ReplayInv'
  OBVIOUS
<1>0. disk \in [Keystores -> Files] /\ Owner \in Keystores
  BY OwnerIsInstalled DEF EditionsTyped, DiskOK
<1>1. CASE Writes \/ IssueWithRewrap \/ RepinAfterRevocation
  BY <1>1, BeginsIs, ReplayBegins
<1>2. CASE \/ \E a \in Agents : Grant(a) \/ Revoke(a)
           \/ FailToLoad \/ \E z \in Zones : Rotate(z)
  <2>1. /\ UNCHANGED <<disk, entries, bundles, torn, lost>>
        /\ job = Idle \/ job.step \in {"grant", "revoke"}
        /\ job' = Idle \/ job'.step \in {"grant", "revoke", "publish"}
    BY <1>2 DEF Grant, Revoke, FailToLoad, Rotate, history
  <2>2. job.step # "zones" /\ job'.step \notin {"zones", "install"}
    BY <2>1 DEF Idle
  <2> QED
    BY <2>1, <2>2, ReplayIdles
<1>3. CASE Snapshot
  <2>1. PICK k \in Keystores, x \in Files :
              /\ job.todo = <<>>
              /\ x = [disk[k] EXCEPT !.snap = disk[k].did]
              /\ disk' = [disk EXCEPT ![k] = x] /\ job'.step = "manifest"
    BY <1>3, SnapshotIs
  <2>2. \A o \in Keystores : disk'[o].zones = disk[o].zones /\ disk'[o].log = disk[o].log
    BY <1>0, <2>1 DEF Files
  <2>3. ToSet(job.todo) = {}
    BY <2>1 DEF ToSet
  <2>4. UNCHANGED <<entries, bundles, torn, lost>>
    BY <1>3 DEF Snapshot, history
  <2> QED
    BY <2>1, <2>2, <2>3, <2>4, ReplayIdles
<1>4. CASE WriteManifest
  <2>1. PICK k \in Keystores, x \in Files :
              /\ x = [disk[k] EXCEPT !.manifest = Len(drafts)]
              /\ disk' = [disk EXCEPT ![k] = x] /\ job'.step = "archive"
    BY <1>4, WriteManifestIs
  <2>2. \A o \in Keystores : disk'[o].zones = disk[o].zones /\ disk'[o].log = disk[o].log
    BY <1>0, <2>1 DEF Files
  <2>3. job.step # "zones" /\ UNCHANGED <<entries, bundles, torn, lost>>
    BY <1>4 DEF WriteManifest
  <2> QED
    BY <2>1, <2>2, <2>3, ReplayIdles
<1>5. CASE Archive
  <2>1. PICK k \in Keystores, x \in Files :
              /\ x = [disk[k] EXCEPT !.history = x.history]
              /\ disk' = [disk EXCEPT ![k] = x] /\ job' = Idle
    BY <1>5, ArchiveIs
  <2>2. \A o \in Keystores : disk'[o].zones = disk[o].zones /\ disk'[o].log = disk[o].log
    BY <1>0, <2>1 DEF Files
  <2>3. /\ job.step # "zones" /\ job'.step \notin {"zones", "install"}
        /\ UNCHANGED <<entries, bundles, torn, lost>>
    BY <1>5 DEF Archive, Idle
  <2> QED
    BY <2>2, <2>3, ReplayIdles
<1>6. CASE PublishKey
  <2>1. PICK z \in Zones, x \in Files :
              /\ x = [disk[Owner] EXCEPT !.did = [@ EXCEPT ![z] = seeds[z]]]
              /\ disk' = [disk EXCEPT ![Owner] = x] /\ job' = Idle
    BY <1>6, PublishIs
  <2>2. \A o \in Keystores : disk'[o].zones = disk[o].zones /\ disk'[o].log = disk[o].log
    BY <1>0, <2>1 DEF Files
  <2>3. /\ job.step # "zones" /\ job'.step \notin {"zones", "install"}
        /\ UNCHANGED <<entries, bundles, torn, lost>>
    BY <1>6 DEF PublishKey, Idle, history
  <2> QED
    BY <2>2, <2>3, ReplayIdles
<1>7. CASE \E k \in Keystores : Pack(k)
  <2>1. PICK k \in Keystores : Pack(k)
    BY <1>7
  <2>2. PICK b \in Bundle :
              /\ bundles' = [bundles EXCEPT ![k] = b] /\ b.zones = disk[k].zones
              /\ b.log = disk[k].log /\ b.torn = (k \in torn)
    BY <2>1, PackIs
  <2>3. job = Idle /\ job' = Idle /\ UNCHANGED <<disk, entries, torn, lost>>
    BY <2>1 DEF Pack, history
  <2>4. ~b.torn => Recounts(entries, b.zones, b.log, lost \cup Unwritten)
    BY <2>2 DEF ReplayInv
  <2>5. \A o \in Keystores :
           \/ bundles'[o] = bundles[o]
           \/ ~bundles'[o].torn =>
                 Recounts(entries, bundles'[o].zones, bundles'[o].log, lost \cup Unwritten)
    BY <2>2, <2>4 DEF EditionsTyped, BundlesOK
  <2>6. job.step # "zones" /\ job'.step \notin {"zones", "install"}
    BY <2>3 DEF Idle
  <2> QED
    BY <2>3, <2>5, <2>6, ReplayIdles
<1>8. CASE \E k, from \in Keystores : Install(k, from)
  <2>1. PICK k \in Keystores, from \in Keystores : Install(k, from)
    BY <1>8
  <2>2. /\ job = Idle /\ job'.step = "install" /\ job'.bundle = bundles[from]
        /\ bundles[from] # NoBundle /\ torn' = torn \cup {k}
        /\ UNCHANGED <<disk, entries, bundles, lost>>
    BY <2>1 DEF Install
  <2>3. job.step # "zones" /\ Unwritten = {}
    BY <2>2 DEF Idle, Unwritten
  <2>4. ~job'.bundle.torn => Recounts(entries, job'.bundle.zones, job'.bundle.log, lost)
    BY <2>2, <2>3 DEF ReplayInv
  <2> QED
    BY <2>2, <2>3, <2>4, ReplayIdles
<1>9. CASE Die
  <2>1. job' = Idle /\ UNCHANGED <<disk, entries, bundles, torn>>
          /\ lost' = lost \cup Unwritten
    BY <1>9 DEF Die, Unwritten
  <2>2. Unwritten' = {} /\ JobRecounts'
    BY <2>1 DEF Unwritten, JobRecounts, Idle
  <2> QED
    BY <2>1, <2>2, ReplayAside
<1>10. CASE UNCHANGED vars
  <2>1. UNCHANGED <<job, disk, entries, bundles, torn, lost>>
    BY <1>10 DEF vars, history
  <2>2. Unwritten' = Unwritten /\ JobRecounts'
    BY <2>1 DEF Unwritten, JobRecounts, ReplayInv, Recounts
  <2> QED
    BY <2>1, <2>2, ReplayAside
<1> QED
  BY <1>1, <1>2, <1>3, <1>4, <1>5, <1>6, <1>7, <1>8, <1>9, <1>10, ReplayWritten,
     ReplayInstalled DEF Next

\* A document is what its log makes of the empty one, through deaths and bundles.
THEOREM DocumentsReplay == Spec => []DocReplaysLog
<1>1. Init => EditionsTyped /\ SoundInv /\ ReplayInv
  BY TypedInit, SoundInit, ReplayInit
<1>2. EditionsTyped /\ SoundInv /\ ReplayInv /\ [Next]_vars
         => EditionsTyped' /\ SoundInv' /\ ReplayInv'
  BY TypedStep, SoundStep, ReplayNext
<1>3. EditionsTyped /\ ReplayInv => DocReplaysLog
  <2> SUFFICES ASSUME EditionsTyped, ReplayInv, NEW k \in Keystores, Quiet(k),
                      NEW z \in Zones
               PROVE  disk[k].zones[z].doc = Replayed(entries, disk[k].log, z, lost)
    BY DEF DocReplaysLog, Replay
  <2>0. PICK g \in Seq(Nat) : g = disk[k].log
    BY LogsAre
  <2>1. PICK es, w, v :
           g = disk[k].log /\ es = entries /\ w = lost \cup Unwritten /\ v = lost
    BY <2>0
  <2>2. disk[k].zones[z].doc = Replayed(es, g, z, w)
    BY <2>1 DEF Quiet, ReplayInv, Recounts
  <2>3. \A i \in DOMAIN g : g[i] \notin Unwritten
    <3>1. job.step = "zones" => job.who # k
      BY DEF Quiet, Idle
    <3>2. Unwritten # {} => job.step = "zones" /\ job.entry # None
                              /\ Unwritten = {job.entry}
      BY DEF Unwritten
    <3>3. Unwritten # {} => job.entry \notin ToSet(g)
      BY <2>1, <3>1, <3>2 DEF ReplayInv, JobRecounts
    <3> QED
      BY <3>2, <3>3 DEF ToSet
  <2>4. SameEntries(es, es, g, z, w, v)
    BY <2>1, <2>3 DEF SameEntries
  <2>5. Replayed(es, g, z, w) = Replayed(es, g, z, v)
    BY <2>4, ReplaySame
  <2> QED
    BY <2>1, <2>2, <2>5
<1> QED
  BY <1>1, <1>2, <1>3, PTL DEF Spec
================================================================================
