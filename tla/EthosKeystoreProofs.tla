-------------------------- MODULE EthosKeystoreProofs --------------------------
(***************************************************************************)
(* Theorems about EthosKeystore, for any sections, agents and scopes.      *)
(*                                                                         *)
(* A command leaves its edition in several files, copies them in no order, *)
(* and may die between any two.  KeystoreInv says what the files have in   *)
(* common with the command that writes them: a section file that is copied *)
(* has the seal that the coming manifest names, the other sections are     *)
(* those of the manifest there is, and the edition that is superseded is   *)
(* in the history before any file is copied.                               *)
(*                                                                         *)
(* KeptInv: until a v0.2 edition is written over a v0.3 directory, what a  *)
(* migration carries and a repin reads is what was acknowledged.           *)
(* DroppedInv: whoever a revoke dropped is on no key of the manifest, nor  *)
(* of the edition that is about to replace it.                             *)
(***************************************************************************)
EXTENDS EthosKeystore, WellFoundedInduction, TLAPS

\* The phases of an edit that installs an edition, and of a repin that has built one.
Editing == job.step \in {"archive", "copy", "clean"}
Repinning == job.step \in {"zones", "filed"}

\* Nothing is numbered beyond the editions that were built.
Numbered ==
    /\ made \in 1..MaxEditions
    /\ manifest.version \in 1..made /\ manifest.mark \in 1..made
    /\ DOMAIN history \subseteq 1..made
    /\ Editing \/ Repinning => job.next.version \in 1..made /\ job.next.mark \in 1..made

\* The command that runs, before it builds an edition.
JobIsSound ==
    /\ job.step \in {"idle", "migrate", "patch", "archive", "copy", "clean", "load", "zones",
                     "filed"}
    /\ job.step \in {"migrate", "patch"} \/ Editing =>
          /\ job.author \in {Owner} \cup (mandates \ revoked)
          /\ job.ups \subseteq Sections /\ job.dels \subseteq Sections
          /\ job.ups \cap job.dels = {}
    /\ job.step = "migrate" => manifest.fmt = "v02"
    /\ job.step = "patch" => manifest.fmt = "v03"
    /\ job.step = "load" \/ Repinning => job.revokes \subseteq revoked

\* The edition that is being installed, and how far that has come.
EditIsSound ==
    Editing =>
        /\ DOMAIN job = {"step", "phase", "author", "ups", "dels", "next", "blobs", "todo"}
        /\ job.phase \in {"patch", "migrate"}
        /\ ManifestOK(job.next) /\ job.next.fmt = "v03"
        /\ DOMAIN job.blobs \subseteq DOMAIN job.next.sections
        /\ job.todo \subseteq DOMAIN job.blobs \cup {"manifest"}
        /\ job.step = "archive" => job.todo = DOMAIN job.blobs \cup {"manifest"}
        /\ job.step = "clean" => job.todo = {}
        /\ \A s \in DOMAIN job.blobs :
              /\ job.blobs[s].seal = job.next.mark
              /\ job.next.sections[s].seal = job.next.mark
              /\ ZoneOf[s] # "public" => Owner \in job.next.sections[s].wraps
        /\ \A s \in DOMAIN job.blobs \ job.todo : s \in DOMAIN blobs /\ blobs[s] = job.blobs[s]
        /\ IF "manifest" \in job.todo
           THEN /\ job.next.prev = manifest.mark /\ job.next.supersedes = manifest.version
                /\ job.next.version = manifest.version + 1
                /\ manifest.fmt = IF job.phase = "patch" THEN "v03" ELSE "v02"
           ELSE manifest = job.next
        /\ job.step = "copy" => /\ job.next.supersedes \in DOMAIN history
                                /\ history[job.next.supersedes] = job.next.prev
        /\ job.phase = "migrate" =>
              /\ DOMAIN job.next.sections = DOMAIN job.blobs
        /\ job.phase = "patch" =>
              /\ DOMAIN job.blobs = job.ups
              /\ \A s \in job.ups : job.blobs[s].text = job.next.mark
              /\ DOMAIN job.next.sections \cap job.dels = {}
              /\ \A s \in Sections \ (job.ups \cup job.dels) :
                    /\ s \in DOMAIN job.next.sections <=> s \in DOMAIN manifest.sections
                    /\ s \in DOMAIN job.next.sections =>
                          job.next.sections[s] = manifest.sections[s]

\* The v0.2 edition that a grant or a revoke writes.
RepinIsSound ==
    Repinning =>
        /\ DOMAIN job = {"step", "revokes", "docs", "written", "next"}
        /\ ManifestOK(job.next) /\ job.next.fmt = "v02" /\ DOMAIN job.next.sections = {}
        /\ DOMAIN job.docs = Zones /\ job.written \subseteq Zones
        /\ \A z \in Encrypted : /\ job.next.zones[z].seal = job.next.mark
                                /\ job.next.zones[z].wraps \cap revoked = {}
        /\ \A z \in job.written : /\ z \in DOMAIN mono
                                  /\ mono[z].seal = job.next.mark /\ mono[z].doc = job.docs[z]
        /\ IF job.step = "filed" THEN manifest = job.next
           ELSE \A v \in DOMAIN history : v < job.next.version

\* The chain of editions, and the numbers along it.
ChainInv ==
    /\ EditionChain
    /\ manifest.fmt = "v03" /\ manifest.prev # None => manifest.version = manifest.supersedes + 1

\* What the sections held that a migration or a repin takes over.
TakenOver ==
    /\ Editing /\ job.phase = "migrate" =>
          \A s \in Sections \ lost :
             owed[s] = IF s \in DOMAIN job.blobs THEN job.blobs[s].text ELSE None
    /\ job.step = "zones" /\ manifest.fmt = "v02" =>
          \A s \in Sections \ lost :
             LET doc == job.docs[ZoneOf[s]] IN owed[s] = IF s \in DOMAIN doc THEN doc[s] ELSE None

\* Nothing acknowledged is lost, before a command is on its way or while it is.
KeptInv == flattened \/ (AcknowledgedIsKept /\ TakenOver)

\* The edition has no key for those that a revoke dropped.
Drops(m) == \A d \in dropped :
               /\ \A s \in DOMAIN m.sections : d \notin m.sections[s].wraps
               /\ \A z \in DOMAIN m.zones : d \notin m.zones[z].wraps

\* Neither the manifest nor the one to come brings a dropped agent back.
DroppedInv == flattened \/ (Drops(manifest) /\ (Editing => Drops(job.next)))

\* The inductive invariant of the directory.
KeystoreInv == /\ TypeOK /\ Numbered /\ JobIsSound /\ EditIsSound /\ RepinIsSound
               /\ ChainInv /\ KeptInv /\ DroppedInv

-----------------------------------------------------------------------------
\* The next number of the history is beyond all that it has.
LEMMA NextIsBeyond ==
    ASSUME NEW n \in Nat, NEW S \in SUBSET (1..n)
    PROVE  /\ Max(S \cup {0}) \in 0..n
           /\ \A v \in S : v <= Max(S \cup {0})
<1> DEFINE Z == S \cup {0}
           T == {n - v : v \in Z}
           R == {ss \in Nat \X Nat : ss[1] < ss[2]}
<1>0. IsWellFoundedOn(R, Nat)
  BY NatLessThanWellFounded DEF OpToRel
<1>1. T \subseteq Nat /\ T # {}
  <2>1. \A v \in Z : v \in Int /\ v <= n
    OBVIOUS
  <2>2. n - 0 \in T
    OBVIOUS
  <2>3. QED
    BY <2>1, <2>2
<1>2. PICK t \in T : \A u \in T : ~(<<u, t>> \in R)
  <2> HIDE DEF T, R
  <2> QED
    BY <1>0, <1>1, WFMin
<1>3. PICK v \in Z : t = n - v
  BY <1>2
<1>4. ASSUME NEW w \in Z PROVE v >= w
  <2>1. n - w \in T
    OBVIOUS
  <2>2. ~(n - w < t)
    BY <1>1, <1>2, <2>1
  <2>3. v \in Int /\ w \in Int
    OBVIOUS
  <2> QED
    BY <1>3, <2>2, <2>3
<1>5. Max(Z) \in Z /\ \A w \in Z : Max(Z) >= w
  BY <1>4 DEF Max
<1>6. \A w \in Z : w \in 0..n
  OBVIOUS
<1>7. S \subseteq Z /\ Max(Z) \in 0..n
  BY <1>5, <1>6
<1>8. \A w \in S : w <= Max(Z)
  <2> HIDE DEF Z
  <2> QED
    BY <1>5, <1>6, <1>7
<1> QED
  BY <1>7, <1>8

\* For whom a section is wrapped.
LEMMA RecipientsAre ==
    ASSUME mandates \subseteq Delegates, NEW s \in Sections,
           NEW author \in {Owner} \cup (mandates \ revoked)
    PROVE  /\ Recipients(author, s) \subseteq Delegates \cup {Owner}
           /\ Recipients(author, s) = {} <=> ZoneOf[s] = "public"
           /\ ZoneOf[s] # "public" => Owner \in Recipients(author, s)
           /\ \A d \in revoked : d \notin Recipients(author, s) \/ d = Owner
BY DEF Recipients, ActiveDelegates

\* The sections of v0.3 and the zones of v0.2 open alike as long as the files stay.
LEMMA OpensStays ==
    ASSUME UNCHANGED <<manifest, blobs, mono>>
    PROVE  \A s : Opens(s)' = Opens(s)
BY DEF Opens, SectionOpens, ZoneOpens, ZoneDoc

\* A step that leaves the directory alone, with no edition under way after it.
LEMMA QuietKeeps ==
    ASSUME KeystoreInv, UNCHANGED <<files, ghosts>>, made' = made,
           JobIsSound', ~Editing', ~Repinning', Exposed = {},
           revoked \subseteq revoked', revoked' \subseteq mandates', mandates' \subseteq Delegates
    PROVE  KeystoreInv'
<1> USE DEF files, ghosts
<1>1. TypeOK'
  BY DEF KeystoreInv, TypeOK, Editing, Repinning, ManifestOK, Editions, Locks
<1>2. Numbered'
  BY DEF KeystoreInv, Numbered
<1>3. EditIsSound' /\ RepinIsSound'
  BY DEF EditIsSound, RepinIsSound
<1>4. ChainInv'
  BY DEF KeystoreInv, ChainInv, EditionChain
<1>5. DroppedInv'
  BY DEF KeystoreInv, DroppedInv, Drops
<1>6. KeptInv'
  <2>1. Exposed' = {}
    BY DEF Exposed, Editing, Repinning
  <2>2. AcknowledgedIsKept => AcknowledgedIsKept'
    BY <2>1, OpensStays DEF AcknowledgedIsKept
  <2>3. TakenOver'
    BY DEF TakenOver, Editing, Repinning
  <2>4. QED
    BY <2>2, <2>3 DEF KeystoreInv, KeptInv
<1>7. QED
  BY <1>1, <1>2, <1>3, <1>4, <1>5, <1>6 DEF KeystoreInv

\* An edit begins: its author has a mandate that no revoke has voided.
LEMMA BeginEditKeeps ==
    ASSUME KeystoreInv, NEW author \in Delegates \cup {Owner}, NEW ups \in SUBSET Sections,
           NEW dels \in SUBSET Sections, BeginEdit(author, ups, dels)
    PROVE  KeystoreInv'
<1>1. /\ job = Idle /\ ups \cap dels = {} /\ UNCHANGED <<files, mandates, revoked, made, ghosts>>
      /\ job'.step \in {"migrate", "patch"} /\ job'.author = author
      /\ job'.ups = ups /\ job'.dels = dels
      /\ job'.step = "migrate" => manifest.fmt = "v02"
      /\ job'.step = "patch" => manifest.fmt # "v02"
      /\ author \in {Owner} \cup (mandates \ revoked)
  BY DEF BeginEdit
<1>2. Exposed = {}
  BY <1>1 DEF Exposed, Idle
<1>3. ~Editing' /\ ~Repinning'
  BY <1>1 DEF Editing, Repinning
<1>4. manifest.fmt \in {"v02", "v03"} /\ revoked \subseteq mandates /\ mandates \subseteq Delegates
  BY DEF KeystoreInv, TypeOK, ManifestOK
<1>5. JobIsSound'
  BY <1>1, <1>3, <1>4 DEF JobIsSound, files
<1>6. QED
  BY <1>1, <1>2, <1>3, <1>4, <1>5, QuietKeeps

\* An edit that throws leaves the files alone.
LEMMA FailKeeps == KeystoreInv /\ Fail => KeystoreInv'
<1> SUFFICES ASSUME KeystoreInv, Fail PROVE KeystoreInv'
  OBVIOUS
<1>1. /\ job.step \in {"migrate", "load", "patch"} /\ job'.step = "idle"
      /\ UNCHANGED <<files, mandates, revoked, made, ghosts>>
  BY DEF Fail, Idle
<1>2. Exposed = {}
  BY <1>1 DEF Exposed
<1>3. ~Editing' /\ ~Repinning' /\ JobIsSound'
  BY <1>1 DEF Editing, Repinning, JobIsSound
<1>4. revoked \subseteq mandates /\ mandates \subseteq Delegates
  BY DEF KeystoreInv, TypeOK
<1>5. QED
  BY <1>1, <1>2, <1>3, <1>4, QuietKeeps

\* A grant begins by reading the zones.
LEMMA GrantKeeps ==
    ASSUME KeystoreInv, NEW d \in Delegates, Grant(d) PROVE KeystoreInv'
<1>1. /\ job = Idle /\ mandates' = mandates \cup {d} /\ UNCHANGED <<files, revoked, made, ghosts>>
      /\ job'.step = "idle" \/ (job'.step = "load" /\ job'.revokes = {})
  BY DEF Grant, Idle
<1>2. Exposed = {}
  BY <1>1 DEF Exposed, Idle
<1>3. ~Editing' /\ ~Repinning' /\ JobIsSound'
  BY <1>1 DEF Editing, Repinning, JobIsSound
<1>4. revoked \subseteq mandates /\ mandates \subseteq Delegates
  BY DEF KeystoreInv, TypeOK
<1>5. QED
  BY <1>1, <1>2, <1>3, <1>4, QuietKeeps

\* A revoke begins: from here on nobody wraps for the mandate.
LEMMA RevokeKeeps ==
    ASSUME KeystoreInv, NEW d \in Delegates, Revoke(d) PROVE KeystoreInv'
<1>1. /\ job = Idle /\ d \in mandates /\ revoked' = revoked \cup {d}
      /\ UNCHANGED <<files, mandates, made, ghosts>>
      /\ job'.step = "load" /\ job'.revokes = {d}
  BY DEF Revoke
<1>2. Exposed = {}
  BY <1>1 DEF Exposed, Idle
<1>3. ~Editing' /\ ~Repinning' /\ JobIsSound'
  BY <1>1 DEF Editing, Repinning, JobIsSound
<1>4. revoked \subseteq mandates /\ mandates \subseteq Delegates
  BY DEF KeystoreInv, TypeOK
<1>5. QED
  BY <1>1, <1>2, <1>3, <1>4, QuietKeeps

-----------------------------------------------------------------------------
\* An edition is built: what it must be of for the invariant to hold.
LEMMA BuiltKeeps ==
    ASSUME KeystoreInv, NEW phase, NEW sections, NEW texts,
           job.step = IF phase = "patch" THEN "patch" ELSE "migrate",
           phase \in {"patch", "migrate"}, made < MaxEditions,
           job' = Built(phase, sections, texts), made' = NewEdition,
           UNCHANGED <<files, mandates, revoked, ghosts>>,
           DOMAIN sections \subseteq Sections, DOMAIN texts \subseteq DOMAIN sections,
           \A s \in DOMAIN sections : /\ sections[s] \in Locks
                                      /\ sections[s].wraps = {} <=> ZoneOf[s] = "public",
           \A s \in DOMAIN texts : /\ sections[s].seal = NewEdition
                                   /\ ZoneOf[s] # "public" => Owner \in sections[s].wraps,
           flattened \/ \A d \in dropped, s \in DOMAIN sections : d \notin sections[s].wraps,
           phase = "migrate" =>
              /\ DOMAIN sections = DOMAIN texts
              /\ flattened \/ \A s \in Sections \ lost :
                                 owed[s] = IF s \in DOMAIN texts THEN texts[s] ELSE None,
           phase = "patch" =>
              /\ DOMAIN texts = job.ups /\ \A s \in job.ups : texts[s] = NewEdition
              /\ DOMAIN sections \cap job.dels = {}
              /\ \A s \in Sections \ (job.ups \cup job.dels) :
                    /\ s \in DOMAIN sections <=> s \in DOMAIN manifest.sections
                    /\ s \in DOMAIN sections => sections[s] = manifest.sections[s]
    PROVE  KeystoreInv'
<1> DEFINE next == [fmt |-> "v03", mark |-> NewEdition, version |-> manifest.version + 1,
                    prev |-> manifest.mark, supersedes |-> manifest.version,
                    sections |-> sections, zones |-> Empty]
           written == [s \in DOMAIN texts |-> [seal |-> NewEdition, text |-> texts[s]]]
<1>1. /\ DOMAIN job' = {"step", "phase", "author", "ups", "dels", "next", "blobs", "todo"}
      /\ job'.step = "archive" /\ job'.phase = phase /\ job'.author = job.author
      /\ job'.ups = job.ups /\ job'.dels = job.dels
      /\ job'.next = next /\ job'.blobs = written
      /\ job'.todo = DOMAIN texts \cup {"manifest"}
  BY DEF Built
<1>2. /\ next.fmt = "v03" /\ next.mark = made + 1 /\ next.version = manifest.version + 1
      /\ next.prev = manifest.mark /\ next.supersedes = manifest.version
      /\ next.sections = sections /\ next.zones = Empty
  BY DEF NewEdition
<1>3. /\ DOMAIN written = DOMAIN texts
      /\ \A s \in DOMAIN texts : written[s].seal = made + 1 /\ written[s].text = texts[s]
  BY DEF NewEdition
<1> HIDE DEF next, written
<1>4. /\ made \in 1..MaxEditions /\ made' = made + 1 /\ MaxEditions \in Nat
      /\ manifest.version \in 1..made /\ manifest.mark \in 1..made /\ DOMAIN history \subseteq 1..made
  BY KeystoreAssumption DEF KeystoreInv, Numbered, NewEdition
<1>5. Editing' /\ ~Repinning' /\ JobIsSound'
  BY <1>1 DEF Editing, Repinning, KeystoreInv, JobIsSound
<1>6. manifest.fmt = IF phase = "patch" THEN "v03" ELSE "v02"
  BY DEF KeystoreInv, JobIsSound
<1>7. ManifestOK(next)
  <2>1. next.mark \in Editions \ {None} /\ next.version \in Editions \ {None}
        /\ next.prev \in Editions /\ next.supersedes \in Editions
    BY <1>2, <1>4 DEF Editions, None
  <2>2. DOMAIN Empty = {}
    BY DEF Empty
  <2>3. QED
    BY <1>2, <2>1, <2>2 DEF ManifestOK
<1>8. TypeOK'
  <2>1. made' \in Editions
    BY <1>4 DEF Editions
  <2>2. ManifestOK(job'.next)
    BY <1>1, <1>7
  <2>3. ManifestOK(job.next)'
    BY <2>2 DEF ManifestOK, Editions, Locks
  <2>4. QED
    BY <1>1, <2>1, <2>3 DEF KeystoreInv, TypeOK, ManifestOK, Editions, Locks, files, ghosts
<1>9. Numbered'
  BY <1>1, <1>2, <1>4 DEF Numbered, files
<1>10. EditIsSound'
  <2>1. ManifestOK(job.next)'
    BY <1>8, <1>1 DEF TypeOK
  <2>2. \A s \in DOMAIN texts : sections[s].seal = made + 1
    BY DEF NewEdition
  <2>3. phase = "patch" => \A s \in job.ups : texts[s] = made + 1
    BY DEF NewEdition
  <2>4. "manifest" \in job'.todo
    BY <1>1
  <2>5. job'.blobs = written /\ DOMAIN job'.blobs = DOMAIN texts
    BY <1>1, <1>3
  <2>6. DOMAIN job'.blobs \ job'.todo = {}
    BY <1>1, <2>5
  <2>7. \A s \in DOMAIN job'.blobs :
           /\ job'.blobs[s].seal = job'.next.mark /\ job'.next.sections[s].seal = job'.next.mark
           /\ ZoneOf[s] # "public" => Owner \in job'.next.sections[s].wraps
    BY <1>1, <1>2, <1>3, <2>2, <2>5
  <2>8. /\ job'.next.prev = manifest.mark /\ job'.next.supersedes = manifest.version
        /\ job'.next.version = manifest.version + 1 /\ job'.next.fmt = "v03"
        /\ job'.next.sections = sections
    BY <1>1, <1>2
  <2>9. phase = "patch" => \A s \in job.ups : job'.blobs[s].text = job'.next.mark
    BY <1>1, <1>2, <1>3, <2>3
  <2>10. UNCHANGED <<manifest, history, blobs>>
    BY DEF files
  <2>11. QED
    BY <1>1, <1>6, <2>1, <2>4, <2>5, <2>6, <2>7, <2>8, <2>9, <2>10 DEF EditIsSound, Editing
<1>11. RepinIsSound'
  BY <1>5 DEF RepinIsSound
<1>12. ChainInv'
  BY DEF KeystoreInv, ChainInv, EditionChain, files, ghosts
<1>13. DroppedInv'
  <2>1. \A z \in DOMAIN Empty : FALSE
    BY DEF Empty
  <2>2. flattened \/ Drops(next)
    BY <1>2, <2>1 DEF Drops
  <2>3. QED
    BY <1>1, <2>2 DEF KeystoreInv, DroppedInv, Drops, files, ghosts
<1>14. KeptInv'
  <2>1. Exposed = {} /\ Exposed' = {}
    BY <1>1 DEF Exposed
  <2>2. AcknowledgedIsKept => AcknowledgedIsKept'
    BY <2>1, OpensStays DEF AcknowledgedIsKept, files, ghosts
  <2>3. flattened \/ TakenOver'
    BY <1>1, <1>3, <1>5 DEF TakenOver, Repinning, ghosts
  <2>4. QED
    BY <2>2, <2>3 DEF KeystoreInv, KeptInv, ghosts
<1>15. QED
  BY <1>5, <1>8, <1>9, <1>10, <1>11, <1>12, <1>13, <1>14 DEF KeystoreInv

\* The migration carries what the zones hold.
LEMMA MigrateBuildKeeps == KeystoreInv /\ MigrateBuild => KeystoreInv'
<1> SUFFICES ASSUME KeystoreInv, MigrateBuild PROVE KeystoreInv'
  OBVIOUS
<1> DEFINE found == {s \in Sections : s \in DOMAIN ZoneDoc(ZoneOf[s])}
           sections == [s \in found |-> [seal |-> NewEdition, wraps |-> Recipients(Owner, s)]]
           texts == [s \in found |-> ZoneDoc(ZoneOf[s])[s]]
<1>1. /\ job.step = "migrate" /\ made < MaxEditions /\ \A z \in Zones : ZoneOpens(z)
      /\ job' = Built("migrate", sections, texts) /\ made' = NewEdition
      /\ UNCHANGED <<files, mandates, revoked, ghosts>>
  BY DEF MigrateBuild
<1>2. mandates \subseteq Delegates /\ dropped \subseteq revoked /\ revoked \subseteq mandates
  BY DEF KeystoreInv, TypeOK
<1>3. NewEdition \in Editions
  BY <1>1, KeystoreAssumption DEF KeystoreInv, Numbered, NewEdition, Editions
<1>4. \A s \in found : /\ sections[s] \in Locks /\ sections[s].seal = NewEdition
                       /\ sections[s].wraps = {} <=> ZoneOf[s] = "public"
                       /\ ZoneOf[s] # "public" => Owner \in sections[s].wraps
                       /\ \A d \in dropped : d \notin sections[s].wraps
  BY <1>2, <1>3, RecipientsAre, KeystoreAssumption DEF Locks
<1>5. flattened \/ \A s \in Sections \ lost :
                      owed[s] = IF s \in found THEN ZoneDoc(ZoneOf[s])[s] ELSE None
  <2>1. Exposed = {}
    BY <1>1 DEF Exposed
  <2>2. manifest.fmt = "v02"
    BY <1>1 DEF KeystoreInv, JobIsSound
  <2>3. \A s \in Sections : Opens(s) = IF s \in found THEN ZoneDoc(ZoneOf[s])[s] ELSE None
    BY <1>1, <2>2, KeystoreAssumption DEF Opens
  <2>4. QED
    BY <2>1, <2>3 DEF KeystoreInv, KeptInv, AcknowledgedIsKept
<1>6. /\ DOMAIN sections = found /\ DOMAIN texts = found
      /\ \A s \in found : texts[s] = ZoneDoc(ZoneOf[s])[s]
  OBVIOUS
<1>7. found \subseteq Sections
  OBVIOUS
<1> HIDE DEF sections, texts, found
<1>8. QED
  BY <1>1, <1>4, <1>5, <1>6, <1>7, BuiltKeeps

\* A patch carries what it does not touch, as it stands.
LEMMA PatchBuildKeeps == KeystoreInv /\ PatchBuild => KeystoreInv'
<1> SUFFICES ASSUME KeystoreInv, PatchBuild PROVE KeystoreInv'
  OBVIOUS
<1> DEFINE sections == [s \in Carried \cup job.ups |->
                           IF s \in job.ups
                           THEN [seal |-> NewEdition, wraps |-> Recipients(job.author, s)]
                           ELSE manifest.sections[s]]
           texts == [s \in job.ups |-> NewEdition]
<1>1. /\ job.step = "patch" /\ made < MaxEditions /\ CanPatch
      /\ job' = Built("patch", sections, texts) /\ made' = NewEdition
      /\ UNCHANGED <<files, mandates, revoked, ghosts>>
  BY DEF PatchBuild
<1>2. mandates \subseteq Delegates /\ dropped \subseteq revoked /\ revoked \subseteq mandates
  BY DEF KeystoreInv, TypeOK
<1>3. NewEdition \in Editions
  BY <1>1, KeystoreAssumption DEF KeystoreInv, Numbered, NewEdition, Editions
<1>4. /\ job.author \in {Owner} \cup (mandates \ revoked) /\ job.ups \subseteq Sections
      /\ job.ups \cap job.dels = {}
  BY <1>1 DEF KeystoreInv, JobIsSound
<1>5. \A s \in job.ups : /\ sections[s] \in Locks /\ sections[s].seal = NewEdition
                         /\ sections[s].wraps = {} <=> ZoneOf[s] = "public"
                         /\ ZoneOf[s] # "public" => Owner \in sections[s].wraps
                         /\ \A d \in dropped : d \notin sections[s].wraps
  <2> SUFFICES ASSUME NEW s \in job.ups
               PROVE  /\ sections[s] \in Locks /\ sections[s].seal = NewEdition
                      /\ sections[s].wraps = {} <=> ZoneOf[s] = "public"
                      /\ ZoneOf[s] # "public" => Owner \in sections[s].wraps
                      /\ \A d \in dropped : d \notin sections[s].wraps
    OBVIOUS
  <2>1. sections[s] = [seal |-> NewEdition, wraps |-> Recipients(job.author, s)]
    OBVIOUS
  <2>2. /\ Recipients(job.author, s) \subseteq Delegates \cup {Owner}
        /\ Recipients(job.author, s) = {} <=> ZoneOf[s] = "public"
        /\ ZoneOf[s] # "public" => Owner \in Recipients(job.author, s)
        /\ \A d \in revoked : d \notin Recipients(job.author, s) \/ d = Owner
    BY <1>2, <1>4, RecipientsAre
  <2>3. Owner \notin dropped
    BY <1>2, KeystoreAssumption
  <2> HIDE DEF sections
  <2>4. QED
    BY <1>2, <1>3, <2>1, <2>2, <2>3 DEF Locks
<1>6. Carried = DOMAIN manifest.sections \ (job.ups \cup job.dels)
  BY DEF Carried
<1>7. \A s \in Carried : sections[s] = manifest.sections[s]
  BY <1>6
<1>8. \A s \in Carried : /\ s \in Sections /\ sections[s] \in Locks
                         /\ sections[s].wraps = {} <=> ZoneOf[s] = "public"
                         /\ flattened \/ \A d \in dropped : d \notin sections[s].wraps
  BY <1>6, <1>7 DEF KeystoreInv, TypeOK, ManifestOK, DroppedInv, Drops
<1>9. /\ DOMAIN sections = Carried \cup job.ups /\ DOMAIN texts = job.ups
      /\ \A s \in job.ups : texts[s] = NewEdition
  OBVIOUS
<1> HIDE DEF sections, texts
<1>10. /\ DOMAIN sections \subseteq Sections /\ DOMAIN texts \subseteq DOMAIN sections
       /\ DOMAIN sections \cap job.dels = {}
  BY <1>4, <1>6, <1>8, <1>9
<1>11. \A s \in Sections \ (job.ups \cup job.dels) :
          /\ s \in DOMAIN sections <=> s \in DOMAIN manifest.sections
          /\ s \in DOMAIN sections => sections[s] = manifest.sections[s]
  BY <1>6, <1>7, <1>9
<1>12. \A s \in DOMAIN sections : /\ sections[s] \in Locks
                                  /\ sections[s].wraps = {} <=> ZoneOf[s] = "public"
  BY <1>5, <1>8, <1>9
<1>13. flattened \/ \A d \in dropped, s \in DOMAIN sections : d \notin sections[s].wraps
  BY <1>5, <1>8, <1>9
<1>14. QED
  BY <1>1, <1>5, <1>9, <1>10, <1>11, <1>12, <1>13, BuiltKeeps

-----------------------------------------------------------------------------
\* An edition is taken a step further.
Advances(step, todo) ==
    /\ DOMAIN job' = DOMAIN job
    /\ job'.step = step /\ job'.todo = todo /\ job'.phase = job.phase
    /\ job'.author = job.author /\ job'.ups = job.ups /\ job'.dels = job.dels
    /\ job'.next = job.next /\ job'.blobs = job.blobs

\* An edit that goes on to its next file is the same edit.
LEMMA AdvancedJobIsSound ==
    ASSUME KeystoreInv, Editing, NEW step \in {"copy", "clean"}, NEW todo, Advances(step, todo),
           UNCHANGED <<mandates, revoked>>
    PROVE  Editing' /\ ~Repinning' /\ JobIsSound' /\ RepinIsSound'
BY DEF KeystoreInv, JobIsSound, RepinIsSound, Editing, Repinning, Advances

\* The old manifest goes into the history first.
LEMMA ArchiveKeeps == KeystoreInv /\ Archive => KeystoreInv'
<1> SUFFICES ASSUME KeystoreInv, Archive PROVE KeystoreInv'
  OBVIOUS
<1>1. /\ job.step = "archive" /\ history' = Put(history, manifest.version, manifest.mark)
      /\ job' = [job EXCEPT !.step = "copy"]
      /\ UNCHANGED <<manifest, blobs, mono, mandates, revoked, made, ghosts>>
  BY DEF Archive, ArchivedAs
<1>2. Editing /\ EditIsSound /\ job.todo = DOMAIN job.blobs \cup {"manifest"}
  BY <1>1 DEF Editing, KeystoreInv, EditIsSound
<1>3. Advances("copy", job.todo)
  BY <1>1, <1>2 DEF Advances, EditIsSound
<1>4. Editing' /\ ~Repinning' /\ JobIsSound' /\ RepinIsSound'
  BY <1>1, <1>2, <1>3, AdvancedJobIsSound
<1>5. /\ DOMAIN history' = DOMAIN history \cup {manifest.version}
      /\ history'[manifest.version] = manifest.mark
      /\ \A v \in DOMAIN history : v # manifest.version => history'[v] = history[v]
  BY <1>1 DEF Put
<1>6. /\ made \in 1..MaxEditions /\ MaxEditions \in Nat
      /\ manifest.version \in 1..made /\ manifest.mark \in 1..made
  BY KeystoreAssumption DEF KeystoreInv, Numbered
<1>7. TypeOK'
  <2>1. DOMAIN history \subseteq Editions /\ \A v \in DOMAIN history : history[v] \in Editions
    BY DEF KeystoreInv, TypeOK
  <2>2. DOMAIN history' \subseteq Editions /\ \A v \in DOMAIN history' : history'[v] \in Editions
    BY <1>5, <1>6, <2>1 DEF Editions
  <2>3. ManifestOK(job'.next)
    BY <1>2, <1>3 DEF Advances, EditIsSound
  <2>4. ManifestOK(job.next)'
    BY <2>3 DEF ManifestOK
  <2>5. ManifestOK(manifest)'
    BY <1>1 DEF KeystoreInv, TypeOK, ManifestOK
  <2>6. QED
    BY <1>1, <2>2, <2>4, <2>5 DEF KeystoreInv, TypeOK, ghosts
<1>8. Numbered'
  BY <1>1, <1>2, <1>3, <1>5 DEF KeystoreInv, Numbered, Advances
<1>9. EditIsSound'
  <2>1. ManifestOK(job.next)'
    BY <1>3, <1>2 DEF Advances, EditIsSound, ManifestOK
  <2>2. job.next.supersedes = manifest.version /\ job.next.prev = manifest.mark
    BY <1>2 DEF EditIsSound
  <2>3. job'.next.supersedes \in DOMAIN history' /\ history'[job'.next.supersedes] = job'.next.prev
    BY <1>3, <1>5, <2>2 DEF Advances
  <2>4. QED
    BY <1>1, <1>2, <1>3, <2>1, <2>3 DEF EditIsSound, Advances
<1>10. ChainInv'
  <2>1. manifest.fmt = "v03" /\ manifest.prev # None => manifest.supersedes # manifest.version
    BY <1>6 DEF KeystoreInv, ChainInv, TypeOK, ManifestOK, Editions
  <2>2. manifest.fmt = "v03" /\ manifest.prev # None =>
           /\ manifest.supersedes \in DOMAIN history'
           /\ history'[manifest.supersedes] = manifest.prev
    BY <1>5, <2>1 DEF KeystoreInv, ChainInv, EditionChain
  <2>3. ~flattened /\ ~skipped => \A v \in DOMAIN history' :
           /\ v <= manifest.version
           /\ v = manifest.version => history'[v] = manifest.mark
    BY <1>5, <1>6 DEF KeystoreInv, ChainInv, EditionChain
  <2>4. QED
    BY <1>1, <2>2, <2>3 DEF KeystoreInv, ChainInv, EditionChain, ghosts
<1>11. DroppedInv'
  BY <1>1, <1>2, <1>3 DEF KeystoreInv, DroppedInv, Drops, Advances, ghosts
<1>12. KeptInv'
  <2>1. Exposed = {}
    BY <1>1 DEF Exposed
  <2>2. AcknowledgedIsKept => AcknowledgedIsKept'
    BY <1>1, <2>1, OpensStays DEF AcknowledgedIsKept, ghosts
  <2>3. TakenOver => TakenOver'
    BY <1>1, <1>2, <1>3, <1>4 DEF TakenOver, Advances, Repinning, ghosts
  <2>4. QED
    BY <1>1, <2>2, <2>3 DEF KeystoreInv, KeptInv, ghosts
<1>13. QED
  BY <1>4, <1>7, <1>8, <1>9, <1>10, <1>11, <1>12 DEF KeystoreInv

\* A file of a section or the manifest is copied: to the invariant but for what opens.
LEMMA CopyKeepsTheRest ==
    ASSUME KeystoreInv, NEW f, CopyFile(f)
    PROVE  /\ Advances(IF job.todo = {f} THEN "clean" ELSE "copy", job.todo \ {f})
           /\ Editing /\ Editing' /\ ~Repinning'
           /\ TypeOK' /\ Numbered' /\ JobIsSound' /\ EditIsSound' /\ RepinIsSound'
           /\ ChainInv' /\ DroppedInv'
<1> DEFINE step == IF job.todo = {f} THEN "clean" ELSE "copy"
<1>1. /\ job.step = "copy" /\ f \in job.todo
      /\ IF f = "manifest" THEN manifest' = job.next /\ blobs' = blobs
         ELSE blobs' = Put(blobs, f, job.blobs[f]) /\ manifest' = manifest
      /\ job' = [job EXCEPT !.todo = job.todo \ {f}, !.step = step]
      /\ UNCHANGED <<history, mono, mandates, revoked, made, ghosts>>
  BY DEF CopyFile
<1>2. Editing /\ EditIsSound
  BY <1>1 DEF Editing, KeystoreInv
<1>3. Advances(step, job.todo \ {f})
  BY <1>1, <1>2 DEF Advances, EditIsSound
<1>4. step \in {"copy", "clean"}
  OBVIOUS
<1> HIDE DEF step
<1>5. Editing' /\ ~Repinning' /\ JobIsSound' /\ RepinIsSound'
  BY <1>1, <1>2, <1>3, <1>4, AdvancedJobIsSound
<1>6. f # "manifest" => f \in DOMAIN job.blobs /\ f \in Sections
  BY <1>1, <1>2 DEF EditIsSound, ManifestOK
<1>7. /\ f # "manifest" => /\ DOMAIN blobs' = DOMAIN blobs \cup {f} /\ blobs'[f] = job.blobs[f]
                           /\ \A s \in DOMAIN blobs : s # f => blobs'[s] = blobs[s]
      /\ f = "manifest" => blobs' = blobs
  BY <1>1 DEF Put
<1>8. ManifestOK(job.next)' /\ ManifestOK(manifest)'
  <2>1. ManifestOK(job.next) /\ ManifestOK(manifest)
    BY <1>2 DEF EditIsSound, KeystoreInv, TypeOK
  <2>2. (manifest' = job.next \/ manifest' = manifest) /\ job'.next = job.next
    BY <1>1, <1>3 DEF Advances
  <2>3. QED
    BY <2>1, <2>2 DEF ManifestOK
<1>9. TypeOK'
  <2>1. DOMAIN blobs' \subseteq Sections
    BY <1>6, <1>7 DEF KeystoreInv, TypeOK
  <2>2. QED
    BY <1>1, <1>8, <2>1 DEF KeystoreInv, TypeOK, ghosts
<1>10. Numbered'
  BY <1>1, <1>2, <1>3, <1>5 DEF KeystoreInv, Numbered, Advances
<1>11. EditIsSound'
  <2>1. \A s \in DOMAIN job'.blobs \ job'.todo : s \in DOMAIN blobs' /\ blobs'[s] = job'.blobs[s]
    <3> SUFFICES ASSUME NEW s \in DOMAIN job.blobs, s \notin job.todo \ {f}
                 PROVE  s \in DOMAIN blobs' /\ blobs'[s] = job.blobs[s]
      BY <1>3 DEF Advances
    <3>1. CASE s = f
      <4>1. s # "manifest"
        BY <1>2, KeystoreAssumption DEF EditIsSound, ManifestOK
      <4>2. QED
        BY <1>7, <3>1, <4>1
    <3>2. CASE s # f
      <4>1. s \in DOMAIN blobs /\ blobs[s] = job.blobs[s]
        BY <1>2, <3>2 DEF EditIsSound
      <4>2. QED
        BY <1>7, <3>2, <4>1
    <3>3. QED
      BY <3>1, <3>2
  <2>2. IF "manifest" \in job'.todo
        THEN /\ job'.next.prev = manifest'.mark /\ job'.next.supersedes = manifest'.version
             /\ job'.next.version = manifest'.version + 1
             /\ manifest'.fmt = IF job'.phase = "patch" THEN "v03" ELSE "v02"
        ELSE manifest' = job'.next
    BY <1>1, <1>2, <1>3 DEF EditIsSound, Advances
  <2>3. job'.step = "clean" => job'.todo = {}
    BY <1>3, <1>4 DEF Advances, step
  <2>4. job'.step # "archive"
    BY <1>3, <1>4 DEF Advances
  <2>5. job'.next.supersedes \in DOMAIN history' /\ history'[job'.next.supersedes] = job'.next.prev
    BY <1>1, <1>2, <1>3 DEF EditIsSound, Advances
  <2>6. job'.phase = "patch" => \A s \in Sections \ (job'.ups \cup job'.dels) :
           /\ s \in DOMAIN job'.next.sections <=> s \in DOMAIN manifest'.sections
           /\ s \in DOMAIN job'.next.sections => job'.next.sections[s] = manifest'.sections[s]
    BY <1>1, <1>2, <1>3 DEF EditIsSound, Advances
  <2>7. job'.todo \subseteq DOMAIN job'.blobs \cup {"manifest"}
    BY <1>2, <1>3 DEF EditIsSound, Advances
  <2>8. QED
    BY <1>2, <1>3, <1>8, <2>1, <2>2, <2>3, <2>4, <2>5, <2>6, <2>7 DEF EditIsSound, Advances
<1>12. ChainInv'
  <2>1. CASE f # "manifest"
    BY <1>1, <2>1 DEF KeystoreInv, ChainInv, EditionChain, ghosts
  <2>2. CASE f = "manifest"
    <3>1. /\ job.next.supersedes \in DOMAIN history
          /\ history[job.next.supersedes] = job.next.prev
          /\ job.next.supersedes = manifest.version /\ job.next.version = manifest.version + 1
      BY <1>1, <1>2, <2>2 DEF EditIsSound
    <3>2. manifest.version \in Int /\ \A v \in DOMAIN history : v \in Int
      BY DEF KeystoreInv, Numbered
    <3>3. ~flattened /\ ~skipped => \A v \in DOMAIN history : v < job.next.version
      BY <3>1, <3>2 DEF KeystoreInv, ChainInv, EditionChain
    <3>4. job.next.version \in Int
      BY <3>1, <3>2
    <3>5. QED
      BY <1>1, <2>2, <3>1, <3>2, <3>3, <3>4 DEF ChainInv, EditionChain, ghosts
  <2>3. QED
    BY <2>1, <2>2
<1>13. DroppedInv'
  BY <1>1, <1>2, <1>3 DEF KeystoreInv, DroppedInv, Drops, Advances, ghosts
<1>14. QED
  BY <1>2, <1>3, <1>5, <1>9, <1>10, <1>11, <1>12, <1>13 DEF step

\* Copying a file of a patch disturbs the sections of the edit only; a migration
\* reads from the zones until its manifest is there, and then from what was copied.
LEMMA CopyKeepsKept == ASSUME KeystoreInv, NEW f, CopyFile(f) PROVE KeptInv'
<1>1. /\ job.step = "copy" /\ f \in job.todo
      /\ IF f = "manifest" THEN manifest' = job.next /\ blobs' = blobs
         ELSE blobs' = Put(blobs, f, job.blobs[f]) /\ manifest' = manifest
      /\ UNCHANGED <<mono, ghosts>>
  BY DEF CopyFile
<1>2. /\ Editing /\ Editing' /\ ~Repinning' /\ EditIsSound /\ EditIsSound'
      /\ Advances(IF job.todo = {f} THEN "clean" ELSE "copy", job.todo \ {f})
  BY CopyKeepsTheRest DEF KeystoreInv
<1>3. f # "manifest" => f \in DOMAIN job.blobs
  BY <1>1, <1>2 DEF EditIsSound
<1>4. CASE flattened
  BY <1>1, <1>4 DEF KeptInv, ghosts
<1>5. CASE ~flattened
  <2>1. AcknowledgedIsKept /\ TakenOver
    BY <1>5 DEF KeystoreInv, KeptInv
  <2>2. TakenOver'
    BY <1>1, <1>2, <2>1 DEF TakenOver, Advances, Repinning, ghosts
  <2>3. CASE job.phase = "patch"
    <3>1. Exposed = job.ups \cup job.dels /\ Exposed' = job.ups \cup job.dels
      BY <1>1, <1>2, <2>3 DEF Exposed, Advances
    <3>2. manifest.fmt = "v03" /\ manifest'.fmt = "v03"
      BY <1>1, <1>2, <2>3 DEF EditIsSound
    <3>3. ASSUME NEW s \in Sections \ (job.ups \cup job.dels) PROVE Opens(s)' = Opens(s)
      <4>1. f # s /\ (f # "manifest" => f \in job.ups)
        BY <1>2, <1>3, <2>3, <3>3, KeystoreAssumption DEF EditIsSound
      <4>2. s \in DOMAIN blobs' <=> s \in DOMAIN blobs
        BY <1>1, <4>1 DEF Put
      <4>3. s \in DOMAIN blobs => blobs'[s] = blobs[s]
        BY <1>1, <4>1 DEF Put
      <4>4. /\ s \in DOMAIN manifest'.sections <=> s \in DOMAIN manifest.sections
            /\ s \in DOMAIN manifest.sections => manifest'.sections[s] = manifest.sections[s]
        BY <1>1, <1>2, <2>3, <3>3 DEF EditIsSound
      <4>5. QED
        BY <3>2, <4>2, <4>3, <4>4 DEF Opens, SectionOpens
    <3>4. AcknowledgedIsKept'
      BY <1>1, <2>1, <3>1, <3>3 DEF AcknowledgedIsKept, ghosts
    <3>5. QED
      BY <2>2, <3>4 DEF KeptInv
  <2>4. CASE job.phase = "migrate" /\ "manifest" \in job.todo \ {f}
    <3>1. manifest' = manifest /\ manifest.fmt = "v02" /\ job'.step = "copy"
      BY <1>1, <1>2, <2>4 DEF EditIsSound, Advances
    <3>2. Exposed = {} /\ Exposed' = {}
      BY <1>1, <1>2, <2>4, <3>1 DEF Exposed, Advances
    <3>3. \A s : Opens(s)' = Opens(s)
      BY <1>1, <3>1 DEF Opens, ZoneOpens, ZoneDoc
    <3>4. AcknowledgedIsKept'
      BY <1>1, <2>1, <3>2, <3>3 DEF AcknowledgedIsKept, ghosts
    <3>5. QED
      BY <2>2, <3>4 DEF KeptInv
  <2>5. CASE job.phase = "migrate" /\ "manifest" \notin job.todo \ {f}
    <3>1. manifest' = job'.next /\ manifest'.fmt = "v03" /\ "manifest" \notin job'.todo
          /\ job'.phase = "migrate"
      BY <1>2, <2>5 DEF EditIsSound, Advances
    <3>2. job'.step = "clean" => job'.todo = {}
      BY <1>2 DEF EditIsSound
    <3>3. Exposed' = job'.todo
      <4>1. CASE job'.step = "clean"
        BY <3>1, <3>2, <4>1 DEF Exposed
      <4>2. CASE job'.step = "copy"
        BY <3>1, <4>2 DEF Exposed
      <4>3. QED
        BY <1>2, <4>1, <4>2 DEF Advances
    <3>4. ASSUME NEW s \in Sections \ (lost' \cup job'.todo) PROVE Opens(s)' = owed'[s]
      <4>1. owed'[s] = IF s \in DOMAIN job'.blobs THEN job'.blobs[s].text ELSE None
        BY <1>2, <2>2, <3>1, <3>4 DEF TakenOver
      <4>2. DOMAIN manifest'.sections = DOMAIN job'.blobs
        BY <1>2, <3>1 DEF EditIsSound
      <4>3. CASE s \in DOMAIN job'.blobs
        <5>1. /\ s \in DOMAIN blobs' /\ blobs'[s] = job'.blobs[s]
              /\ job'.blobs[s].seal = manifest'.sections[s].seal
              /\ ZoneOf[s] # "public" => Owner \in manifest'.sections[s].wraps
          BY <1>2, <3>1, <3>4, <4>3 DEF EditIsSound
        <5>2. QED
          BY <3>1, <4>1, <4>2, <4>3, <5>1 DEF Opens, SectionOpens
      <4>4. CASE s \notin DOMAIN job'.blobs
        BY <3>1, <4>1, <4>2, <4>4 DEF Opens, SectionOpens
      <4>5. QED
        BY <4>3, <4>4
    <3>5. AcknowledgedIsKept'
      BY <3>3, <3>4 DEF AcknowledgedIsKept
    <3>6. QED
      BY <2>2, <3>5 DEF KeptInv
  <2>6. QED
    BY <1>2, <2>3, <2>4, <2>5 DEF EditIsSound
<1>6. QED
  BY <1>4, <1>5

\* Copying a file keeps the invariant.
LEMMA CopyKeeps == ASSUME KeystoreInv, NEW f, CopyFile(f) PROVE KeystoreInv'
BY CopyKeepsKept, CopyKeepsTheRest DEF KeystoreInv

\* The last step of an edition: what it does to the files alone.
LEMMA CleanLeaves ==
    ASSUME KeystoreInv, Clean
    PROVE  /\ Editing /\ EditIsSound /\ manifest = job.next /\ manifest.fmt = "v03"
           /\ \A s \in DOMAIN manifest.sections :
                 /\ s \in DOMAIN blobs' <=> s \in DOMAIN blobs
                 /\ s \in DOMAIN blobs => blobs'[s] = blobs[s]
           /\ \A s : s \in DOMAIN manifest.sections => SectionOpens(Owner, s)' = SectionOpens(Owner, s)
           /\ \A s : Opens(s)' = Opens(s)
           /\ DOMAIN blobs' \subseteq DOMAIN blobs /\ DOMAIN mono' = {}
           /\ \A s \in DOMAIN job.blobs : blobs[s] = job.blobs[s] /\ s \in DOMAIN blobs
<1>1. job.step = "clean" /\ manifest' = manifest /\ mono' = Empty
      /\ blobs' = Restrict(blobs, DOMAIN blobs \cap DOMAIN job.next.sections)
  BY DEF Clean, Keep
<1>2. Editing /\ EditIsSound /\ job.todo = {}
  BY <1>1 DEF Editing, KeystoreInv, EditIsSound
<1>3. manifest = job.next /\ manifest.fmt = "v03"
  BY <1>2 DEF EditIsSound
<1>4. /\ DOMAIN blobs' = DOMAIN blobs \cap DOMAIN manifest.sections
      /\ \A s \in DOMAIN blobs' : blobs'[s] = blobs[s]
  BY <1>1, <1>3 DEF Restrict
<1>5. \A s : s \in DOMAIN manifest.sections => SectionOpens(Owner, s)' = SectionOpens(Owner, s)
  BY <1>1, <1>4 DEF SectionOpens
<1>6. \A s : Opens(s)' = Opens(s)
  BY <1>1, <1>3, <1>4 DEF Opens, SectionOpens
<1>7. \A s \in DOMAIN job.blobs : blobs[s] = job.blobs[s] /\ s \in DOMAIN blobs
  BY <1>2 DEF EditIsSound
<1>8. QED
  BY <1>1, <1>2, <1>3, <1>4, <1>5, <1>6, <1>7 DEF Empty

\* Removing the files that no section names keeps the invariant.
LEMMA CleanKeeps == KeystoreInv /\ Clean => KeystoreInv'
<1> SUFFICES ASSUME KeystoreInv, Clean PROVE KeystoreInv'
  OBVIOUS
<1>1. /\ job.step = "clean" /\ manifest' = manifest
      /\ IF job.phase = "migrate"
         THEN /\ job' = [step |-> "patch", author |-> job.author, ups |-> job.ups, dels |-> job.dels]
              /\ UNCHANGED ghosts
         ELSE /\ job' = Idle
              /\ owed' = [s \in Sections |-> CASE s \in job.ups -> job.next.mark
                                               [] s \in job.dels -> None
                                               [] OTHER -> owed[s]]
              /\ lost' = lost \ (job.ups \cup job.dels)
              /\ UNCHANGED <<flattened, skipped, dropped>>
      /\ UNCHANGED <<history, mandates, revoked, made>>
  BY DEF Clean
<1>2. /\ Editing /\ EditIsSound /\ manifest = job.next /\ manifest.fmt = "v03"
      /\ \A s : Opens(s)' = Opens(s)
      /\ DOMAIN blobs' \subseteq DOMAIN blobs /\ DOMAIN mono' = {}
  BY CleanLeaves
<1>3. UNCHANGED <<flattened, skipped, dropped>>
  BY <1>1 DEF ghosts
<1>4. ~Editing' /\ ~Repinning'
  BY <1>1 DEF Editing, Repinning, Idle
<1>5. JobIsSound'
  BY <1>1, <1>2, <1>4 DEF KeystoreInv, JobIsSound, Idle
<1>6. owed' \in [Sections -> Editions] /\ lost' \subseteq Sections
  <2>1. owed \in [Sections -> Editions] /\ lost \subseteq Sections
    BY DEF KeystoreInv, TypeOK
  <2>2. job.next.mark \in Editions /\ None \in Editions
    BY <1>2, KeystoreAssumption DEF EditIsSound, ManifestOK, Editions, None
  <2>3. CASE job.phase = "migrate"
    BY <1>1, <2>1, <2>3 DEF ghosts
  <2>4. CASE job.phase # "migrate"
    BY <1>1, <2>1, <2>2, <2>4
  <2>5. QED
    BY <2>3, <2>4
<1>7. TypeOK'
  <2>1. ManifestOK(manifest)'
    BY <1>1 DEF KeystoreInv, TypeOK, ManifestOK
  <2>2. job'.step \notin {"archive", "copy", "clean", "zones", "filed"}
    BY <1>4 DEF Editing, Repinning
  <2>3. QED
    BY <1>1, <1>2, <1>3, <1>6, <2>1, <2>2 DEF KeystoreInv, TypeOK
<1>8. Numbered' /\ EditIsSound' /\ RepinIsSound'
  BY <1>1, <1>4 DEF KeystoreInv, Numbered, EditIsSound, RepinIsSound
<1>9. ChainInv' /\ DroppedInv'
  BY <1>1, <1>3, <1>4 DEF KeystoreInv, ChainInv, EditionChain, DroppedInv, Drops
<1>10. KeptInv'
  <2>1. CASE flattened
    BY <1>3, <2>1 DEF KeptInv
  <2>2. CASE ~flattened
    <3>1. AcknowledgedIsKept /\ TakenOver'
      BY <1>4, <2>2 DEF KeystoreInv, KeptInv, TakenOver, Repinning
    <3>2. Exposed' = {}
      BY <1>1 DEF Exposed, Idle
    <3>3. CASE job.phase = "migrate"
      <4>1. Exposed = {}
        BY <1>1, <3>3 DEF Exposed
      <4>2. AcknowledgedIsKept'
        BY <1>1, <1>2, <3>1, <3>2, <3>3, <4>1 DEF AcknowledgedIsKept, ghosts
      <4>3. QED
        BY <3>1, <4>2 DEF KeptInv
    <3>4. CASE job.phase = "patch"
      <4>1. Exposed = job.ups \cup job.dels
        BY <1>1, <3>4 DEF Exposed
      <4>2. job.ups \cap job.dels = {} /\ job.ups \subseteq Sections
        BY <1>2 DEF KeystoreInv, JobIsSound
      <4>3. ASSUME NEW s \in Sections \ lost' PROVE Opens(s)' = owed'[s]
        <5>1. CASE s \in job.ups
          <6>1. owed'[s] = job.next.mark
            BY <1>1, <3>4, <4>2, <5>1
          <6>2. /\ s \in DOMAIN job.blobs /\ job.blobs[s].text = job.next.mark
                /\ job.blobs[s].seal = job.next.mark /\ s \in DOMAIN manifest.sections
                /\ manifest.sections[s].seal = job.next.mark
                /\ ZoneOf[s] # "public" => Owner \in manifest.sections[s].wraps
            BY <1>2, <3>4, <5>1 DEF EditIsSound
          <6>3. s \in DOMAIN blobs /\ blobs[s] = job.blobs[s]
            BY <6>2, CleanLeaves
          <6>4. Opens(s) = job.next.mark
            BY <1>2, <6>2, <6>3 DEF Opens, SectionOpens
          <6>5. QED
            BY <1>2, <6>1, <6>4
        <5>2. CASE s \in job.dels
          <6>1. owed'[s] = None
            BY <1>1, <3>4, <4>2, <5>2
          <6>2. s \notin DOMAIN manifest.sections
            BY <1>2, <3>4, <5>2 DEF EditIsSound
          <6>3. Opens(s) = None
            BY <1>2, <6>2 DEF Opens, SectionOpens
          <6>4. QED
            BY <1>2, <6>1, <6>3
        <5>3. CASE s \notin job.ups \cup job.dels
          <6>1. owed'[s] = owed[s] /\ s \notin lost
            BY <1>1, <3>4, <5>3, <4>3
          <6>2. Opens(s) = owed[s]
            BY <3>1, <4>1, <5>3, <6>1 DEF AcknowledgedIsKept
          <6>3. QED
            BY <1>2, <6>1, <6>2
        <5>4. QED
          BY <5>1, <5>2, <5>3
      <4>4. AcknowledgedIsKept'
        BY <3>2, <4>3 DEF AcknowledgedIsKept
      <4>5. QED
        BY <3>1, <4>4 DEF KeptInv
    <3>5. QED
      BY <1>2, <3>3, <3>4 DEF EditIsSound
  <2>3. QED
    BY <2>1, <2>2
<1>11. QED
  BY <1>5, <1>7, <1>8, <1>9, <1>10 DEF KeystoreInv

-----------------------------------------------------------------------------
\* A repin loads the zones and builds its edition without the revoked.
LEMMA LoadKeeps == KeystoreInv /\ Load => KeystoreInv'
<1> SUFFICES ASSUME KeystoreInv, Load PROVE KeystoreInv'
  OBVIOUS
<1> DEFINE zones == [z \in Encrypted |-> [seal |-> NewEdition, wraps |-> ZoneRecipients(z)]]
           next == [fmt |-> "v02", mark |-> NewEdition,
                    version |-> Max(DOMAIN history \cup {0}) + 1,
                    prev |-> manifest.mark, supersedes |-> manifest.version,
                    sections |-> Empty, zones |-> zones]
           docs == [z \in Zones |-> ZoneDoc(z)]
<1>1. /\ job.step = "load" /\ made < MaxEditions /\ \A z \in Zones : ZoneOpens(z)
      /\ job' = [step |-> "zones", revokes |-> job.revokes, docs |-> docs, written |-> {},
                 next |-> next]
      /\ made' = NewEdition /\ UNCHANGED <<files, mandates, revoked, ghosts>>
  BY DEF Load
<1>2. /\ next.fmt = "v02" /\ next.mark = made + 1
      /\ next.version = Max(DOMAIN history \cup {0}) + 1
      /\ next.prev = manifest.mark /\ next.supersedes = manifest.version
      /\ next.sections = Empty /\ next.zones = zones
  BY DEF NewEdition
<1>3. /\ DOMAIN zones = Encrypted
      /\ \A z \in Encrypted : zones[z] = [seal |-> made + 1, wraps |-> ZoneRecipients(z)]
  BY DEF NewEdition
<1>4. DOMAIN docs = Zones /\ \A z \in Zones : docs[z] = ZoneDoc(z)
  OBVIOUS
<1> HIDE DEF zones, next, docs
<1>5. /\ DOMAIN job' = {"step", "revokes", "docs", "written", "next"}
      /\ job'.step = "zones" /\ job'.revokes = job.revokes /\ job'.docs = docs
      /\ job'.written = {} /\ job'.next = next
  BY <1>1
<1>6. /\ made \in 1..MaxEditions /\ made' = made + 1 /\ MaxEditions \in Nat
      /\ manifest.version \in 1..made /\ manifest.mark \in 1..made
      /\ DOMAIN history \in SUBSET (1..made)
  BY <1>1, KeystoreAssumption DEF KeystoreInv, Numbered, NewEdition
<1>7. next.version \in 1..made' /\ \A v \in DOMAIN history : v < next.version
  <2>1. made \in Nat
    BY <1>6
  <2>2. /\ Max(DOMAIN history \cup {0}) \in 0..made
        /\ \A v \in DOMAIN history : v <= Max(DOMAIN history \cup {0})
    BY <1>6, <2>1, NextIsBeyond
  <2>3. \A v \in DOMAIN history : v \in Int
    BY <1>6
  <2>4. QED
    BY <1>2, <1>6, <2>2, <2>3
<1>8. ~Editing' /\ Repinning' /\ JobIsSound'
  BY <1>1, <1>5 DEF Editing, Repinning, KeystoreInv, JobIsSound
<1>9. revoked \subseteq mandates /\ mandates \subseteq Delegates /\ dropped \subseteq revoked
  BY DEF KeystoreInv, TypeOK
<1>10. \A z \in Encrypted : /\ ZoneRecipients(z) \subseteq Delegates \cup {Owner}
                            /\ ZoneRecipients(z) \cap revoked = {}
  BY <1>9, KeystoreAssumption DEF ZoneRecipients, ActiveDelegates
<1>11. DOMAIN Empty = {}
  BY DEF Empty
<1>12. ManifestOK(next)
  <2>1. next.mark \in Editions \ {None} /\ next.version \in Editions \ {None}
        /\ next.prev \in Editions /\ next.supersedes \in Editions
    BY <1>1, <1>2, <1>6, <1>7 DEF Editions, None
  <2>2. \A z \in Encrypted : zones[z] \in Locks
    BY <1>2, <1>3, <1>10, <2>1 DEF Locks
  <2>3. QED
    BY <1>2, <1>3, <1>11, <2>1, <2>2 DEF ManifestOK
<1>13. ManifestOK(job.next)'
  <2>1. ManifestOK(job'.next)
    BY <1>5, <1>12
  <2>2. QED
    BY <2>1 DEF ManifestOK, Editions, Locks
<1>14. TypeOK'
  <2>1. made' \in Editions
    BY <1>1, <1>6 DEF Editions
  <2>2. QED
    BY <1>1, <1>9, <1>13, <2>1 DEF KeystoreInv, TypeOK, ManifestOK, Editions, Locks, files, ghosts
<1>15. Numbered'
  BY <1>1, <1>2, <1>5, <1>6, <1>7 DEF Numbered, files
<1>16. EditIsSound'
  BY <1>8 DEF EditIsSound
<1>17. RepinIsSound'
  <2>1. \A z \in Encrypted : /\ job'.next.zones[z].seal = job'.next.mark
                             /\ job'.next.zones[z].wraps \cap revoked = {}
    BY <1>2, <1>3, <1>5, <1>10
  <2>2. DOMAIN job'.next.sections = {} /\ job'.next.fmt = "v02"
    BY <1>2, <1>5, <1>11
  <2>3. \A v \in DOMAIN history' : v < job'.next.version
    BY <1>1, <1>5, <1>7 DEF files
  <2>4. QED
    BY <1>1, <1>4, <1>5, <1>13, <2>1, <2>2, <2>3 DEF RepinIsSound
<1>18. ChainInv' /\ DroppedInv'
  BY <1>1, <1>8 DEF KeystoreInv, ChainInv, EditionChain, DroppedInv, Drops, files, ghosts
<1>19. KeptInv'
  <2>1. Exposed = {} /\ Exposed' = {}
    BY <1>1, <1>5 DEF Exposed
  <2>2. AcknowledgedIsKept => AcknowledgedIsKept'
    BY <1>1, <2>1, OpensStays DEF AcknowledgedIsKept, files, ghosts
  <2>3. AcknowledgedIsKept => TakenOver'
    <3> SUFFICES ASSUME AcknowledgedIsKept, manifest.fmt = "v02", NEW s \in Sections \ lost
                 PROVE  owed[s] = IF s \in DOMAIN docs[ZoneOf[s]] THEN docs[ZoneOf[s]][s] ELSE None
      BY <1>1, <1>5, <1>8 DEF TakenOver, files, ghosts
    <3>1. ZoneOf[s] \in Zones
      BY KeystoreAssumption
    <3>2. Opens(s) = IF s \in DOMAIN ZoneDoc(ZoneOf[s]) THEN ZoneDoc(ZoneOf[s])[s] ELSE None
      BY <1>1, <3>1 DEF Opens
    <3>3. QED
      BY <1>4, <2>1, <3>1, <3>2 DEF AcknowledgedIsKept
  <2>4. QED
    BY <1>1, <2>2, <2>3 DEF KeystoreInv, KeptInv, ghosts
<1>20. QED
  BY <1>8, <1>14, <1>15, <1>16, <1>17, <1>18, <1>19 DEF KeystoreInv

\* A repin writes the file of one zone.
LEMMA WriteZoneKeeps == ASSUME KeystoreInv, NEW z \in Zones, WriteZone(z) PROVE KeystoreInv'
<1>1. /\ job.step = "zones"
      /\ mono' = Put(mono, z, [seal |-> job.next.mark, doc |-> job.docs[z]])
      /\ job' = [job EXCEPT !.written = job.written \cup {z}]
      /\ UNCHANGED <<manifest, history, blobs, mandates, revoked, made, ghosts>>
  BY DEF WriteZone
<1>2. Repinning /\ RepinIsSound
  BY <1>1 DEF Repinning, KeystoreInv
<1>3. /\ DOMAIN job' = DOMAIN job /\ job'.step = "zones" /\ job'.revokes = job.revokes
      /\ job'.docs = job.docs /\ job'.next = job.next /\ job'.written = job.written \cup {z}
  BY <1>1, <1>2 DEF RepinIsSound
<1>4. /\ DOMAIN mono' = DOMAIN mono \cup {z}
      /\ mono'[z].seal = job.next.mark /\ mono'[z].doc = job.docs[z]
      /\ \A y \in DOMAIN mono : y # z => mono'[y] = mono[y]
  BY <1>1 DEF Put
<1>5. ~Editing' /\ Repinning' /\ JobIsSound'
  BY <1>1, <1>2, <1>3 DEF Editing, Repinning, KeystoreInv, JobIsSound
<1>6. ManifestOK(manifest)' /\ ManifestOK(job.next)'
  BY <1>1, <1>2, <1>3 DEF KeystoreInv, TypeOK, RepinIsSound, ManifestOK
<1>7. TypeOK'
  BY <1>1, <1>3, <1>4, <1>6 DEF KeystoreInv, TypeOK, ghosts
<1>8. Numbered' /\ EditIsSound'
  BY <1>1, <1>2, <1>3, <1>5 DEF KeystoreInv, Numbered, EditIsSound
<1>9. RepinIsSound'
  <2>1. \A y \in job'.written : /\ y \in DOMAIN mono'
                                /\ mono'[y].seal = job'.next.mark /\ mono'[y].doc = job'.docs[y]
    BY <1>2, <1>3, <1>4 DEF RepinIsSound
  <2>2. QED
    BY <1>1, <1>2, <1>3, <1>6, <2>1 DEF RepinIsSound
<1>10. ChainInv' /\ DroppedInv'
  BY <1>1, <1>5 DEF KeystoreInv, ChainInv, EditionChain, DroppedInv, Drops, ghosts
<1>11. AcknowledgedIsKept /\ TakenOver => AcknowledgedIsKept'
  <2> SUFFICES ASSUME AcknowledgedIsKept, TakenOver, NEW s \in Sections,
                      s \notin lost, s \notin Exposed'
               PROVE  Opens(s)' = owed[s]
    BY <1>1 DEF AcknowledgedIsKept, ghosts
  <2>1. ZoneOf[s] \in Zones
    BY KeystoreAssumption
  <2>2. CASE manifest.fmt = "v03"
    <3>1. Exposed = {}
      BY <1>1, <2>2 DEF Exposed
    <3>2. Opens(s)' = Opens(s)
      BY <1>1, <2>2 DEF Opens, SectionOpens
    <3>3. QED
      BY <3>1, <3>2 DEF AcknowledgedIsKept
  <2>3. CASE manifest.fmt = "v02"
    <3>1. /\ Exposed = {x \in Sections : ZoneOf[x] \in job.written \cap Encrypted}
          /\ Exposed' = {x \in Sections : ZoneOf[x] \in job'.written \cap Encrypted}
      BY <1>1, <1>3, <2>3 DEF Exposed
    <3>2. s \notin Exposed
      BY <1>3, <3>1
    <3>3. CASE ZoneOf[s] # z
      <4>1. Opens(s)' = Opens(s)
        BY <1>1, <1>4, <2>3, <3>3 DEF Opens, ZoneOpens, ZoneDoc
      <4>2. QED
        BY <3>2, <4>1 DEF AcknowledgedIsKept
    <3>4. CASE ZoneOf[s] = z
      <4>1. z \notin Encrypted
        BY <1>3, <3>1, <3>4
      <4>2. Opens(s)' = IF s \in DOMAIN job.docs[z] THEN job.docs[z][s] ELSE None
        BY <1>1, <1>4, <2>3, <3>4, <4>1 DEF Opens, ZoneOpens, ZoneDoc
      <4>3. QED
        BY <1>1, <2>3, <3>4, <4>2 DEF TakenOver
    <3>5. QED
      BY <3>3, <3>4
  <2>4. QED
    BY <2>2, <2>3 DEF KeystoreInv, TypeOK, ManifestOK
<1>12. KeptInv'
  <2>1. TakenOver => TakenOver'
    BY <1>1, <1>3, <1>5 DEF TakenOver, ghosts
  <2>2. QED
    BY <1>1, <1>11, <2>1 DEF KeystoreInv, KeptInv, ghosts
<1>13. QED
  BY <1>5, <1>7, <1>8, <1>9, <1>10, <1>12 DEF KeystoreInv

\* A repin writes its manifest, over whatever is there.
LEMMA WriteManifestKeeps == KeystoreInv /\ WriteManifest => KeystoreInv'
<1> SUFFICES ASSUME KeystoreInv, WriteManifest PROVE KeystoreInv'
  OBVIOUS
<1>1. /\ job.step = "zones" /\ job.written = Zones /\ manifest' = job.next
      /\ flattened' = (flattened \/ manifest.fmt = "v03")
      /\ job' = [job EXCEPT !.step = "filed"]
      /\ UNCHANGED <<history, blobs, mono, mandates, revoked, made, owed, lost, skipped, dropped>>
  BY DEF WriteManifest
<1>2. Repinning /\ RepinIsSound
  BY <1>1 DEF Repinning, KeystoreInv
<1>3. /\ DOMAIN job' = DOMAIN job /\ job'.step = "filed" /\ job'.revokes = job.revokes
      /\ job'.docs = job.docs /\ job'.next = job.next /\ job'.written = job.written
  BY <1>1, <1>2 DEF RepinIsSound
<1>4. ~Editing' /\ Repinning' /\ JobIsSound'
  BY <1>1, <1>2, <1>3 DEF Editing, Repinning, KeystoreInv, JobIsSound
<1>5. ManifestOK(manifest)' /\ ManifestOK(job.next)'
  BY <1>1, <1>2, <1>3 DEF RepinIsSound, ManifestOK
<1>6. TypeOK'
  BY <1>1, <1>3, <1>5 DEF KeystoreInv, TypeOK
<1>7. Numbered' /\ EditIsSound'
  BY <1>1, <1>2, <1>3, <1>4 DEF KeystoreInv, Numbered, EditIsSound
<1>8. RepinIsSound'
  BY <1>1, <1>2, <1>3, <1>5 DEF RepinIsSound
<1>9. ChainInv'
  <2>1. job.next.fmt = "v02" /\ \A v \in DOMAIN history : v < job.next.version
    BY <1>1, <1>2 DEF RepinIsSound
  <2>2. job.next.version \in Int /\ \A v \in DOMAIN history : v \in Int
    BY <1>2 DEF KeystoreInv, Numbered
  <2>3. QED
    BY <1>1, <2>1, <2>2 DEF ChainInv, EditionChain
<1>10. DroppedInv'
  <2>1. dropped \subseteq revoked
    BY DEF KeystoreInv, TypeOK
  <2>2. /\ DOMAIN job.next.sections = {} /\ DOMAIN job.next.zones = Encrypted
        /\ \A z \in Encrypted : job.next.zones[z].wraps \cap revoked = {}
    BY <1>2 DEF RepinIsSound, ManifestOK
  <2>3. Drops(job.next)
    BY <2>1, <2>2 DEF Drops
  <2>4. QED
    BY <1>1, <1>4, <2>3 DEF DroppedInv, Drops
<1>11. KeptInv'
  <2>1. CASE flattened \/ manifest.fmt = "v03"
    BY <1>1, <2>1 DEF KeptInv
  <2>2. CASE ~flattened /\ manifest.fmt = "v02"
    <3>1. TakenOver
      BY <2>2 DEF KeystoreInv, KeptInv
    <3>2. ASSUME NEW s \in Sections \ lost PROVE Opens(s)' = owed[s]
      <4>1. ZoneOf[s] \in Zones
        BY KeystoreAssumption
      <4>2. /\ ZoneOf[s] \in DOMAIN mono /\ mono[ZoneOf[s]].seal = job.next.mark
            /\ mono[ZoneOf[s]].doc = job.docs[ZoneOf[s]]
            /\ ZoneOf[s] \in Encrypted => job.next.zones[ZoneOf[s]].seal = job.next.mark
            /\ job.next.fmt = "v02"
        BY <1>1, <1>2, <4>1 DEF RepinIsSound
      <4>3. Opens(s)' = IF s \in DOMAIN job.docs[ZoneOf[s]] THEN job.docs[ZoneOf[s]][s] ELSE None
        BY <1>1, <4>2 DEF Opens, ZoneOpens, ZoneDoc
      <4>4. QED
        BY <1>1, <2>2, <3>1, <4>3 DEF TakenOver
    <3>3. AcknowledgedIsKept'
      BY <1>1, <3>2 DEF AcknowledgedIsKept
    <3>4. TakenOver'
      BY <1>3, <1>4 DEF TakenOver
    <3>5. QED
      BY <3>3, <3>4 DEF KeptInv
  <2>3. QED
    BY <2>1, <2>2 DEF KeystoreInv, TypeOK, ManifestOK
<1>12. QED
  BY <1>4, <1>6, <1>7, <1>8, <1>9, <1>10, <1>11 DEF KeystoreInv

\* A repin archives its own manifest, last.
LEMMA ArchiveNewKeeps == KeystoreInv /\ ArchiveNew => KeystoreInv'
<1> SUFFICES ASSUME KeystoreInv, ArchiveNew PROVE KeystoreInv'
  OBVIOUS
<1>1. /\ job.step = "filed" /\ history' = Put(history, job.next.version, job.next.mark)
      /\ dropped' = dropped \cup job.revokes /\ job' = Idle
      /\ UNCHANGED <<manifest, blobs, mono, mandates, revoked, made, owed, lost, flattened,
                     skipped>>
  BY DEF ArchiveNew
<1>2. Repinning /\ RepinIsSound /\ manifest = job.next /\ manifest.fmt = "v02"
  BY <1>1 DEF Repinning, KeystoreInv, RepinIsSound
<1>3. /\ DOMAIN history' = DOMAIN history \cup {manifest.version}
      /\ history'[manifest.version] = manifest.mark
      /\ \A v \in DOMAIN history : v # manifest.version => history'[v] = history[v]
  BY <1>1, <1>2 DEF Put
<1>4. ~Editing' /\ ~Repinning' /\ JobIsSound'
  BY <1>1 DEF Editing, Repinning, JobIsSound, Idle
<1>5. /\ dropped \subseteq revoked /\ job.revokes \subseteq revoked
      /\ manifest.version \in Editions /\ manifest.mark \in Editions
  BY <1>1, <1>2 DEF KeystoreInv, TypeOK, ManifestOK, JobIsSound
<1>6. TypeOK'
  <2>1. DOMAIN history \subseteq Editions /\ \A v \in DOMAIN history : history[v] \in Editions
    BY DEF KeystoreInv, TypeOK
  <2>2. DOMAIN history' \subseteq Editions /\ \A v \in DOMAIN history' : history'[v] \in Editions
    BY <1>3, <1>5, <2>1
  <2>3. ManifestOK(manifest)'
    BY <1>1 DEF KeystoreInv, TypeOK, ManifestOK
  <2>4. job'.step \notin {"archive", "copy", "clean", "zones", "filed"}
    BY <1>1 DEF Idle
  <2>5. QED
    BY <1>1, <1>5, <2>2, <2>3, <2>4 DEF KeystoreInv, TypeOK
<1>7. Numbered' /\ EditIsSound' /\ RepinIsSound'
  BY <1>1, <1>3, <1>4 DEF KeystoreInv, Numbered, EditIsSound, RepinIsSound
<1>8. ChainInv'
  <2>1. manifest.version \in Int
    BY DEF KeystoreInv, Numbered
  <2>2. ~flattened /\ ~skipped => \A v \in DOMAIN history' :
           /\ v <= manifest.version
           /\ v = manifest.version => history'[v] = manifest.mark
    BY <1>3, <2>1 DEF KeystoreInv, ChainInv, EditionChain
  <2>3. QED
    BY <1>1, <1>2, <2>2 DEF ChainInv, EditionChain
<1>9. DroppedInv'
  <2>1. /\ DOMAIN manifest.sections = {} /\ DOMAIN manifest.zones = Encrypted
        /\ \A z \in Encrypted : manifest.zones[z].wraps \cap revoked = {}
    BY <1>2 DEF RepinIsSound, ManifestOK
  <2>2. Drops(manifest)'
    BY <1>1, <1>5, <2>1 DEF Drops
  <2>3. QED
    BY <1>4, <2>2 DEF DroppedInv
<1>10. KeptInv'
  <2>1. Exposed = {} /\ Exposed' = {}
    BY <1>1 DEF Exposed, Idle
  <2>2. AcknowledgedIsKept => AcknowledgedIsKept'
    BY <1>1, <2>1, OpensStays DEF AcknowledgedIsKept
  <2>3. TakenOver'
    BY <1>4 DEF TakenOver, Repinning
  <2>4. QED
    BY <1>1, <2>2, <2>3 DEF KeystoreInv, KeptInv
<1>11. QED
  BY <1>4, <1>6, <1>7, <1>8, <1>9, <1>10 DEF KeystoreInv

\* A process that dies leaves its files and nothing else.
LEMMA CrashKeeps == KeystoreInv /\ Crash => KeystoreInv'
<1> SUFFICES ASSUME KeystoreInv, Crash PROVE KeystoreInv'
  OBVIOUS
<1>1. /\ lost' = lost \cup Exposed /\ skipped' = (skipped \/ job.step = "filed") /\ job' = Idle
      /\ UNCHANGED <<files, mandates, revoked, made, owed, flattened, dropped>>
  BY DEF Crash
<1>2. ~Editing' /\ ~Repinning' /\ JobIsSound'
  BY <1>1 DEF Editing, Repinning, JobIsSound, Idle
<1>3. Exposed \subseteq Sections
  <2>1. CASE job.step \in {"copy", "clean"}
    <3>1. Editing /\ EditIsSound /\ job.ups \subseteq Sections /\ job.dels \subseteq Sections
      BY <2>1 DEF Editing, KeystoreInv, JobIsSound
    <3>2. DOMAIN job.blobs \subseteq Sections
      BY <3>1 DEF EditIsSound, ManifestOK
    <3>3. job.todo \subseteq Sections \cup {"manifest"}
      BY <3>1, <3>2 DEF EditIsSound
    <3>4. QED
      BY <2>1, <3>1, <3>3 DEF Exposed, EditIsSound
  <2>2. CASE job.step = "zones"
    BY <2>2 DEF Exposed
  <2>3. CASE job.step \notin {"copy", "clean", "zones"}
    BY <2>3 DEF Exposed
  <2>4. QED
    BY <2>1, <2>2, <2>3
<1>4. TypeOK'
  <2>1. ManifestOK(manifest)'
    BY <1>1 DEF KeystoreInv, TypeOK, ManifestOK, files
  <2>2. job'.step \notin {"archive", "copy", "clean", "zones", "filed"}
    BY <1>1 DEF Idle
  <2>3. QED
    BY <1>1, <1>3, <2>1, <2>2 DEF KeystoreInv, TypeOK, files
<1>5. Numbered' /\ EditIsSound' /\ RepinIsSound'
  BY <1>1, <1>2 DEF KeystoreInv, Numbered, EditIsSound, RepinIsSound, files
<1>6. ChainInv' /\ DroppedInv'
  BY <1>1, <1>2 DEF KeystoreInv, ChainInv, EditionChain, DroppedInv, Drops, files
<1>7. KeptInv'
  <2>1. Exposed' = {}
    BY <1>1 DEF Exposed, Idle
  <2>2. AcknowledgedIsKept => AcknowledgedIsKept'
    BY <1>1, <2>1, OpensStays DEF AcknowledgedIsKept, files
  <2>3. TakenOver'
    BY <1>2 DEF TakenOver, Repinning
  <2>4. QED
    BY <1>1, <2>2, <2>3 DEF KeystoreInv, KeptInv
<1>8. QED
  BY <1>2, <1>4, <1>5, <1>6, <1>7 DEF KeystoreInv

-----------------------------------------------------------------------------
\* A fresh directory, of either format, is sound.
LEMMA InitIsSound == Init => KeystoreInv
<1> SUFFICES ASSUME Init PROVE KeystoreInv
  OBVIOUS
<1>1. /\ Fresh \/ Legacy
      /\ DOMAIN blobs = {} /\ revoked = {} /\ dropped = {} /\ job.step = "idle"
      /\ made = 1 /\ lost = {} /\ flattened = FALSE /\ skipped = FALSE
  BY DEF Init, Empty, Idle
<1>2. 1 \in Editions /\ 0 \in Editions /\ 1 \in 1..MaxEditions
  BY KeystoreAssumption DEF Editions
<1>3. DOMAIN Empty = {}
  BY DEF Empty
<1>4. ~Editing /\ ~Repinning /\ JobIsSound /\ Exposed = {}
  BY <1>1 DEF Editing, Repinning, JobIsSound, Exposed
<1>5. CASE Fresh
  <2>1. ManifestOK(manifest)
    BY <1>2, <1>3, <1>5 DEF Fresh, ManifestOK, None
  <2>2. manifest.fmt = "v03" /\ manifest.version = 1 /\ manifest.mark = 1 /\ manifest.prev = None
        /\ DOMAIN manifest.sections = {} /\ DOMAIN history = {} /\ DOMAIN mono = {}
        /\ mandates = {} /\ owed = [s \in Sections |-> None]
    BY <1>3, <1>5 DEF Fresh
  <2>3. TypeOK
    BY <1>1, <1>2, <2>1, <2>2 DEF TypeOK, None
  <2>4. Numbered /\ EditIsSound /\ RepinIsSound /\ ChainInv /\ DroppedInv
    BY <1>1, <1>2, <1>4, <2>2
       DEF Numbered, EditIsSound, RepinIsSound, ChainInv, EditionChain, DroppedInv, Drops
  <2>5. \A s \in Sections : Opens(s) = owed[s]
    BY <2>2 DEF Opens, SectionOpens
  <2>6. KeptInv
    BY <1>4, <2>5 DEF KeptInv, AcknowledgedIsKept, TakenOver, Repinning
  <2>7. QED
    BY <1>4, <2>3, <2>4, <2>6 DEF KeystoreInv
<1>6. CASE Legacy
  <2> DEFINE zones == [z \in Encrypted |->
                         [seal |-> 1, wraps |-> {Owner} \cup {d \in mandates : SphereOf[d] = z}]]
  <2>1. /\ mandates \subseteq Delegates /\ history = Put(Empty, 1, 1)
        /\ manifest.fmt = "v02" /\ manifest.version = 1 /\ manifest.mark = 1
        /\ manifest.prev = None /\ manifest.supersedes = None
        /\ manifest.sections = Empty /\ manifest.zones = zones
        /\ owed = [s \in Sections |-> 1]
    BY <1>6 DEF Legacy
  <2>2. /\ DOMAIN mono = Zones
        /\ \A z \in Zones : /\ mono[z].seal = 1
                            /\ mono[z].doc = [s \in {x \in Sections : ZoneOf[x] = z} |-> 1]
    BY <1>6 DEF Legacy
  <2>3. DOMAIN zones = Encrypted /\ \A z \in Encrypted : zones[z].seal = 1 /\ zones[z] \in Locks
    BY <1>2, <2>1 DEF Locks
  <2> HIDE DEF zones
  <2>4. DOMAIN history = {1} /\ history[1] = 1
    BY <1>3, <2>1 DEF Put
  <2>5. ManifestOK(manifest)
    BY <1>2, <1>3, <2>1, <2>3 DEF ManifestOK, None
  <2>6. owed \in [Sections -> Editions]
    BY <1>2, <2>1
  <2>7. TypeOK
    BY <1>1, <1>2, <2>1, <2>2, <2>4, <2>5, <2>6 DEF TypeOK
  <2>8. Numbered /\ EditIsSound /\ RepinIsSound /\ ChainInv /\ DroppedInv
    BY <1>1, <1>2, <1>3, <1>4, <2>1, <2>4
       DEF Numbered, EditIsSound, RepinIsSound, ChainInv, EditionChain, DroppedInv, Drops
  <2>9. ASSUME NEW s \in Sections PROVE Opens(s) = owed[s]
    <3>1. ZoneOf[s] \in Zones
      BY KeystoreAssumption
    <3>2. ZoneOpens(ZoneOf[s])
      BY <2>1, <2>2, <2>3 DEF ZoneOpens
    <3>3. ZoneDoc(ZoneOf[s]) = [x \in {y \in Sections : ZoneOf[y] = ZoneOf[s]} |-> 1]
      BY <2>2, <3>1 DEF ZoneDoc
    <3>4. QED
      BY <2>1, <3>2, <3>3 DEF Opens
  <2>10. KeptInv
    BY <1>4, <2>9 DEF KeptInv, AcknowledgedIsKept, TakenOver, Repinning
  <2>11. QED
    BY <1>4, <2>7, <2>8, <2>10 DEF KeystoreInv
<1>7. QED
  BY <1>1, <1>5, <1>6

\* The invariant is about the variables only.
LEMMA NothingHappens == KeystoreInv /\ UNCHANGED vars => KeystoreInv'
<1> SUFFICES ASSUME KeystoreInv, UNCHANGED vars PROVE KeystoreInv'
  OBVIOUS
<1> USE DEF vars
<1>1. TypeOK' /\ Numbered' /\ JobIsSound'
  BY DEF KeystoreInv, TypeOK, Numbered, JobIsSound, Editing, Repinning, ManifestOK, Editions, Locks
<1>2. EditIsSound' /\ RepinIsSound'
  BY DEF KeystoreInv, EditIsSound, RepinIsSound, Editing, Repinning, ManifestOK, Editions, Locks
<1>3. ChainInv' /\ DroppedInv'
  BY DEF KeystoreInv, ChainInv, EditionChain, DroppedInv, Drops, Editing
<1>4. KeptInv'
  <2>1. Exposed' = Exposed
    BY DEF Exposed
  <2>2. QED
    BY <2>1, OpensStays DEF KeystoreInv, KeptInv, AcknowledgedIsKept, TakenOver, Editing
<1>5. QED
  BY <1>1, <1>2, <1>3, <1>4 DEF KeystoreInv

\* The invariant of the directory, through every command and wherever it dies.
THEOREM KeystoreInvariant == Spec => []KeystoreInv
<1>1. KeystoreInv /\ [Next]_vars => KeystoreInv'
  <2> SUFFICES ASSUME KeystoreInv, [Next]_vars PROVE KeystoreInv'
    OBVIOUS
  <2>1. CASE \E author \in Delegates \cup {Owner}, ups, dels \in SUBSET Sections :
                BeginEdit(author, ups, dels)
    BY <2>1, BeginEditKeeps
  <2>2. CASE \E f \in Sections \cup {"manifest"} : CopyFile(f)
    BY <2>2, CopyKeeps
  <2>3. CASE \E d \in Delegates : Grant(d) \/ Revoke(d)
    BY <2>3, GrantKeeps, RevokeKeeps
  <2>4. CASE \E z \in Zones : WriteZone(z)
    BY <2>4, WriteZoneKeeps
  <2>5. QED
    BY <2>1, <2>2, <2>3, <2>4, MigrateBuildKeeps, PatchBuildKeeps, FailKeeps, ArchiveKeeps,
       CleanKeeps, LoadKeeps, WriteManifestKeeps, ArchiveNewKeeps, CrashKeeps, NothingHappens
       DEF Next
<1>2. QED
  BY <1>1, InitIsSound, PTL DEF Spec

\* The types of the directory, and the chain that a verifier walks: the history holds
\* the edition that a v0.3 manifest supersedes, with the hash that it has for it, and
\* no other edition under the live version.
THEOREM DirectoriesAreSound == Spec => []DirectoryIsSound
<1>1. KeystoreInv => DirectoryIsSound
  BY DEF KeystoreInv, ChainInv, DirectoryIsSound
<1>2. QED
  BY <1>1, KeystoreInvariant, PTL

\* What a write that returned has written is what the owner reads, through edits,
\* batches, migrations, grants and revokes, but for the sections a process died on, and
\* until a grant or a revoke meets a v0.3 directory.
THEOREM WritesAreKept == Spec => []KeptUnlessFlattened
<1>1. KeystoreInv => KeptUnlessFlattened
  BY DEF KeystoreInv, KeptInv, KeptUnlessFlattened
<1>2. QED
  BY <1>1, KeystoreInvariant, PTL

\* Once a revoke has returned, no key of the live edition is wrapped for the agent, and
\* no later migration or edit brings it back.
THEOREM RevokedAgentsAreDropped == Spec => []RevokedIsDropped
<1>1. KeystoreInv => RevokedIsDropped
  BY DEF KeystoreInv, DroppedInv, Drops, RevokedIsDropped
<1>2. QED
  BY <1>1, KeystoreInvariant, PTL
================================================================================
