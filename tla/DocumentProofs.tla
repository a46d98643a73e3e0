----------------------------- MODULE DocumentProofs -----------------------------
(***************************************************************************)
(* What the decisions about documents guarantee one another: mandates,     *)
(* action artifacts, sponsorships and receipts (who may do what), sealed   *)
(* records, assets and sections (who can open what), bundles and gamma     *)
(* logs (what verification shows), for every document, key and instant.    *)
(*                                                                         *)
(* The last part is about the log that a PDS makes (GammaChain), for any   *)
(* number of appends.  A ULID is drawn once, so a new entry has one that   *)
(* nothing names: it can only be a leaf, and nothing mends a broken chain. *)
(* While appends are calm, the one under way is alone, so the head it has  *)
(* read is the latest entry and its ULID is later than all others.         *)
(***************************************************************************)
EXTENDS Sponsorship, GammaLog, GammaChain, FiniteSetTheorems, WellFoundedInduction, TLAPS

-------------------------------------------------------------------------------
(* Mandates and action artifacts *)

\* coversOperation and coversRead agree: who may create or change a section of a
\* zone may read it; only the right to delete comes alone.
THEOREM ChangingImpliesReading ==
    ASSUME NEW scopes, NEW zone, NEW op, NEW section,
           CoversOperation(scopes, zone, op, section), op # "delete"
    PROVE  CoversRead(scopes, zone, section)
<1>1. PICK p \in Parsed(scopes) : /\ p.zone # "all"
                                  /\ ZoneMatches(p.zone, zone)
                                  /\ VerbGrantsOp(p.verb, op)
                                  /\ MatchSection(section, p.selector)
  BY DEF CoversOperation
<1>2. VerbBearsRead(p.verb)
  BY <1>1 DEF VerbGrantsOp, VerbBearsRead
<1>3. QED
  BY <1>1, <1>2 DEF CoversRead

\* A mandate that createMandate mints changes nothing outside the zone of the
\* sphere that signs it.
THEOREM MintedStaysInItsZone ==
    ASSUME NEW args, MayMint(args),
           NEW zone, NEW op \in {"create", "edit", "delete"}, NEW section,
           CoversOperation(args.scopes, zone, op, section)
    PROVE  zone = args.sphere
<1>1. PICK s \in args.scopes :
        /\ ParseEthosScope(s) # NotParsed
        /\ ParseEthosScope(s).zone # "all"
        /\ ZoneMatches(ParseEthosScope(s).zone, zone)
        /\ VerbGrantsOp(ParseEthosScope(s).verb, op)
  BY DEF CoversOperation, Parsed
<1>2. ParseEthosScope(s).verb \in {"edit", "append", "delete", "write"}
  BY <1>1 DEF VerbGrantsOp
<1>3. IsEthosMutatingScope(s)
  BY <1>1, <1>2 DEF IsEthosMutatingScope
<1>4. ParseEthosScope(s).zone = args.sphere
  BY <1>3 DEF MayMint, ScopesFitSphere
<1>5. QED
  BY <1>1, <1>4 DEF ZoneMatches

\* A mandate that createMandate mints is accepted by verifyMandate, against any
\* document of its issuer that lists the signing key and voids nothing that
\* young, at every instant of its window.
THEOREM MintedVerifies ==
    ASSUME NEW owner, NEW args, MayMint(args), NEW doc,
           NEW issued \in Int, args.ttl \in Int,
           NEW now \in Int, now >= issued - MandateSkew, now < issued + args.ttl + MandateSkew,
           doc.id = owner.did,
           owner.keys[args.sphere] \in KeysOf(doc, Method(owner.did, args.sphere)),
           doc.epoch = NoKey \/ ~(issued < doc.epoch)
    PROVE  VerifyMandate(CreateMandate(owner, args, issued), doc, now)
<1> DEFINE m == CreateMandate(owner, args, issued)
<1>1. /\ m.version = Current /\ m.issuer = owner.did /\ m.scopes = args.scopes
      /\ m.sphere = args.sphere
      /\ m.compute = args.compute /\ m.issuedBy = Method(owner.did, args.sphere)
      /\ m.from = issued /\ m.until = issued + args.ttl /\ m.issued = issued
      /\ m.signedBy = owner.keys[args.sphere]
  BY DEF CreateMandate
<1>2. \A s \in args.scopes : ~Forbidden(s)
  BY DEF MayMint, ScopesFitSphere
<1>3. ComputeAuthorized(m.scopes, m.compute)
  BY <1>1 DEF MayMint
<1>4. Current \in Versions
  BY DEF Current, Versions
<1>5. MandateErrors(m, doc, now) = {}
  BY <1>1, <1>2, <1>3, <1>4 DEF MandateErrors
<1>6. QED
  BY <1>5 DEF VerifyMandate

\* createRevocation finds the key that the mandate names, so that whoever could
\* verify the mandate's signature can verify its revocation.
THEOREM RevocationVerifies ==
    ASSUME NEW owner, NEW args, NEW issued, NEW doc, doc.id = owner.did,
           owner.keys[args.sphere] \in KeysOf(doc, Method(owner.did, args.sphere))
    PROVE  VerifyRevocation(CreateRevocation(owner, CreateMandate(owner, args, issued)), doc)
  BY DEF VerifyRevocation, CreateRevocation, CreateMandate, Method

\* An action that signActionArtifact signs verifies at once, where the mandate
\* verifies and asks for no counter-signature.
THEOREM SignedActionVerifies ==
    ASSUME NEW m, NEW agent, NEW verb, NEW issued, NEW doc,
           MaySignAction(m, agent, verb), verb \notin m.counter,
           VerifyMandate(m, doc, issued)
    PROVE  VerifyActionArtifact(SignAction(m, agent, verb, issued), m, doc)
<1> DEFINE a == SignAction(m, agent, verb, issued)
<1>1. /\ a.mandate = m /\ a.issued = issued /\ a.actor = agent /\ a.verb = verb
      /\ a.signature = [key |-> agent.key, counter |-> NoKey] /\ a.counter = NoKey
  BY DEF SignAction
<1>2. Blanked(a.counter) = NoKey
  BY <1>1 DEF Blanked
<1>3. ActionErrors(a, m, doc) = {}
  BY <1>1, <1>2 DEF ActionErrors, MaySignAction
<1>4. QED
  BY <1>3 DEF VerifyActionArtifact

\* The agent signs over the absence of a counter-signature and is checked over
\* its presence: an action that the mandate wants counter-signed verifies
\* neither before counterSignAction nor after it.
THEOREM CounterSignedNeverVerifies ==
    ASSUME NEW m, NEW agent, NEW verb, NEW issued, NEW doc, NEW owner,
           verb \in m.counter, Method(owner.did, m.sphere) # NoKey
    PROVE  /\ ~VerifyActionArtifact(SignAction(m, agent, verb, issued), m, doc)
           /\ ~VerifyActionArtifact(CounterSign(SignAction(m, agent, verb, issued), owner), m, doc)
<1> DEFINE a == SignAction(m, agent, verb, issued)
           c == CounterSign(a, owner)
<1>1. /\ a.mandate = m /\ a.actor = agent /\ a.verb = verb
      /\ a.signature = [key |-> agent.key, counter |-> NoKey] /\ a.counter = NoKey
  BY DEF SignAction
<1>2. "counter" \in ActionErrors(a, m, doc)
  BY <1>1 DEF ActionErrors
<1>3. /\ c.signature = a.signature /\ c.actor = a.actor /\ c.verb = a.verb
      /\ c.counter.name = Method(owner.did, a.mandate.sphere)
  BY DEF CounterSign
<1>4. CASE c.counter # NoKey
  <2>1. Blanked(c.counter) = Method(owner.did, m.sphere)
    BY <1>1, <1>3, <1>4 DEF Blanked
  <2>2. c.signature.counter = NoKey
    BY <1>1, <1>3
  <2>3. c.signature # [key |-> c.actor.key, counter |-> Blanked(c.counter)]
    BY <2>1, <2>2
  <2>4. "signature" \in ActionErrors(c, m, doc)
    BY <2>3 DEF ActionErrors
  <2>5. QED
    BY <1>2, <2>4 DEF VerifyActionArtifact
<1>5. CASE c.counter = NoKey
  <2>1. "counter" \in ActionErrors(c, m, doc)
    BY <1>1, <1>3, <1>5 DEF ActionErrors
  <2>2. QED
    BY <1>2, <2>1 DEF VerifyActionArtifact
<1>6. QED
  BY <1>4, <1>5

-------------------------------------------------------------------------------
(* Sponsorships, eligibility and receipts *)

\* A sponsorship that createSponsorshipMandate mints is accepted by
\* verifySponsorshipMandate throughout its window, and, unlike other mandates,
\* not for a moment more.
THEOREM SponsorshipVerifiesInItsWindow ==
    ASSUME NEW sponsor, NEW args, MaySponsor(args), NEW doc,
           args.from \in Int, args.ttl \in Int, NEW now \in Int,
           doc.id = sponsor.did,
           sponsor.keys[args.sphere] \in KeysOf(doc, Method(sponsor.did, args.sphere))
    PROVE  VerifySponsorshipMandate(CreateSponsorshipMandate(sponsor, args), doc, now)
             <=> now >= args.from /\ now < args.from + args.ttl
<1> DEFINE m == CreateSponsorshipMandate(sponsor, args)
           key == sponsor.keys[args.sphere]
<1>1. /\ m.version = SponsorshipVersion /\ m.issuer = sponsor.did
      /\ m.issuedBy = Method(sponsor.did, args.sphere)
      /\ m.audience = args.audience /\ m.budget = args.budget
      /\ m.scopes = args.scopes /\ m.methods = args.methods
      /\ m.from = args.from /\ m.until = args.from + args.ttl
  BY DEF CreateSponsorshipMandate, SignedDocument
<1>2. m.signature = [key |-> key, over |-> Unsigned(m)]
  BY DEF CreateSponsorshipMandate, SignedDocument, Unsigned
<1>3. DocumentVerifies(m, KeysOf(doc, m.issuedBy))
  BY <1>1, <1>2 DEF DocumentVerifies
<1>4. CASE now >= args.from /\ now < args.from + args.ttl
  <2>1. SponsorshipErrors(m, doc, now) = {}
    BY <1>1, <1>3, <1>4 DEF SponsorshipErrors, MaySponsor
  <2>2. QED
    BY <1>4, <2>1 DEF VerifySponsorshipMandate
<1>5. CASE ~(now >= args.from /\ now < args.from + args.ttl)
  <2>1. "window" \in SponsorshipErrors(m, doc, now)
    BY <1>1, <1>5 DEF SponsorshipErrors
  <2>2. QED
    BY <1>5, <2>1 DEF VerifySponsorshipMandate
<1>6. QED
  BY <1>4, <1>5

\* A sponsorship that is changed in anything after it was signed is accepted
\* against no document whatever: the signature covers the budget, the audience
\* and the window as it covers the rest.
THEOREM TamperedSponsorshipNeverVerifies ==
    ASSUME NEW m, NEW field, field # "signature", NEW value,
           m = [f \in DOMAIN m |-> m[f]], field \in DOMAIN m, "signature" \in DOMAIN m,
           m[field] # value, NEW key,
           m.signature = [key |-> key, over |-> Unsigned(m)],
           NEW doc, NEW now
    PROVE  ~VerifySponsorshipMandate([m EXCEPT ![field] = value], doc, now)
<1> DEFINE t == [m EXCEPT ![field] = value]
<1>1. t[field] = value /\ t.signature = m.signature
  OBVIOUS
<1>2. Unsigned(t)[field] = value /\ Unsigned(m)[field] = m[field]
  BY <1>1 DEF Unsigned
<1>3. Unsigned(t) # Unsigned(m)
  BY <1>2
<1>4. ~DocumentVerifies(t, KeysOf(doc, t.issuedBy))
  <2>1. t.signature.over = Unsigned(m)
    BY <1>1
  <2>2. ASSUME NEW k PROVE t.signature # [key |-> k, over |-> Unsigned(t)]
    BY <1>3, <2>1
  <2>3. QED
    BY <2>2 DEF DocumentVerifies
<1>5. "signature" \in SponsorshipErrors(t, doc, now)
  BY <1>4 DEF SponsorshipErrors
<1>6. QED
  BY <1>5 DEF VerifySponsorshipMandate

\* The two clocks agree: a call for a sponsorship that verifies is never refused
\* for its window, at the same instant.
THEOREM VerifiedIsInItsWindow ==
    ASSUME NEW m, NEW doc, NEW call, NEW usage, NEW now,
           VerifySponsorshipMandate(m, doc, now)
    PROVE  EvaluateEligibility(m, call, usage, now) \notin {"expired", "not_yet_valid"}
<1>1. ~(now < m.from) /\ ~(now >= m.until)
  <2>1. "window" \notin SponsorshipErrors(m, doc, now)
    BY DEF VerifySponsorshipMandate
  <2>2. QED
    BY <2>1 DEF SponsorshipErrors
<1>2. QED
  BY <1>1 DEF EvaluateEligibility

\* Usage that is nowhere above other usage.
Within(u, v) ==
    /\ u.lifetime <= v.lifetime /\ u.window = v.window
    /\ u.today <= v.today /\ u.pool <= v.pool /\ u.wallet >= v.wallet

UsageType == [lifetime : Nat, window : Nat \cup {NoKey}, today : Nat, pool : Nat,
              wallet : Int]

\* evaluateEligibility is monotone: a snapshot of the ledger that others have
\* added to since it was taken, or a smaller debit than was estimated, never
\* makes the check refuse what the ledger still covers.  (The other way round it
\* may admit too much: nothing here holds the amount back until it is debited.)
THEOREM EligibilityIsMonotone ==
    ASSUME NEW m, ValidateBudget(m.budget), NoKey \notin Nat,
           NEW u \in UsageType, NEW v \in UsageType, Within(u, v),
           NEW call, call.amount \in Nat, NEW now,
           Eligible(m, call, v, now)
    PROVE  Eligible(m, call, u, now)
<1>1. /\ u.lifetime \in Nat /\ u.today \in Nat /\ u.pool \in Nat /\ u.wallet \in Int
      /\ v.lifetime \in Nat /\ v.today \in Nat /\ v.pool \in Nat /\ v.wallet \in Int
      /\ m.budget.perUser \in Nat /\ m.budget.perDay \in Nat
      /\ m.budget.pool # NoKey => m.budget.pool \in Nat
  BY DEF UsageType, ValidateBudget
<1> DEFINE a == call.amount
<1>2. /\ ~(now < m.from) /\ ~(now >= m.until) /\ call.method \in m.methods
      /\ ~(call.model # NoKey /\ m.models # NoKey /\ call.model \notin m.models)
      /\ ~(/\ m.audience.set = "list"
           /\ \/ m.audience.consumers = NoKey
              \/ call.consumer \notin m.audience.consumers)
      /\ ~Exceeds(v.lifetime, a, m.budget.perUser)
      /\ ~(/\ m.budget.window # NoKey /\ v.window # NoKey
           /\ Exceeds(v.window, a, m.budget.perUser))
      /\ ~Exceeds(v.today, a, m.budget.perDay)
      /\ ~(m.budget.pool # NoKey /\ Exceeds(v.pool, a, m.budget.pool))
      /\ ~(v.wallet < a)
  BY DEF Eligible, EvaluateEligibility
<1>3. ~Exceeds(u.lifetime, a, m.budget.perUser) /\ ~Exceeds(u.today, a, m.budget.perDay)
  BY <1>1, <1>2 DEF Exceeds, Within
<1>4. ~(m.budget.pool # NoKey /\ Exceeds(u.pool, a, m.budget.pool))
  BY <1>1, <1>2 DEF Exceeds, Within
<1>5. ~(u.wallet < a)
  BY <1>1, <1>2 DEF Within
<1>6. u.window = v.window
  BY DEF Within
<1>7. QED
  BY <1>2, <1>3, <1>4, <1>5, <1>6 DEF Eligible, EvaluateEligibility

\* per_user_window_seconds has no effect.  A consumer has consumed at least as
\* much ever as in the window, and the cap is held against the first: the check of
\* the window is never the one that decides, and what it stands for, a cap that
\* is renewed with the window, never happens.
THEOREM WindowNeverDecides ==
    ASSUME NEW m, NEW call, NEW usage, NEW now,
           m.budget.perUser \in Int, call.amount \in Int, usage.lifetime \in Int,
           usage.window # NoKey => usage.window \in Int /\ usage.window <= usage.lifetime
    PROVE  /\ EvaluateEligibility(m, call, usage, now) # "per_user_window_cap_reached"
           /\ Eligible(m, call, usage, now) =>
                usage.lifetime + call.amount <= m.budget.perUser
<1>1. Exceeds(usage.lifetime, call.amount, m.budget.perUser) \/
      ~(/\ m.budget.window # NoKey /\ usage.window # NoKey
        /\ Exceeds(usage.window, call.amount, m.budget.perUser))
  BY DEF Exceeds
<1>2. EvaluateEligibility(m, call, usage, now) # "per_user_window_cap_reached"
  BY <1>1 DEF EvaluateEligibility
<1>3. Eligible(m, call, usage, now) => ~Exceeds(usage.lifetime, call.amount, m.budget.perUser)
  BY DEF Eligible, EvaluateEligibility
<1>4. QED
  BY <1>2, <1>3 DEF Exceeds

\* allowed_models restrains only the calls that name their model: whatever a
\* sponsorship allows, a call that names none is decided as if it allowed all.
THEOREM UnnamedModelIsUnrestrained ==
    ASSUME NEW m, "models" \in DOMAIN m, m = [f \in DOMAIN m |-> m[f]],
           NEW call, call.model = NoKey, NEW usage, NEW now
    PROVE  EvaluateEligibility(m, call, usage, now)
             = EvaluateEligibility([m EXCEPT !.models = NoKey], call, usage, now)
<1> DEFINE n == [m EXCEPT !.models = NoKey]
<1>1. ~(call.model # NoKey /\ m.models # NoKey /\ call.model \notin m.models)
  OBVIOUS
<1>2. ~(call.model # NoKey /\ n.models # NoKey /\ call.model \notin n.models)
  OBVIOUS
<1>3. /\ n.from = m.from /\ n.until = m.until /\ n.methods = m.methods
      /\ n.audience = m.audience /\ n.budget = m.budget
  OBVIOUS
<1>4. QED
  BY <1>1, <1>2, <1>3 DEF EvaluateEligibility

\* A receipt that createConsumptionReceipt makes verifies against any document of
\* the authority that lists the key.
THEOREM ReceiptVerifies ==
    ASSUME NEW authority, NEW args, MayReceipt(args), NEW doc, doc.id = authority.did,
           authority.keys[args.sphere] \in KeysOf(doc, Method(authority.did, args.sphere))
    PROVE  VerifyConsumptionReceipt(CreateConsumptionReceipt(authority, args), doc)
<1> DEFINE r == CreateConsumptionReceipt(authority, args)
<1>1. /\ r.version = SponsorshipVersion /\ r.issuer = authority.did
      /\ r.issuedBy = Method(authority.did, args.sphere) /\ r.amount = args.amount
      /\ r.funded = args.funded /\ r.sponsorship = args.sponsorship
      /\ r.hash = args.hash /\ r.sponsor = args.sponsor
  BY DEF CreateConsumptionReceipt, SignedDocument
<1>2. r.signature = [key |-> authority.keys[args.sphere], over |-> Unsigned(r)]
  BY DEF CreateConsumptionReceipt, SignedDocument, Unsigned
<1>3. DocumentVerifies(r, KeysOf(doc, r.issuedBy))
  BY <1>1, <1>2 DEF DocumentVerifies
<1>4. SponsoredConsistently(r)
  BY <1>1 DEF MayReceipt, SponsoredConsistently
<1>5. ReceiptErrors(r, doc) = {}
  BY <1>1, <1>3, <1>4 DEF ReceiptErrors, MayReceipt
<1>6. QED
  BY <1>5 DEF VerifyConsumptionReceipt

\* A revocation of a sponsorship verifies exactly when whoever made it holds a key
\* that the document lists under the name of the mandate's key: that the issuer
\* matches the mandate is not checked when the revocation is made.
THEOREM OnlyItsSponsorRevokes ==
    ASSUME NEW sponsor, NEW args, NEW issuer, NEW doc, doc.id = sponsor.did
    PROVE  LET m == CreateSponsorshipMandate(sponsor, args) IN
           VerifyRevocation(CreateSponsorshipRevocation(issuer, m), doc)
             <=> issuer.keys[args.sphere] \in KeysOf(doc, Method(sponsor.did, args.sphere))
BY DEF VerifyRevocation, CreateSponsorshipRevocation, CreateSponsorshipMandate, SignedDocument,
       Method

-------------------------------------------------------------------------------
(* Sealed records, deposits and assets *)

\* A wrap gives its key to the private key it was made for.
LEMMA RecipientUnwraps ==
    ASSUME NEW use, NEW key, NEW url, NEW private, NEW context, NEW ephemeral
    PROVE  Unwrap(use, WrapFor(use, key, url, PublicKey(private), context, ephemeral),
                  private, context) = key
<1>1. SharedSecret(ephemeral, PublicKey(private)) = SharedSecret(private, PublicKey(ephemeral))
  BY DEF SharedSecret, PublicKey
<1>2. QED
  BY <1>1 DEF Unwrap, WrapFor, Open, Seal

\* It gives it to no other private key, for no other use, and in no other place.
LEMMA NobodyElseUnwraps ==
    ASSUME NEW use, NEW key, NEW url, NEW private, NEW context, NEW ephemeral,
           NEW other, NEW use2, NEW context2,
           other # private \/ use2 # use \/ context2 # context
    PROVE  Unwrap(use2, WrapFor(use, key, url, PublicKey(private), context, ephemeral),
                  other, context2) = Failed
<1> DEFINE wrap == WrapFor(use, key, url, PublicKey(private), context, ephemeral)
           k == WrapKey(use2, SharedSecret(other, wrap.ephemeral), wrap.recipient)
           a == WrapAAD(use2, context2, wrap.recipient)
<1>1. /\ wrap.ephemeral.of = ephemeral /\ wrap.recipient = url
      /\ wrap.box.aad = WrapAAD(use, context, url) /\ wrap.box.text = key
      /\ wrap.box.key = WrapKey(use, {ephemeral, private}, url)
  BY DEF WrapFor, Seal, SharedSecret, PublicKey
<1>2. CASE other # private
  <2>1. {ephemeral, private} # {other, ephemeral}
    BY <1>2
  <2>2. k.secret = {other, ephemeral} /\ wrap.box.key.secret = {ephemeral, private}
    BY <1>1 DEF WrapKey, SharedSecret
  <2>3. wrap.box.key # k
    BY <2>1, <2>2
  <2>4. QED
    BY <2>3 DEF Unwrap, Open
<1>3. CASE use2 # use \/ context2 # context
  <2>1. a.prefix = use2 /\ a.context = context2
    BY DEF WrapAAD
  <2>2. wrap.box.aad.prefix = use /\ wrap.box.aad.context = context
    BY <1>1 DEF WrapAAD
  <2>3. wrap.box.aad # a
    BY <1>3, <2>1, <2>2
  <2>4. QED
    BY <2>3 DEF Unwrap, Open
<1>4. QED
  BY <1>2, <1>3

\* What encryptRecord seals, decryptRecord gives back to a holder of the CMK; with
\* another CMK, or taken for another record, collection or subject, it fails.
THEOREM RecordOpensInItsPlace ==
    ASSUME NEW payload, NEW cmk, NEW at, NEW dek, dek # Failed,
           NEW cmk2, NEW at2, EncryptRecord(payload, cmk, at, dek).forCMK # Absent
    PROVE  DecryptRecord(EncryptRecord(payload, cmk, at, dek), cmk2, at2)
             = IF cmk2 = cmk /\ at2 = at THEN payload ELSE Failed
<1> DEFINE r == EncryptRecord(payload, cmk, at, dek)
<1>1. /\ r.body = Seal(dek, <<"record", at>>, payload)
      /\ r.forCMK = Seal(cmk, <<"dek", at>>, dek) /\ r.forOwner = Absent
  BY DEF EncryptRecord, WrapDEKForCMK
<1>2. <<"dek", at2>> = <<"dek", at>> <=> at2 = at
  OBVIOUS
<1>3. UnwrapDEKFromCMK(r.forCMK, cmk2, at2) = IF cmk2 = cmk /\ at2 = at THEN dek ELSE Failed
  BY <1>1, <1>2 DEF UnwrapDEKFromCMK, Open, Seal
<1>4. CASE cmk2 = cmk /\ at2 = at
  BY <1>1, <1>3, <1>4 DEF DecryptRecord, Open, Seal
<1>5. CASE ~(cmk2 = cmk /\ at2 = at)
  BY <1>3, <1>5 DEF DecryptRecord
<1>6. QED
  BY <1>4, <1>5

\* A deposit is for the owner alone: the holder of another private key, an app with
\* the CMK and the depositor, who has neither, do not read it.
THEOREM DepositIsForTheOwner ==
    ASSUME NEW payload, NEW url, NEW owner, NEW at, NEW dek, NEW ephemeral,
           dek # Failed,
           WrapDEKForRecipient(dek, url, PublicKey(owner), at, ephemeral) # Absent
    PROVE  LET r == EncryptRecordForRecipient(payload, url, PublicKey(owner), at, dek, ephemeral)
           IN  /\ DecryptDepositedRecord(r, owner, at) = payload
               /\ \A other : other # owner => DecryptDepositedRecord(r, other, at) = Failed
               /\ \A cmk : DecryptRecord(r, cmk, at) = Failed
<1> DEFINE r == EncryptRecordForRecipient(payload, url, PublicKey(owner), at, dek, ephemeral)
<1>1. /\ r.body = Seal(dek, <<"record", at>>, payload) /\ r.forCMK = Absent
      /\ r.forOwner = WrapDEKForRecipient(dek, url, PublicKey(owner), at, ephemeral)
  BY DEF EncryptRecordForRecipient
<1>2. UnwrapDEKForRecipient(r.forOwner, owner, at) = dek
  BY <1>1, RecipientUnwraps DEF UnwrapDEKForRecipient, WrapDEKForRecipient
<1>3. DecryptDepositedRecord(r, owner, at) = payload
  BY <1>1, <1>2 DEF DecryptDepositedRecord, Open, Seal
<1>4. ASSUME NEW other, other # owner PROVE DecryptDepositedRecord(r, other, at) = Failed
  <2>1. UnwrapDEKForRecipient(r.forOwner, other, at) = Failed
    BY <1>1, <1>4, NobodyElseUnwraps DEF UnwrapDEKForRecipient, WrapDEKForRecipient
  <2>2. QED
    BY <2>1 DEF DecryptDepositedRecord
<1>5. ASSUME NEW cmk PROVE DecryptRecord(r, cmk, at) = Failed
  BY <1>1 DEF DecryptRecord
<1>6. QED
  BY <1>3, <1>4, <1>5

\* Whoever holds the CMK can hand it on: after authorizeApp the app finds the same
\* key as the holder that let it in, and everyone else finds what they found before.
THEOREM AuthorizedAppSharesTheKey ==
    ASSUME NEW c, c = [urn |-> c.urn, wraps |-> c.wraps],
           NEW app, NEW private, NEW holder, NEW secret, NEW ephemeral,
           AuthorizeApp(c, app, PublicKey(private), holder, secret, ephemeral) # Failed
    PROVE  LET d == AuthorizeApp(c, app, PublicKey(private), holder, secret, ephemeral)
           IN  /\ CMKOf(d, app, private) = CMKOf(c, holder, secret)
               /\ \A u \in DOMAIN c.wraps : \A k : CMKOf(d, u, k) = CMKOf(c, u, k)
<1> DEFINE cmk == CMKOf(c, holder, secret)
           d == AuthorizeApp(c, app, PublicKey(private), holder, secret, ephemeral)
           wrap == WrapCMKForRecipient(cmk, app, PublicKey(private), c.urn, ephemeral)
<1>1. app \notin DOMAIN c.wraps
  BY DEF AuthorizeApp
<1>2. /\ d.urn = c.urn /\ DOMAIN d.wraps = DOMAIN c.wraps \cup {app}
      /\ \A u \in DOMAIN c.wraps : d.wraps[u] = c.wraps[u]
      /\ d.wraps[app] = wrap
  BY <1>1 DEF AuthorizeApp
<1>3. UnwrapCMK(wrap, private, c.urn) = cmk
  BY RecipientUnwraps DEF UnwrapCMK, WrapCMKForRecipient
<1>4. CMKOf(d, app, private) = cmk
  BY <1>2, <1>3 DEF CMKOf
<1>5. ASSUME NEW u \in DOMAIN c.wraps, NEW k PROVE CMKOf(d, u, k) = CMKOf(c, u, k)
  BY <1>2 DEF CMKOf
<1>6. QED
  BY <1>4, <1>5

\* rotateCMK gives the new key to those that are retained and to no other private
\* key, whatever recipient it claims to be.
THEOREM RotationRetainsExactly ==
    ASSUME NEW c, c = [urn |-> c.urn, wraps |-> c.wraps],
           NEW keys, NEW records, NEW at, NEW holder, NEW private, NEW new, NEW ephemerals,
           new # Failed,
           RotateCMK(c, [u \in DOMAIN keys |-> PublicKey(keys[u])], records, at, holder,
                     private, new, ephemerals) # Failed
    PROVE  LET d == RotateCMK(c, [u \in DOMAIN keys |-> PublicKey(keys[u])], records, at,
                              holder, private, new, ephemerals).collection
           IN  \A u, k : CMKOf(d, u, k) =
                   IF u \in DOMAIN keys /\ k = keys[u] THEN new ELSE Failed
<1> DEFINE retained == [u \in DOMAIN keys |-> PublicKey(keys[u])]
           d == RotateCMK(c, retained, records, at, holder, private, new, ephemerals).collection
<1>1. /\ d.urn = c.urn /\ DOMAIN d.wraps = DOMAIN keys
      /\ \A u \in DOMAIN keys : d.wraps[u] =
           WrapCMKForRecipient(new, u, PublicKey(keys[u]), c.urn, ephemerals[u])
  BY DEF RotateCMK
<1>2. ASSUME NEW u \in DOMAIN keys PROVE CMKOf(d, u, keys[u]) = new
  BY <1>1, RecipientUnwraps DEF CMKOf, UnwrapCMK, WrapCMKForRecipient
<1>3. ASSUME NEW u \in DOMAIN keys, NEW k, k # keys[u] PROVE CMKOf(d, u, k) = Failed
  BY <1>1, <1>3, NobodyElseUnwraps DEF CMKOf, UnwrapCMK, WrapCMKForRecipient
<1>4. ASSUME NEW u, u \notin DOMAIN keys, NEW k PROVE CMKOf(d, u, k) = Failed
  BY <1>1, <1>4 DEF CMKOf
<1>5. QED
  BY <1>2, <1>3, <1>4

\* Rewrapping keeps what a record says: who could read it with the old CMK reads
\* the same with the new one.  If the two differ, the old one opens it no more.
THEOREM RewrapKeepsTheRecord ==
    ASSUME NEW payload, NEW old, NEW new, NEW at, NEW dek, dek # Failed,
           \A k : WrapDEKForCMK(dek, k, at) \notin {Absent, Failed},
           EncryptRecord(payload, old, at, dek) # Failed
    PROVE  LET r == RewrapRecordDEK(EncryptRecord(payload, old, at, dek), old, new, at)
           IN  /\ r = EncryptRecord(payload, new, at, dek)
               /\ DecryptRecord(r, new, at) = payload
               /\ old # new => DecryptRecord(r, old, at) = Failed
<1> DEFINE e == EncryptRecord(payload, old, at, dek)
           r == RewrapRecordDEK(e, old, new, at)
<1>1. /\ e = [body |-> Seal(dek, <<"record", at>>, payload),
              forCMK |-> WrapDEKForCMK(dek, old, at), forOwner |-> Absent]
  BY DEF EncryptRecord
<1>2. UnwrapDEKFromCMK(e.forCMK, old, at) = dek
  BY <1>1 DEF UnwrapDEKFromCMK, WrapDEKForCMK, Open, Seal
<1>3. e.forCMK # Absent
  BY <1>1
<1>4. r = [e EXCEPT !.forCMK = WrapDEKForCMK(dek, new, at)]
  BY <1>2, <1>3 DEF RewrapRecordDEK
<1>5. r = EncryptRecord(payload, new, at, dek)
  BY <1>1, <1>4 DEF EncryptRecord
<1>6. EncryptRecord(payload, new, at, dek).forCMK # Absent
  BY DEF EncryptRecord
<1>7. QED
  BY <1>5, <1>6, RecordOpensInItsPlace

\* One deposit among the records stops a rotation altogether: its key is sealed to
\* the owner, and rotateCMK throws on it without having rotated anything.
THEOREM OneDepositStopsRotation ==
    ASSUME NEW c, NEW retained, NEW records, NEW at, NEW holder, NEW private, NEW new,
           NEW ephemerals, NEW r \in DOMAIN records, records[r].forCMK = Absent
    PROVE  RotateCMK(c, retained, records, at, holder, private, new, ephemerals) = Failed
<1> DEFINE old == CMKOf(c, holder, private)
<1>1. RewrapRecordDEK(records[r], old, new, at[r]) = Failed
  BY DEF RewrapRecordDEK
<1>2. Rewrapped(records, old, new, at)[r] = Failed
  BY <1>1 DEF Rewrapped
<1>3. QED
  BY <1>2 DEF RotateCMK

\* The bytes of an asset open for whoever its AMK was wrapped for, under its own
\* URN and with the hash it was stored with; a key of another asset is of no use.
THEOREM AssetOpensInItsPlace ==
    ASSUME NEW amk, NEW urn, NEW plaintext, NEW url, NEW private, NEW ephemeral,
           NEW urn2, NEW other
    PROVE  LET a == EncryptAssetBytes(amk, urn, plaintext)
               wrap == WrapAMKForRecipient(amk, url, PublicKey(private), urn, ephemeral)
           IN  /\ DecryptAssetBytes(a.blob, UnwrapAMK(wrap, private, urn), urn, a.hash) = plaintext
               /\ other # private \/ urn2 # urn => UnwrapAMK(wrap, other, urn2) = Failed
               /\ urn2 # urn => DecryptAssetBytes(a.blob, amk, urn2, Absent) = Failed
<1> DEFINE a == EncryptAssetBytes(amk, urn, plaintext)
           wrap == WrapAMKForRecipient(amk, url, PublicKey(private), urn, ephemeral)
<1>1. UnwrapAMK(wrap, private, urn) = amk
  BY RecipientUnwraps DEF UnwrapAMK, WrapAMKForRecipient
<1>2. a.blob = Seal(amk, <<"asset", urn>>, plaintext) /\ a.hash = plaintext
  BY DEF EncryptAssetBytes
<1>3. DecryptAssetBytes(a.blob, amk, urn, a.hash) = plaintext
  BY <1>2 DEF DecryptAssetBytes, Open, Seal
<1>4. ASSUME other # private \/ urn2 # urn PROVE UnwrapAMK(wrap, other, urn2) = Failed
  BY <1>4, NobodyElseUnwraps DEF UnwrapAMK, WrapAMKForRecipient
<1>5. ASSUME urn2 # urn PROVE DecryptAssetBytes(a.blob, amk, urn2, Absent) = Failed
  <2>1. <<"asset", urn2>> # <<"asset", urn>>
    BY <1>5
  <2>2. QED
    BY <1>2, <2>1 DEF DecryptAssetBytes, Open, Seal
<1>6. QED
  BY <1>1, <1>3, <1>4, <1>5

-------------------------------------------------------------------------------
(* Sections, bundles and gamma logs *)

\* One label is for one key, whose private part somebody has.
KeysAgree(recipients) ==
    \A r \in recipients :
        /\ \E private : r.key = PublicKey(private)
        /\ \A q \in recipients : q.did = r.did => q.key = r.key

\* The reader has the label of a recipient and the private key for this label.
Reads(reader, recipients) ==
    /\ reader.did \in {r.did : r \in recipients}
    /\ \A r \in recipients : r.did = reader.did => r.key = PublicKey(reader.secret)

LEMMA LabelsOfWraps ==
    ASSUME NEW recipients, NEW fresh
    PROVE  Labels(WrapsFor(recipients, fresh)) = {r.did : r \in recipients}
<1>1. \A r \in recipients : WrapDek(fresh.dek, r, fresh.ephemerals[r]).recipient = r.did
  BY DEF WrapDek, WrapFor
<1>2. QED
  BY <1>1 DEF Labels, WrapsFor

LEMMA WrapOpens ==
    ASSUME NEW dek, NEW r, NEW secret, NEW ephemeral, r.key = PublicKey(secret)
    PROVE  UnwrapDek(WrapDek(dek, r, ephemeral), secret) = dek
<1>1. WrapDek(dek, r, ephemeral)
        = WrapFor("zone", dek, r.did, PublicKey(secret), Absent, ephemeral)
  BY DEF WrapDek
<1>2. QED
  BY <1>1, RecipientUnwraps DEF UnwrapDek

LEMMA WrapStaysShut ==
    ASSUME NEW dek, NEW r, NEW secret, NEW private, NEW ephemeral,
           r.key = PublicKey(private), private # secret
    PROVE  UnwrapDek(WrapDek(dek, r, ephemeral), secret) = Failed
<1>1. WrapDek(dek, r, ephemeral)
        = WrapFor("zone", dek, r.did, PublicKey(private), Absent, ephemeral)
  BY DEF WrapDek
<1>2. QED
  BY <1>1, NobodyElseUnwraps DEF UnwrapDek

\* A reader under the label of a recipient, with its key, opens the box in its place;
\* it opens nothing sealed for another place.
LEMMA HolderOpens ==
    ASSUME NEW recipients, NEW fresh, NEW reader, NEW text, NEW aad, NEW aad2,
           fresh.dek # Failed, Reads(reader, recipients)
    PROVE  OpenWith(Seal(fresh.dek, aad, text), WrapsFor(recipients, fresh), aad2, reader)
             = IF aad2 = aad THEN text ELSE Failed
<1> DEFINE wraps == WrapsFor(recipients, fresh)
           wrap == CHOOSE w \in wraps : w.recipient = reader.did
<1>1. reader.did \in Labels(wraps)
  BY LabelsOfWraps DEF Reads
<1>2. wrap \in wraps /\ wrap.recipient = reader.did
  BY <1>1 DEF Labels
<1>3. PICK r \in recipients : wrap = WrapDek(fresh.dek, r, fresh.ephemerals[r])
  BY <1>2 DEF WrapsFor
<1>4. r.did = reader.did
  BY <1>2, <1>3 DEF WrapDek, WrapFor
<1>5. r.key = PublicKey(reader.secret)
  BY <1>4 DEF Reads
<1>6. UnwrapDek(wrap, reader.secret) = fresh.dek
  <2> HIDE DEF wrap
  <2> QED
    BY <1>3, <1>5, WrapOpens
<1>7. QED
  BY <1>1, <1>6 DEF OpenWith, Open, Seal

LEMMA StrangerFails ==
    ASSUME NEW recipients, NEW fresh, NEW reader, NEW box, NEW aad,
           KeysAgree(recipients),
           \A r \in recipients : r.did = reader.did => r.key # PublicKey(reader.secret)
    PROVE  OpenWith(box, WrapsFor(recipients, fresh), aad, reader) = Failed
<1> DEFINE wraps == WrapsFor(recipients, fresh)
           wrap == CHOOSE w \in wraps : w.recipient = reader.did
<1>1. CASE reader.did \notin Labels(wraps)
  BY <1>1 DEF OpenWith
<1>2. CASE reader.did \in Labels(wraps)
  <2>1. wrap \in wraps /\ wrap.recipient = reader.did
    BY <1>2 DEF Labels
  <2>2. PICK r \in recipients : wrap = WrapDek(fresh.dek, r, fresh.ephemerals[r])
    BY <2>1 DEF WrapsFor
  <2>3. r.did = reader.did
    BY <2>1, <2>2 DEF WrapDek, WrapFor
  <2>4. PICK private : r.key = PublicKey(private)
    BY DEF KeysAgree
  <2>5. private # reader.secret
    BY <2>3, <2>4
  <2>6. UnwrapDek(wrap, reader.secret) = Failed
    <3> HIDE DEF wrap
    <3> QED
      BY <2>2, <2>4, <2>5, WrapStaysShut
  <2>7. QED
    BY <2>6 DEF OpenWith
<1>3. QED
  BY <1>1, <1>2

\* What encryptSection seals opens for each of its recipients, under the subject and
\* the id it was sealed for, and under no other: a file put in the place of another
\* section, or of another ethos, does not open.
THEOREM SectionOpensInItsPlace ==
    ASSUME NEW text, NEW subject, NEW id, NEW recipients, NEW fresh, NEW reader,
           NEW subject2, NEW id2, fresh.dek # Failed, Reads(reader, recipients)
    PROVE  LET e == EncryptSection(text, subject, id, recipients, fresh) IN
           DecryptSection(e.box, e.wraps, subject2, id2, reader)
             = IF subject2 = subject /\ id2 = id THEN text ELSE Failed
<1> DEFINE e == EncryptSection(text, subject, id, recipients, fresh)
<1>1. /\ e.box = Seal(fresh.dek, SectionAad(subject, id), text)
      /\ e.wraps = WrapsFor(recipients, fresh)
  BY DEF EncryptSection
<1>2. SectionAad(subject2, id2) = SectionAad(subject, id) <=> subject2 = subject /\ id2 = id
  BY DEF SectionAad
<1>3. DecryptSection(e.box, e.wraps, subject2, id2, reader)
        = IF SectionAad(subject2, id2) = SectionAad(subject, id) THEN text ELSE Failed
  <2> DEFINE aad == SectionAad(subject, id)
             aad2 == SectionAad(subject2, id2)
  <2>1. OpenWith(Seal(fresh.dek, aad, text), WrapsFor(recipients, fresh), aad2, reader)
          = IF aad2 = aad THEN text ELSE Failed
    <3> HIDE DEF aad, aad2
    <3> QED
      BY HolderOpens
  <2>2. QED
    BY <1>1, <2>1 DEF DecryptSection
<1>4. QED
  BY <1>2, <1>3

\* A reader who is no recipient, or has not the key, gets neither the body nor the
\* title of a section, whatever file is in its place.
THEOREM OnlyRecipientsOpen ==
    ASSUME NEW text, NEW meta, NEW subject, NEW id, NEW recipients, NEW fresh,
           NEW fresh2, NEW reader, NEW box, KeysAgree(recipients),
           \A r \in recipients : r.did = reader.did => r.key # PublicKey(reader.secret)
    PROVE  /\ DecryptSection(box, EncryptSection(text, subject, id, recipients, fresh).wraps,
                             subject, id, reader) = Failed
           /\ DecryptSectionTitle(EncryptSectionTitle(meta, subject, id, recipients, fresh2),
                                  subject, id, reader) = Failed
<1>1. \A aad : OpenWith(box, WrapsFor(recipients, fresh), aad, reader) = Failed
  BY StrangerFails
<1>2. \A b, aad : OpenWith(b, WrapsFor(recipients, fresh2), aad, reader) = Failed
  BY StrangerFails
<1>3. QED
  BY <1>1, <1>2 DEF DecryptSection, EncryptSection, DecryptSectionTitle, EncryptSectionTitle

\* A section, as far as its text says.
IsText(c) ==
    /\ c = [title |-> c.title, tags |-> c.tags, body |-> c.body]
    /\ c.title = [lead |-> c.title.lead, text |-> c.title.text, tail |-> c.title.tail]
    /\ c.body = [lead |-> c.body.lead, tags |-> c.body.tags, text |-> c.body.text,
                 tail |-> c.body.tail]

\* The white space at the ends of the title and of the body that goes.
HasMargins(s) ==
    \/ s.title.lead # Absent \/ s.title.tail # Absent
    \/ s.body.lead # Absent \/ s.body.tail # Absent

LEMMA EndStripped ==
    ASSUME NEW s, IsText(s)
    PROVE  /\ [s.title EXCEPT !.tail = Absent]
                = [lead |-> s.title.lead, text |-> s.title.text, tail |-> Absent]
           /\ [s.body EXCEPT !.tail = Absent]
                = [lead |-> s.body.lead, tags |-> s.body.tags, text |-> s.body.text,
                   tail |-> Absent]
BY DEF IsText

\* What parseSectionMarkdown makes of rendered text, by its parts.
LEMMA ParsedText ==
    ASSUME NEW s, IsText(s), s.title.text # Absent
    PROVE  ParseSectionMarkdown(RenderSectionMarkdown(s))
             = [title |-> [lead |-> Absent, text |-> s.title.text, tail |-> Absent],
                tags |-> IF s.tags = {} /\ s.body.tags # Absent THEN s.body.tags ELSE s.tags,
                body |-> [lead |-> Absent,
                          tags |-> IF s.tags = {} THEN Absent ELSE s.body.tags,
                          text |-> s.body.text, tail |-> Absent]]
<1> DEFINE md == RenderSectionMarkdown(s)
<1>1. md.title.text = s.title.text /\ md.tags = s.tags
  BY EndStripped DEF RenderSectionMarkdown
<1>2. md.body.tags = s.body.tags /\ md.body.text = s.body.text
  BY EndStripped DEF RenderSectionMarkdown, IsBlank, EmptyBody
<1>3. md.title # EmptyTitle
  BY <1>1 DEF EmptyTitle
<1> HIDE DEF md
<1>4. QED
  BY <1>1, <1>2, <1>3 DEF ParseSectionMarkdown, md

\* Text that is rendered and parsed comes back exactly when it has no white space at
\* its ends and a body without tags of its own before it, or tags; what comes back
\* is settled: rendered and parsed again it does not change.
THEOREM ParseUndoesRender ==
    ASSUME NEW s, IsText(s), s.title.text # Absent
    PROVE  LET read == ParseSectionMarkdown(RenderSectionMarkdown(s)) IN
           /\ read = s <=> ~HasMargins(s) /\ (s.tags # {} \/ s.body.tags = Absent)
           /\ ParseSectionMarkdown(RenderSectionMarkdown(read)) = read
<1> DEFINE tags == IF s.tags = {} /\ s.body.tags # Absent THEN s.body.tags ELSE s.tags
           title == [lead |-> Absent, text |-> s.title.text, tail |-> Absent]
           body == [lead |-> Absent, tags |-> IF s.tags = {} THEN Absent ELSE s.body.tags,
                    text |-> s.body.text, tail |-> Absent]
           read == [title |-> title, tags |-> tags, body |-> body]
<1>1. ParseSectionMarkdown(RenderSectionMarkdown(s)) = read
  BY ParsedText
<1>2. title = s.title <=> s.title.lead = Absent /\ s.title.tail = Absent
  BY DEF IsText
<1>3. body = s.body <=> /\ s.body.lead = Absent /\ s.body.tail = Absent
                        /\ s.tags # {} \/ s.body.tags = Absent
  <2>1. body.lead = Absent /\ body.tail = Absent /\ body.text = s.body.text
        /\ body.tags = IF s.tags = {} THEN Absent ELSE s.body.tags
    OBVIOUS
  <2>2. s.body = [lead |-> s.body.lead, tags |-> s.body.tags, text |-> s.body.text,
                  tail |-> s.body.tail]
    BY DEF IsText
  <2>3. QED
    BY <2>1, <2>2
<1>4. read = s <=> title = s.title /\ tags = s.tags /\ body = s.body
  <2> HIDE DEF title, tags, body
  <2>1. s = [title |-> s.title, tags |-> s.tags, body |-> s.body]
    BY DEF IsText
  <2>2. QED
    BY <2>1
<1>5. read = s <=> ~HasMargins(s) /\ (s.tags # {} \/ s.body.tags = Absent)
  <2>1. s.tags # {} \/ s.body.tags = Absent => tags = s.tags
    OBVIOUS
  <2>2. QED
    BY <1>2, <1>3, <1>4, <2>1 DEF HasMargins
<1>6. /\ IsText(read) /\ read.title = title /\ read.tags = tags /\ read.body = body
      /\ read.title.text # Absent
  <2>1. read.title = title /\ read.tags = tags /\ read.body = body
    OBVIOUS
  <2>2. title = [lead |-> title.lead, text |-> title.text, tail |-> title.tail]
    OBVIOUS
  <2>3. body = [lead |-> body.lead, tags |-> body.tags, text |-> body.text,
                tail |-> body.tail]
    OBVIOUS
  <2>4. title.text # Absent
    OBVIOUS
  <2> HIDE DEF title, tags, body
  <2>5. QED
    BY <2>1, <2>2, <2>3, <2>4 DEF IsText
<1>7. ParseSectionMarkdown(RenderSectionMarkdown(read))
        = [title |-> [lead |-> Absent, text |-> title.text, tail |-> Absent],
           tags |-> IF tags = {} /\ body.tags # Absent THEN body.tags ELSE tags,
           body |-> [lead |-> Absent, tags |-> IF tags = {} THEN Absent ELSE body.tags,
                     text |-> body.text, tail |-> Absent]]
  <2> HIDE DEF title, tags, body
  <2>1. QED
    BY <1>6, ParsedText DEF read
<1>8. [lead |-> Absent, text |-> title.text, tail |-> Absent] = title
  OBVIOUS
<1>9. tags = {} => body.tags = Absent
  OBVIOUS
<1>10. [lead |-> Absent, tags |-> IF tags = {} THEN Absent ELSE body.tags,
        text |-> body.text, tail |-> Absent] = body
  BY <1>9
<1>11. (IF tags = {} /\ body.tags # Absent THEN body.tags ELSE tags) = tags
  BY <1>9
<1>12. ParseSectionMarkdown(RenderSectionMarkdown(read)) = read
  <2> HIDE DEF title, tags, body
  <2>1. QED
    BY <1>7, <1>8, <1>10, <1>11 DEF read
<1>13. QED
  BY <1>1, <1>5, <1>12

\* A section with an empty title, or with neither title, tags nor body, is written but
\* cannot be read: parseSectionMarkdown throws.  One whose title is only spaces can
\* be, once: it comes back with an empty title.
THEOREM UntitledCannotBeRead ==
    ASSUME NEW s, IsText(s), s.title.text = Absent, s.title.lead = Absent
    PROVE  LET read == ParseSectionMarkdown(RenderSectionMarkdown(s)) IN
           /\ s.title.tail = Absent \/ (s.tags = {} /\ IsBlank(s.body)) => read = Failed
           /\ read # Failed => ParseSectionMarkdown(RenderSectionMarkdown(read)) = Failed
<1> DEFINE md == RenderSectionMarkdown(s)
<1>1. s.title = [lead |-> Absent, text |-> Absent, tail |-> s.title.tail]
  BY DEF IsText
<1>2. /\ s.title.tail = Absent => s.title = EmptyTitle
      /\ [s.title EXCEPT !.tail = Absent] = EmptyTitle
  BY <1>1 DEF EmptyTitle
<1>3. s.title.tail = Absent \/ (s.tags = {} /\ IsBlank(s.body)) => md.title = EmptyTitle
  BY <1>2 DEF RenderSectionMarkdown
<1>4. md.title.text = Absent
  BY <1>1, <1>2 DEF RenderSectionMarkdown, EmptyTitle
<1>5. ASSUME md.title # EmptyTitle
      PROVE  ParseSectionMarkdown(md).title = EmptyTitle
  BY <1>4, <1>5 DEF ParseSectionMarkdown, EmptyTitle
<1>6. ASSUME NEW read, read.title = EmptyTitle
      PROVE  ParseSectionMarkdown(RenderSectionMarkdown(read)) = Failed
  <2>1. [EmptyTitle EXCEPT !.tail = Absent] = EmptyTitle
    BY DEF EmptyTitle
  <2>2. RenderSectionMarkdown(read).title = EmptyTitle
    BY <1>6, <2>1 DEF RenderSectionMarkdown
  <2>3. QED
    BY <2>2 DEF ParseSectionMarkdown
<1>7. md.title = EmptyTitle => ParseSectionMarkdown(md) = Failed
  BY DEF ParseSectionMarkdown
<1> HIDE DEF md
<1>8. QED
  BY <1>3, <1>5, <1>6, <1>7 DEF md
-----------------------------------------------------------------------------
(***************************************************************************)
(* What an edition carries over                                            *)
(***************************************************************************)

LEMMA ThreeElements ==
    ASSUME NEW a, NEW b, NEW c, a # b, b # c, a # c
    PROVE  Cardinality({a, b, c}) = 3
<1> DEFINE one == {a}  two == {a, b}
<1>1. IsFiniteSet(one) /\ Cardinality(one) = 1
  BY FS_Singleton
<1>2. IsFiniteSet(one \cup {b}) /\ Cardinality(one \cup {b}) = 2
  <2>1. b \notin one
    OBVIOUS
  <2> HIDE DEF one
  <2>2. QED
    BY <1>1, <2>1, FS_AddElement
<1>3. IsFiniteSet(two) /\ Cardinality(two) = 2
  <2>1. one \cup {b} = two
    OBVIOUS
  <2>2. QED
    BY <1>2, <2>1
<1>4. Cardinality(two \cup {c}) = 3
  <2>1. c \notin two
    OBVIOUS
  <2> HIDE DEF two
  <2>2. QED
    BY <1>3, <2>1, FS_AddElement
<1>5. two \cup {c} = {a, b, c}
  OBVIOUS
<1>6. QED
  BY <1>4, <1>5

\* As long as no two recipients have one label, a section is carried over only for
\* exactly those it was sealed for: who was dropped is not among them.
THEOREM CarriedForTheSameReaders ==
    ASSUME NEW wraps, NEW recipients, IsFiniteSet(Labels(wraps)),
           \A r, q \in recipients : r.did = q.did => r = q,
           RecipientLabelsEqual(wraps, recipients)
    PROVE  Labels(wraps) = {r.did : r \in recipients}
<1> DEFINE f == [r \in recipients |-> r.did]
           T == Labels(wraps)
<1>1. f \in Injection(recipients, T)
  BY DEF RecipientLabelsEqual, Injection, IsInjective
<1>2. Cardinality(recipients) = Cardinality(T)
  BY DEF RecipientLabelsEqual
<1>3. f \in Surjection(recipients, T)
  <2>1. IsFiniteSet(T)
    OBVIOUS
  <2> HIDE DEF f, T
  <2>2. QED
    BY <1>1, <1>2, <2>1, FS_Injection
<1>4. QED
  BY <1>1, <1>3 DEF Surjection

\* Otherwise it may be: once an agent has two mandates for a section that another
\* could read, and the mandate of the other is revoked, the list of recipients is as
\* long as the labels are many, and the next edition carries the section over with
\* the wrap of the revoked agent.
THEOREM SecondMandateKeepsRevokedReader ==
    ASSUME NEW owner, NEW first, NEW second, NEW revoked, NEW wraps,
           first # second, first.did = second.did,
           owner.did # first.did, owner.did # revoked.did, first.did # revoked.did,
           Labels(wraps) = {owner.did, first.did, revoked.did}
    PROVE  /\ RecipientLabelsEqual(wraps, {owner, first, second})
           /\ revoked.did \in Labels(wraps)
           /\ revoked.did \notin {r.did : r \in {owner, first, second}}
<1>1. Cardinality({owner, first, second}) = 3
  BY ThreeElements
<1>2. Cardinality({owner.did, first.did, revoked.did}) = 3
  <2> DEFINE a == owner.did  b == first.did  c == revoked.did
  <2> HIDE DEF a, b, c
  <2>1. a # b /\ b # c /\ a # c
    BY DEF a, b, c
  <2>2. Cardinality({a, b, c}) = 3
    BY <2>1, ThreeElements
  <2>3. QED
    BY <2>2 DEF a, b, c
<1>3. QED
  BY <1>1, <1>2 DEF RecipientLabelsEqual
-----------------------------------------------------------------------------
(***************************************************************************)
(* Manifests                                                               *)
(***************************************************************************)

\* A record is the function of its fields.
IsManifest(m) ==
    /\ m = [f \in DOMAIN m |-> m[f]]
    /\ "signature" \in DOMAIN m

LEMMA BlankIsUnsigned ==
    ASSUME NEW m, IsManifest(m), NEW k, NEW by, NEW value
    PROVE  /\ Signed(m, k, by, value).signature = [key |-> k, by |-> by, value |-> value]
           /\ Blank(Signed(m, k, by, value)) = Signed(m, k, by, Absent)
BY DEF Signed, Blank, IsManifest

\* What the owner signs verifies against every document that lists its public key,
\* and what an agent signs wherever its key and mandate are accepted.
THEOREM SignedManifestVerifies ==
    ASSUME NEW m, IsManifest(m), NEW author, NEW doc, NEW resolve,
           \/ /\ author.kind = "owner"
              /\ author.owner.keys["public"] \in KeysOf(doc, Method(author.did, "public"))
           \/ /\ author.kind = "delegate" /\ author.mandate # Absent /\ resolve # Absent
              /\ <<author.key, author.mandate>> \in resolve
    PROVE  VerifyManifestSignature(SignManifest(author, m), doc, resolve)
<1>1. ASSUME NEW signer, NEW k, NEW by,
             SignManifest(author, m)
               = Signed(m, k, by, [key |-> signer, over |-> Signed(m, k, by, Absent)]),
             IF by = Absent THEN signer \in KeysOf(doc, k)
             ELSE resolve # Absent /\ <<k, by>> \in resolve /\ signer = k
      PROVE  VerifyManifestSignature(SignManifest(author, m), doc, resolve)
  <2> DEFINE u == Signed(m, k, by, Absent)
             s == Signed(m, k, by, [key |-> signer, over |-> u])
  <2>1. /\ s.signature = [key |-> k, by |-> by, value |-> [key |-> signer, over |-> u]]
        /\ Blank(s) = u
    BY BlankIsUnsigned
  <2>2. /\ s.signature.key = k /\ s.signature.by = by
        /\ s.signature.value.key = signer /\ s.signature.value.over = u
    BY <2>1
  <2> HIDE DEF u, s
  <2>3. VerifyManifestSignature(s, doc, resolve)
    BY <1>1, <2>1, <2>2 DEF VerifyManifestSignature
  <2>4. QED
    BY <1>1, <2>3 DEF s, u
<1> DEFINE K == Method(author.did, "public")
           o == author.owner.keys["public"]
<1>2. CASE author.kind = "owner"
  <2>1. SignManifest(author, m)
          = Signed(m, K, Absent, [key |-> o, over |-> Signed(m, K, Absent, Absent)])
    BY <1>2 DEF SignManifest
  <2>2. o \in KeysOf(doc, K)
    BY <1>2
  <2> HIDE DEF K, o
  <2>3. QED
    BY <1>1, <2>1, <2>2
<1>3. CASE author.kind = "delegate"
  <2> DEFINE k == author.key  b == author.mandate
  <2>1. SignManifest(author, m) = Signed(m, k, b, [key |-> k, over |-> Signed(m, k, b, Absent)])
    BY <1>3 DEF SignManifest
  <2>2. b # Absent /\ resolve # Absent /\ <<k, b>> \in resolve
    BY <1>3
  <2> HIDE DEF k, b
  <2>3. QED
    BY <1>1, <2>1, <2>2
<1>4. QED
  BY <1>2, <1>3

\* A manifest that is changed in anything but its signature verifies nowhere: the
\* sections, their hashes and wraps, the edition and the gamma anchor are signed.
THEOREM TamperedManifestFails ==
    ASSUME NEW m, IsManifest(m), NEW author, NEW field, field # "signature",
           field \in DOMAIN m, NEW value, m[field] # value, NEW doc, NEW resolve
    PROVE  ~VerifyManifestSignature([SignManifest(author, m) EXCEPT ![field] = value],
                                    doc, resolve)
<1>1. PICK signer, k, by :
         SignManifest(author, m)
           = Signed(m, k, by, [key |-> signer, over |-> Signed(m, k, by, Absent)])
  BY DEF SignManifest
<1> DEFINE u == Signed(m, k, by, Absent)
           s == Signed(m, k, by, [key |-> signer, over |-> u])
           t == [s EXCEPT ![field] = value]
<1>2. u[field] = m[field]
  BY DEF Signed, IsManifest
<1>3. /\ t = [f \in DOMAIN t |-> t[f]] /\ t[field] = value /\ field \in DOMAIN t
      /\ t.signature.value.over = u
  BY DEF Signed, IsManifest
<1>4. Blank(t)[field] = value
  <2> HIDE DEF t
  <2>1. QED
    BY <1>3 DEF Blank, Signed
<1>5. t.signature.value.over # Blank(t)
  BY <1>2, <1>3, <1>4
<1>6. QED
  BY <1>1, <1>5 DEF VerifyManifestSignature
-----------------------------------------------------------------------------
(***************************************************************************)
(* Verification                                                            *)
(***************************************************************************)

\* Every reader that has a wrap of a section has the key it is for.
Honest(readers, recipients) ==
    \A reader \in readers :
        reader.did \in {r.did : r \in recipients} => Reads(reader, recipients)

\* What is there is told from what is not, and from a failure.
ValuesAreThere ==
    /\ \A s : TitleOf(s) # Absent /\ RenderSectionMarkdown(s) # Failed
    /\ \A s : TitleOf(s) # Failed
    /\ \A m, subject, id, recipients, fresh :
          EncryptSectionTitle(m, subject, id, recipients, fresh) # Absent
    /\ \A recipients, fresh : WrapsFor(recipients, fresh) # Absent
    /\ \A m : Blank(m) # Absent

LEMMA ReadersAreHonest ==
    ASSUME NEW readers, NEW recipients, NEW fresh, Honest(readers, recipients),
           NEW reader \in ReadersOf(readers, WrapsFor(recipients, fresh))
    PROVE  Reads(reader, recipients)
BY LabelsOfWraps DEF Honest, ReadersOf

\* The section that writeSection makes passes verification, in a bundle of the subject
\* that has its file.
LEMMA WrittenSectionIsSound ==
    ASSUME NEW zone, NEW s, NEW recipients, NEW fresh, NEW readers, NEW bundle,
           ValuesAreThere, fresh.body.dek # Failed, fresh.title.dek # Failed,
           s.title # EmptyTitle, s.ref # Absent,
           Encrypted(zone) => Honest(readers, recipients),
           LET e == WriteSection(zone, bundle.manifest.subject, s, recipients, fresh) IN
           e.desc.file \in DOMAIN bundle.files /\ bundle.files[e.desc.file] = e.blob
    PROVE  LET d == WriteSection(zone, bundle.manifest.subject, s, recipients, fresh).desc IN
           /\ DescriptorErrors(zone, d) = {}
           /\ ContentErrors(zone, d, bundle, readers) = {}
           /\ ~TitleError(zone, d, bundle, readers)
<1> DEFINE subject == bundle.manifest.subject
           e == WriteSection(zone, subject, s, recipients, fresh)
           d == e.desc
           text == RenderSectionMarkdown(s)
           sealed == EncryptSection(text, subject, s.id, recipients, fresh.body)
           cipher == EncryptSectionTitle(TitleOf(s), subject, s.id, recipients, fresh.title)
<1>1. /\ d.id = s.id /\ d.ref = s.ref /\ d.file = FileOf(zone, s.id) /\ d.sha = text
      /\ d.wraps = IF Encrypted(zone) THEN sealed.wraps ELSE Absent
      /\ d.title = IF IndexEncrypted(zone) THEN Absent ELSE TitleOf(s)
      /\ d.titleCipher = IF IndexEncrypted(zone) THEN cipher ELSE Absent
      /\ e.blob = IF Encrypted(zone) THEN sealed.box ELSE text
  BY DEF WriteSection
<1>2. /\ sealed.wraps = WrapsFor(recipients, fresh.body)
      /\ sealed.box = Seal(fresh.body.dek, SectionAad(subject, s.id), text)
      /\ cipher.wraps = WrapsFor(recipients, fresh.title)
      /\ cipher.box = Seal(fresh.title.dek, TitleAad(subject, s.id), TitleOf(s))
  BY DEF EncryptSection, EncryptSectionTitle
<1>3. bundle.files[d.file] = e.blob /\ d.file \in DOMAIN bundle.files
  OBVIOUS
<1>4. IndexEncrypted(zone) => Encrypted(zone)
  BY DEF IndexEncrypted, Encrypted
<1> HIDE DEF e, d, sealed, cipher, text, subject
<1>5. DescriptorErrors(zone, d) = {}
  <2>1. d.wraps # Absent <=> Encrypted(zone)
    BY <1>1, <1>2 DEF ValuesAreThere
  <2>2. d.title = Absent <=> IndexEncrypted(zone)
    BY <1>1 DEF ValuesAreThere
  <2>3. d.titleCipher # Absent <=> IndexEncrypted(zone)
    BY <1>1 DEF ValuesAreThere, cipher
  <2>4. ~IndexEncrypted(zone) => d.title.title # EmptyTitle
    BY <1>1 DEF TitleOf
  <2>5. d.file = FileOf(zone, d.id) /\ d.ref # Absent
    BY <1>1
  <2>6. \A x : x \notin DescriptorErrors(zone, d)
    BY <2>1, <2>2, <2>3, <2>4, <2>5 DEF DescriptorErrors, Encrypted
  <2>7. QED
    BY <2>6
<1>6. ContentErrors(zone, d, bundle, readers) = {}
  <2>1. CASE ~Encrypted(zone)
    BY <1>1, <1>3, <2>1 DEF ContentErrors
  <2>2. CASE Encrypted(zone)
    <3>1. ASSUME NEW reader \in ReadersOf(readers, d.wraps)
          PROVE  DecryptSection(bundle.files[d.file], d.wraps, subject, d.id, reader) = text
      <4>1. Reads(reader, recipients)
        BY <1>1, <1>2, <2>2, ReadersAreHonest
      <4>2. OpenWith(Seal(fresh.body.dek, SectionAad(subject, s.id), text),
                     WrapsFor(recipients, fresh.body), SectionAad(subject, s.id), reader) = text
        <5> DEFINE f == fresh.body  a == SectionAad(subject, s.id)
        <5>1. f.dek # Failed
          OBVIOUS
        <5> HIDE DEF f, a
        <5>2. OpenWith(Seal(f.dek, a, text), WrapsFor(recipients, f), a, reader) = text
          BY <4>1, <5>1, HolderOpens
        <5>3. QED
          BY <5>2 DEF f, a
      <4>3. QED
        BY <1>1, <1>2, <1>3, <2>2, <4>2 DEF DecryptSection
    <3>2. QED
      BY <1>1, <1>3, <2>2, <3>1 DEF ContentErrors, subject
  <2>3. QED
    BY <2>1, <2>2
<1>7. ~TitleError(zone, d, bundle, readers)
  <2>1. SUFFICES ASSUME IndexEncrypted(zone), NEW reader \in ReadersOf(readers, cipher.wraps)
                 PROVE  DecryptSectionTitle(cipher, subject, s.id, reader) # Failed
    BY <1>1 DEF TitleError, subject
  <2>2. Reads(reader, recipients)
    BY <1>2, <1>4, <2>1, ReadersAreHonest
  <2>3. OpenWith(Seal(fresh.title.dek, TitleAad(subject, s.id), TitleOf(s)),
                 WrapsFor(recipients, fresh.title), TitleAad(subject, s.id), reader) = TitleOf(s)
    <3> DEFINE f == fresh.title  a == TitleAad(subject, s.id)  t == TitleOf(s)
    <3>1. f.dek # Failed
      OBVIOUS
    <3> HIDE DEF f, a, t
    <3>2. OpenWith(Seal(f.dek, a, t), WrapsFor(recipients, f), a, reader) = t
      BY <2>2, <3>1, HolderOpens
    <3>3. QED
      BY <3>2 DEF f, a, t
  <2>4. QED
    BY <1>2, <2>3 DEF DecryptSectionTitle, ValuesAreThere
<1>8. QED
  BY <1>5, <1>6, <1>7 DEF d, e, subject

\* The file of a section is the one its descriptor names, when the descriptors name
\* different files.
LEMMA FilesFollowEntries ==
    ASSUME NEW placed, NEW z \in Spheres, NEW i \in DOMAIN placed[z],
           \A y \in Spheres : DOMAIN placed[y] \subseteq Int,
           \A y, x \in Spheres : \A j \in DOMAIN placed[y], k \in DOMAIN placed[x] :
               placed[y][j].desc.file = placed[x][k].desc.file => y = x /\ j = k
    PROVE  /\ placed[z][i].desc.file \in DOMAIN FilesOf(placed)
           /\ FilesOf(placed)[placed[z][i].desc.file] = placed[z][i].blob
<1> DEFINE places == UNION {{<<y, j>> : j \in DOMAIN placed[y]} : y \in Spheres}
           File(p) == placed[p[1]][p[2]].desc.file
           Last(f) == CHOOSE p \in places :
                         /\ File(p) = f
                         /\ \A q \in places : File(q) = f /\ q[1] = p[1] => q[2] <= p[2]
           at == <<z, i>>
<1>1. at \in places /\ File(at) = placed[z][i].desc.file
  OBVIOUS
<1>2. ASSUME NEW q \in places, File(q) = File(at) PROVE q = at
  <2>1. PICK y \in Spheres : \E j \in DOMAIN placed[y] : q = <<y, j>>
    OBVIOUS
  <2>2. PICK j \in DOMAIN placed[y] : q = <<y, j>>
    BY <2>1
  <2>3. placed[y][j].desc.file = placed[z][i].desc.file
    BY <1>2, <2>2
  <2>4. QED
    BY <2>2, <2>3
<1>3. i <= i
  <2>1. i \in Int
    OBVIOUS
  <2>2. QED
    BY <2>1
<1>4. Last(File(at)) = at
  <2> HIDE DEF places, File
  <2>1. \A q \in places : File(q) = File(at) /\ q[1] = at[1] => q[2] <= at[2]
    BY <1>2, <1>3
  <2>2. QED
    BY <1>1, <1>2, <2>1
<1>5. FilesOf(placed) = [f \in {File(p) : p \in places} |->
                           placed[Last(f)[1]][Last(f)[2]].blob]
  BY DEF FilesOf
<1> HIDE DEF places, File, Last
<1>6. File(at) \in {File(p) : p \in places}
  BY <1>1
<1>7. FilesOf(placed)[File(at)] = placed[Last(File(at))[1]][Last(File(at))[2]].blob
  BY <1>5, <1>6
<1>8. QED
  BY <1>1, <1>4, <1>5, <1>6, <1>7

LEMMA FilesAreNamed ==
    ASSUME NEW placed, NEW g \in DOMAIN FilesOf(placed)
    PROVE  \E y \in Spheres : \E j \in DOMAIN placed[y] : g = placed[y][j].desc.file
<1> DEFINE places == UNION {{<<y, j>> : j \in DOMAIN placed[y]} : y \in Spheres}
           File(p) == placed[p[1]][p[2]].desc.file
           Last(f) == CHOOSE p \in places :
                         /\ File(p) = f
                         /\ \A q \in places : File(q) = f /\ q[1] = p[1] => q[2] <= p[2]
<1>1. FilesOf(placed) = [f \in {File(p) : p \in places} |->
                           placed[Last(f)[1]][Last(f)[2]].blob]
  BY DEF FilesOf
<1>2. PICK p \in places : g = File(p)
  <2> HIDE DEF File, Last, places
  <2>1. QED
    BY <1>1
<1>3. QED
  BY <1>2

\* An identity with these keys signs an edition of these sections, each wrapped for
\* its recipients.  chain: the manifest it supersedes, or Absent.
FirstBundle(owner, sections, chain, on, day, anchor, fresh) ==
    AuthorBundle(OwnerAuthor(owner), SignDidDocument(BuildDidDocument(owner), owner.root),
                 sections, Absent, chain, on, day, anchor, fresh)

\* What signing keeps of a document, and what it adds.
LEMMA DidDocumentSigned ==
    ASSUME NEW id, NEW methods, NEW root
    PROVE  LET plain == [id |-> id, epoch |-> NoKey, proof |-> Absent, methods |-> methods]
               doc == SignDidDocument(plain, root) IN
           /\ doc.id = id /\ doc.methods = methods
           /\ doc.proof = [by |-> Method(id, "root"), key |-> root, over |-> plain]
           /\ [doc EXCEPT !.proof = Absent] = plain
<1> DEFINE plain == [id |-> id, epoch |-> NoKey, proof |-> Absent, methods |-> methods]
           sig == [by |-> Method(plain.id, "root"), key |-> root, over |-> plain]
           doc == SignDidDocument(plain, root)
<1>1. doc = [plain EXCEPT !.proof = sig]
  BY DEF SignDidDocument
<1>2. plain.id = id
  OBVIOUS
<1>3. ASSUME NEW x
      PROVE  [plain EXCEPT !.proof = x] = [id |-> id, epoch |-> NoKey, proof |-> x,
                                           methods |-> methods]
  OBVIOUS
<1> HIDE DEF doc, sig
<1>4. doc = [id |-> id, epoch |-> NoKey, proof |-> sig, methods |-> methods]
  BY <1>1, <1>3
<1>5. [doc EXCEPT !.proof = Absent] = plain
  BY <1>4
<1>6. doc.id = id /\ doc.methods = methods /\ doc.proof = sig
  BY <1>4
<1> HIDE DEF plain
<1>7. sig = [by |-> Method(id, "root"), key |-> root, over |-> plain]
  BY <1>2 DEF sig
<1>8. QED
  BY <1>5, <1>6, <1>7 DEF doc, plain

LEMMA DidDocumentVerifies ==
    ASSUME NEW root, NEW keys,
           \A x : [by |-> Method(DidOf(root), "root"), key |-> root, over |-> x] # Absent
    PROVE  LET owner == CreateIdentity(root, keys)
               doc == SignDidDocument(BuildDidDocument(owner), root) IN
           /\ VerifyDidDocument(doc)
           /\ doc.id = DidOf(root)
           /\ \A z \in Spheres : keys[z] \in KeysOf(doc, Method(DidOf(root), z))
<1> DEFINE owner == CreateIdentity(root, keys)
           plain == BuildDidDocument(owner)
           doc == SignDidDocument(plain, root)
           methods == {[name |-> Method(DidOf(root), z), key |-> keys[z]] : z \in Spheres}
<1>1. /\ owner.did = DidOf(root) /\ owner.keys = keys
  BY DEF CreateIdentity
<1>2. plain = [id |-> DidOf(root), epoch |-> NoKey, proof |-> Absent, methods |-> methods]
  BY <1>1 DEF BuildDidDocument
<1>3. /\ doc.id = DidOf(root) /\ doc.methods = methods
      /\ doc.proof = [by |-> Method(DidOf(root), "root"), key |-> root, over |-> plain]
      /\ [doc EXCEPT !.proof = Absent] = plain
  <2> HIDE DEF plain, methods
  <2>1. QED
    BY <1>2, DidDocumentSigned
<1>4. VerifyDidDocument(doc)
  BY <1>3 DEF VerifyDidDocument
<1>5. ASSUME NEW z \in Spheres PROVE keys[z] \in KeysOf(doc, Method(DidOf(root), z))
  <2>1. [name |-> Method(DidOf(root), z), key |-> keys[z]] \in methods
    OBVIOUS
  <2> HIDE DEF doc, methods
  <2>2. QED
    BY <1>3, <2>1 DEF KeysOf
<1>6. QED
  BY <1>3, <1>4, <1>5

\* The bundle that authorBundleV03 makes for an owner passes verifyBundleV03Dir
\* without any error, for every set of readers with the keys of their labels,
\* whatever the recipients and the sections, if these have titles and gamma placed.
THEOREM AuthoredBundleVerifies ==
    ASSUME NEW root, NEW keys, NEW sections, NEW chain, NEW on, NEW day, NEW anchor,
           NEW fresh, NEW readers, ValuesAreThere,
           \A x : [by |-> Method(DidOf(root), "root"), key |-> root, over |-> x] # Absent,
           \A z \in Spheres : \A i, j \in DOMAIN sections[z] :
               sections[z][i].id = sections[z][j].id => i = j,
           \A z \in Spheres : DOMAIN sections[z] \subseteq Int,
           \A z \in Spheres : \A i \in DOMAIN sections[z] :
               LET s == sections[z][i] IN
               /\ s.title # EmptyTitle /\ s.ref # Absent
               /\ fresh[z][i].body.dek # Failed /\ fresh[z][i].title.dek # Failed
               /\ Encrypted(z) =>
                    Honest(readers, ResolveZoneRecipients(OwnerAuthor(CreateIdentity(root, keys)),
                                                          z, on, s)),
           chain # Absent => chain.edition.height \in Nat /\ chain.edition.version # Absent
    PROVE  VerifyBundle(FirstBundle(CreateIdentity(root, keys), sections, chain, on, day,
                                    anchor, fresh), readers, Absent, chain)
<1> DEFINE owner == CreateIdentity(root, keys)
           author == OwnerAuthor(owner)
           doc == SignDidDocument(BuildDidDocument(owner), owner.root)
           placed == [z \in Spheres |-> Entries(author, z, sections, Absent, on, fresh)]
           zones == [z \in Spheres |-> ZoneOf(z, placed[z])]
           plain == BuildManifest(author, doc, Edition(day, chain), zones, anchor)
           manifest == SignManifest(author, plain)
           bundle == FirstBundle(owner, sections, chain, on, day, anchor, fresh)
<1>1. /\ author.kind = "owner" /\ author.did = DidOf(root)
      /\ author.owner.keys = keys /\ owner.root = root
  BY DEF OwnerAuthor, CreateIdentity
<1>2. bundle = [did |-> doc, files |-> FilesOf(placed), manifest |-> manifest]
  BY DEF FirstBundle, AuthorBundle
<1>3. /\ VerifyDidDocument(doc) /\ doc.id = DidOf(root)
      /\ \A z \in Spheres : keys[z] \in KeysOf(doc, Method(DidOf(root), z))
  BY <1>1, DidDocumentVerifies
<1>4. /\ IsManifest(plain) /\ plain.aithos = "0.3.0" /\ plain.subject = DidOf(root)
      /\ plain.edition = Edition(day, chain) /\ plain.zones = zones /\ plain.didHash = doc
  BY <1>1 DEF BuildManifest, IsManifest
<1>5. /\ manifest.aithos = "0.3.0" /\ manifest.subject = DidOf(root)
      /\ manifest.edition = Edition(day, chain) /\ manifest.zones = zones
      /\ manifest.didHash = doc
  <2> HIDE DEF plain, zones, doc, author
  <2>1. PICK k, by, value : manifest = Signed(plain, k, by, value)
    BY DEF SignManifest
  <2>2. QED
    BY <1>4, <2>1 DEF Signed, IsManifest
<1>6. VerifyManifestSignature(manifest, doc, Absent)
  <2>1. author.owner.keys["public"] \in KeysOf(doc, Method(author.did, "public"))
    BY <1>1, <1>3 DEF Spheres
  <2> HIDE DEF plain, author, doc
  <2>2. QED
    BY <1>1, <1>4, <2>1, SignedManifestVerifies
<1>7. /\ ~(manifest.edition.height < 1)
      /\ (manifest.edition.prevHash = Absent) <=> (manifest.edition.supersedes = Absent)
      /\ chain # Absent => manifest.edition.prevHash = Blank(chain)
  BY <1>5 DEF Edition, ValuesAreThere
<1>8. ASSUME NEW z \in Spheres, NEW i \in DOMAIN placed[z]
      PROVE  /\ i \in DOMAIN sections[z]
             /\ placed[z][i]
                  = WriteSection(z, DidOf(root), sections[z][i],
                                 ResolveZoneRecipients(author, z, on, sections[z][i]),
                                 fresh[z][i])
             /\ placed[z][i].desc.file = FileOf(z, sections[z][i].id)
             /\ placed[z][i].desc.id = sections[z][i].id
  <2>1. placed[z] = [j \in DOMAIN sections[z] |->
                        SectionEntry(author, z, sections[z][j], Absent, on, fresh[z][j])]
    BY <1>1 DEF Entries, Authors
  <2> DEFINE s == sections[z][i]
             recipients == ResolveZoneRecipients(author, z, on, s)
  <2>2. i \in DOMAIN sections[z] /\ placed[z][i] = SectionEntry(author, z, s, Absent, on, fresh[z][i])
    BY <2>1
  <2>3. SectionEntry(author, z, s, Absent, on, fresh[z][i])
          = WriteSection(z, DidOf(root), s, recipients, fresh[z][i])
    <3> HIDE DEF author
    <3>1. QED
      BY <1>1 DEF SectionEntry, Carryable
  <2> HIDE DEF author, placed, s, recipients
  <2>4. ASSUME NEW subject, NEW r, NEW f
        PROVE  LET w == WriteSection(z, subject, s, r, f) IN
               w.desc.file = FileOf(z, s.id) /\ w.desc.id = s.id
    BY DEF WriteSection
  <2>5. placed[z][i].desc.file = FileOf(z, s.id) /\ placed[z][i].desc.id = s.id
    BY <2>2, <2>3, <2>4
  <2>6. QED
    BY <2>2, <2>3, <2>5 DEF s, recipients
<1>9. \A z \in Spheres : DOMAIN zones[z].sections = DOMAIN placed[z]
                         /\ \A i \in DOMAIN placed[z] : zones[z].sections[i] = placed[z][i].desc
  BY DEF ZoneOf
<1>10. \A y, x \in Spheres : \A j \in DOMAIN placed[y], k \in DOMAIN placed[x] :
          placed[y][j].desc.file = placed[x][k].desc.file => y = x /\ j = k
  <2> SUFFICES ASSUME NEW y \in Spheres, NEW x \in Spheres, NEW j \in DOMAIN placed[y],
                      NEW k \in DOMAIN placed[x],
                      placed[y][j].desc.file = placed[x][k].desc.file
               PROVE  y = x /\ j = k
    OBVIOUS
  <2>1. FileOf(y, sections[y][j].id) = FileOf(x, sections[x][k].id)
    BY <1>8
  <2>2. y = x /\ sections[y][j].id = sections[x][k].id
    BY <2>1 DEF FileOf
  <2>3. QED
    BY <1>8, <2>2
<1>11. ASSUME NEW z \in Spheres, NEW i \in DOMAIN placed[z]
       PROVE  /\ DescriptorErrors(z, zones[z].sections[i]) = {}
              /\ ContentErrors(z, zones[z].sections[i], bundle, readers) = {}
              /\ ~TitleError(z, zones[z].sections[i], bundle, readers)
  <2> DEFINE s == sections[z][i]
             recipients == ResolveZoneRecipients(author, z, on, s)
             f == fresh[z][i]
             e == WriteSection(z, DidOf(root), s, recipients, f)
  <2>1. i \in DOMAIN sections[z] /\ placed[z][i] = e
    BY <1>8
  <2>2. e.desc.file \in DOMAIN FilesOf(placed) /\ FilesOf(placed)[e.desc.file] = e.blob
    <3>1. \A y \in Spheres : DOMAIN placed[y] \subseteq Int
      BY <1>8
    <3> HIDE DEF placed, e
    <3>2. QED
      BY <1>10, <2>1, <3>1, FilesFollowEntries
  <2>3. /\ s.title # EmptyTitle /\ s.ref # Absent
        /\ f.body.dek # Failed /\ f.title.dek # Failed
        /\ Encrypted(z) => Honest(readers, recipients)
    BY <2>1
  <2>4. bundle.manifest.subject = DidOf(root) /\ bundle.files = FilesOf(placed)
    BY <1>2, <1>5
  <2>5. zones[z].sections[i] = e.desc
    BY <1>9, <2>1
  <2> HIDE DEF zones, placed, recipients, f, s, bundle, author, manifest
  <2>6. e = WriteSection(z, bundle.manifest.subject, s, recipients, f)
    BY <2>4
  <2>7. e.desc.file \in DOMAIN bundle.files /\ bundle.files[e.desc.file] = e.blob
    BY <2>2, <2>4
  <2> HIDE DEF e
  <2>8. /\ DescriptorErrors(z, e.desc) = {}
        /\ ContentErrors(z, e.desc, bundle, readers) = {}
        /\ ~TitleError(z, e.desc, bundle, readers)
    BY <2>3, <2>6, <2>7, WrittenSectionIsSound
  <2>9. QED
    BY <2>5, <2>8
<1>12. ASSUME NEW z \in Spheres PROVE ~Orphan(z, zones[z].sections, FilesOf(placed))
  <2>1. SUFFICES ASSUME NEW g \in DOMAIN FilesOf(placed), g.zone = z
                 PROVE  \E i \in DOMAIN zones[z].sections : g = FileOf(z, zones[z].sections[i].id)
    BY DEF Orphan
  <2>2. PICK y \in Spheres : \E j \in DOMAIN placed[y] : g = placed[y][j].desc.file
    <3> HIDE DEF placed
    <3>1. QED
      BY FilesAreNamed
  <2>3. PICK j \in DOMAIN placed[y] : g = placed[y][j].desc.file
    BY <2>2
  <2>4. g = FileOf(y, sections[y][j].id) /\ placed[y][j].desc.id = sections[y][j].id
    BY <1>8, <2>3
  <2>5. y = z
    BY <2>1, <2>4 DEF FileOf
  <2>6. QED
    BY <1>9, <2>4, <2>5
<1>13. ASSUME NEW z \in Spheres PROVE ZoneErrors(z, bundle, readers) = {}
  <2>1. bundle.manifest.zones[z] = zones[z] /\ bundle.files = FilesOf(placed)
    BY <1>2, <1>5
  <2>2. /\ zones[z].format = "v2" /\ zones[z].encrypted = Encrypted(z)
        /\ zones[z].indexEncrypted = IndexEncrypted(z)
    BY DEF ZoneOf
  <2>3. DOMAIN zones[z].sections = DOMAIN placed[z]
    BY <1>9
  <2> HIDE DEF zones, placed, bundle
  <2>4. QED
    <3> DEFINE zm == bundle.manifest.zones[z]
    <3>1. {x \in {"format", "encrypted", "index", "orphan"} :
              \/ x = "format" /\ zm.format # "v2"
              \/ x = "encrypted" /\ zm.encrypted # Encrypted(z)
              \/ x = "index" /\ zm.indexEncrypted # IndexEncrypted(z)
              \/ x = "orphan" /\ Orphan(z, zm.sections, bundle.files)} = {}
      BY <1>12, <2>1, <2>2
    <3>2. ASSUME NEW i \in DOMAIN zm.sections
          PROVE  UNION {DescriptorErrors(z, zm.sections[i]),
                        ContentErrors(z, zm.sections[i], bundle, readers),
                        IF TitleError(z, zm.sections[i], bundle, readers)
                        THEN {"index"} ELSE {}} = {}
      <4>1. /\ DescriptorErrors(z, zm.sections[i]) = {}
            /\ ContentErrors(z, zm.sections[i], bundle, readers) = {}
            /\ ~TitleError(z, zm.sections[i], bundle, readers)
        BY <1>11, <2>1, <2>3
      <4>2. QED
        BY <4>1
    <3>3. UNION {UNION {DescriptorErrors(z, zm.sections[i]),
                        ContentErrors(z, zm.sections[i], bundle, readers),
                        IF TitleError(z, zm.sections[i], bundle, readers)
                        THEN {"index"} ELSE {}} : i \in DOMAIN zm.sections} = {}
      <4> HIDE DEF zm
      <4>1. QED
        BY <3>2
    <3>4. QED
      BY <3>1, <3>3 DEF ZoneErrors
<1>14. bundle.did = doc /\ bundle.manifest = manifest
  BY <1>2
<1> HIDE DEF bundle, manifest, doc, zones, placed, plain
<1>15. BundleErrors(bundle, readers, Absent, chain) = {}
  <2>1. {x \in {"version", "did", "did-hash", "subject", "signature", "edition", "prev"} :
            \/ x = "version" /\ manifest.aithos # "0.3.0"
            \/ x = "did" /\ ~VerifyDidDocument(doc)
            \/ x = "did-hash" /\ doc # manifest.didHash
            \/ x = "subject" /\ manifest.subject # doc.id
            \/ x = "signature" /\ ~VerifyManifestSignature(manifest, doc, Absent)
            \/ x = "edition" /\ (manifest.edition.height < 1
                                  \/ (manifest.edition.prevHash = Absent)
                                       # (manifest.edition.supersedes = Absent))
            \/ x = "prev" /\ chain # Absent /\ manifest.edition.prevHash # Blank(chain)} = {}
    BY <1>3, <1>5, <1>6, <1>7
  <2>2. UNION {ZoneErrors(z, bundle, readers) : z \in Spheres} = {}
    BY <1>13
  <2>3. QED
    BY <1>14, <2>1, <2>2 DEF BundleErrors
<1>16. QED
  BY <1>15 DEF VerifyBundle, bundle, owner
-----------------------------------------------------------------------------
(***************************************************************************)
(* The format 0.4.0                                                        *)
(***************************************************************************)

\* A section key sealed under a zone key opens in its zone, for its id and under the
\* generation of the key it was sealed with, and nowhere else; the title that it seals
\* opens for its section only.
THEOREM SectionKeyOpensInItsPlace ==
    ASSUME NEW zk, NEW dek, NEW subject, NEW zone, NEW id, NEW meta,
           NEW subject2, NEW zone2, NEW id2, NEW kid2, NEW key2
    PROVE  LET enc == EncryptDek(zk, dek, subject, zone, id)
               moved == [enc EXCEPT !.kid = kid2] IN
           /\ DecryptDek(key2, moved, subject2, zone2, id2)
                = IF /\ key2 = zk.key /\ subject2 = subject /\ zone2 = zone
                     /\ id2 = id /\ kid2 = zk.kid
                  THEN dek ELSE Failed
           /\ DecryptTitleV2(dek, subject2, id2, EncryptTitleV2(dek, subject, id, meta))
                = IF subject2 = subject /\ id2 = id THEN meta ELSE Failed
<1>1. DekAad(subject2, zone2, id2, kid2) = DekAad(subject, zone, id, zk.kid)
        <=> subject2 = subject /\ zone2 = zone /\ id2 = id /\ kid2 = zk.kid
  BY DEF DekAad
<1>2. TitleAadV2(subject2, id2) = TitleAadV2(subject, id) <=> subject2 = subject /\ id2 = id
  BY DEF TitleAadV2
<1>3. ASSUME NEW k, NEW a, NEW t, NEW k2, NEW a2
      PROVE  Open(Seal(k, a, t), k2, a2) = IF k2 = k /\ a2 = a THEN t ELSE Failed
  BY DEF Open, Seal
<1> DEFINE enc == EncryptDek(zk, dek, subject, zone, id)
           moved == [enc EXCEPT !.kid = kid2]
<1>4. /\ moved.kid = kid2
      /\ moved.box = Seal(zk.key, DekAad(subject, zone, id, zk.kid), dek)
  BY DEF EncryptDek
<1> HIDE DEF moved
<1>5. DecryptDek(key2, moved, subject2, zone2, id2)
        = Open(Seal(zk.key, DekAad(subject, zone, id, zk.kid), dek), key2,
               DekAad(subject2, zone2, id2, kid2))
  BY <1>4 DEF DecryptDek
<1>6. DecryptTitleV2(dek, subject2, id2, EncryptTitleV2(dek, subject, id, meta))
        = Open(Seal(dek, TitleAadV2(subject, id), meta), dek, TitleAadV2(subject2, id2))
  BY DEF DecryptTitleV2, EncryptTitleV2
<1>7. QED
  BY <1>1, <1>2, <1>3, <1>5, <1>6 DEF moved

\* The number of shards is the least power of two, of at most 64, that leaves 128
\* sections to a shard on average; above 8192 sections they are 64.
THEOREM ShardsAreFewAndSmall ==
    ASSUME NEW n \in Nat
    PROVE  LET count == ShardCountForN(n) IN
           /\ count \in ShardCounts
           /\ n <= ShardTarget * count \/ count = 64
           /\ \A c \in ShardCounts : c < count => ShardTarget * c < n
<1> DEFINE buckets == (n + ShardTarget - 1) \div ShardTarget
           Fits(c) == c >= buckets /\ \A d \in ShardCounts : d >= buckets => c <= d
<1>1. /\ buckets \in Nat
      /\ \A c \in Nat : c >= buckets <=> ShardTarget * c >= n
  BY DEF ShardTarget
<1>2. CASE buckets > 64
  <2>1. ShardCountForN(n) = 64
    BY <1>2 DEF ShardCountForN
  <2>2. QED
    BY <1>1, <1>2, <2>1 DEF ShardCounts, ShardTarget
<1>3. CASE ~(buckets > 64)
  <2> HIDE DEF buckets
  <2>1. \E c \in ShardCounts : Fits(c)
    <3>1. buckets <= 1 => Fits(1)
      BY <1>1 DEF ShardCounts
    <3>2. 1 < buckets /\ buckets <= 2 => Fits(2)
      BY <1>1 DEF ShardCounts
    <3>3. 2 < buckets /\ buckets <= 4 => Fits(4)
      BY <1>1 DEF ShardCounts
    <3>4. 4 < buckets /\ buckets <= 8 => Fits(8)
      BY <1>1 DEF ShardCounts
    <3>5. 8 < buckets /\ buckets <= 16 => Fits(16)
      BY <1>1 DEF ShardCounts
    <3>6. 16 < buckets /\ buckets <= 32 => Fits(32)
      BY <1>1 DEF ShardCounts
    <3>7. 32 < buckets /\ buckets <= 64 => Fits(64)
      BY <1>1 DEF ShardCounts
    <3>8. QED
      BY <1>1, <1>3, <3>1, <3>2, <3>3, <3>4, <3>5, <3>6, <3>7 DEF ShardCounts
  <2>2. ShardCountForN(n) = CHOOSE c \in ShardCounts : Fits(c)
    BY <1>3 DEF ShardCountForN, buckets
  <2>3. ShardCountForN(n) \in ShardCounts /\ Fits(ShardCountForN(n))
    BY <2>1, <2>2
  <2>4. \A c \in ShardCounts : c < ShardCountForN(n) => ~(c >= buckets)
    BY <2>3 DEF ShardCounts
  <2>5. QED
    BY <1>1, <2>3, <2>4 DEF ShardCounts, ShardTarget
<1>4. QED
  BY <1>2, <1>3

\* Every descriptor is in exactly one shard, whatever the hash.
THEOREM ShardsPartition ==
    ASSUME NEW listed, NEW hash, NEW count \in Nat \ {0},
           \A e \in listed : hash[e.id] \in Nat, NEW e \in listed
    PROVE  LET shards == ShardEntries(listed, hash, count) IN
           /\ \E i \in DOMAIN shards : e \in shards[i]
           /\ \A i, j \in DOMAIN shards : e \in shards[i] /\ e \in shards[j] => i = j
<1>1. hash[e.id] % count \in 0 .. count - 1
  OBVIOUS
<1>2. QED
  BY <1>1 DEF ShardEntries, ShardIndexForSection
-----------------------------------------------------------------------------
(***************************************************************************)
(* The gamma log                                                           *)
(***************************************************************************)

\* A header: the fields that buildGammaEntryV03 gives it.
IsHeader(h) ==
    h = [id |-> h.id, at |-> h.at, subject |-> h.subject, zone |-> h.zone, op |-> h.op,
         target |-> h.target, prev |-> h.prev, prevSection |-> h.prevSection,
         readers |-> h.readers, hash |-> h.hash]

LEMMA HashIsBlanked ==
    ASSUME NEW h, IsHeader(h), NEW x
    PROVE  /\ [[h EXCEPT !.hash = x] EXCEPT !.hash = Absent] = [h EXCEPT !.hash = Absent]
           /\ [h EXCEPT !.hash = x].hash = x
           /\ [h EXCEPT !.hash = x].readers = h.readers
           /\ [h EXCEPT !.hash = x].prev = h.prev
           /\ [h EXCEPT !.hash = x].at = h.at
           /\ h.hash = Absent => [h EXCEPT !.hash = Absent] = h
BY DEF IsHeader

\* An entry that buildGammaEntryV03 makes verifies if and only if it is later than the
\* entry it follows, names its hash, and its signer is one of the document or of the
\* resolver: two writes in one millisecond make a log that does not verify.
THEOREM BuiltEntryVerifies ==
    ASSUME NEW input, NEW fresh, NEW doc, NEW prev, NEW resolve, input.readers # {}
    PROVE  LET entry == BuildGammaEntry(input, fresh)
               signer == input.signer IN
           VerifyGammaEntry(entry, doc, prev, resolve)
             <=> /\ IF prev = Absent THEN input.prev = Absent
                    ELSE input.prev = prev.header.hash /\ input.at > prev.header.at
                 /\ IF signer.mandate = Absent THEN signer.key \in KeysOf(doc, signer.keyId)
                    ELSE /\ resolve # Absent
                         /\ <<signer.keyId, signer.mandate>> \in resolve
                         /\ signer.key = signer.keyId
<1> DEFINE box == Seal(fresh.key, Absent, input.payload)
           envelopes == {WrapEntryKey(fresh.key, r, fresh.ephemerals[r]) : r \in input.readers}
           blank == HeaderOf(input, envelopes)
           hash == ComputeEntryHash(box, blank)
           header == [blank EXCEPT !.hash = hash]
           signature == SignatureOf(hash, input.signer)
           entry == BuildGammaEntry(input, fresh)
<1>1. /\ IsHeader(blank) /\ blank.hash = Absent
      /\ blank.readers = ComputeReadersHash(envelopes)
      /\ blank.prev = input.prev /\ blank.at = input.at
  BY DEF HeaderOf, IsHeader
<1>2. /\ entry.payload = box /\ entry.envelopes = envelopes
      /\ entry.header = header /\ entry.signature = signature
  BY DEF BuildGammaEntry
<1> HIDE DEF box, envelopes, blank, entry
<1>3. /\ header.hash = hash /\ header.readers = ComputeReadersHash(envelopes)
      /\ header.prev = input.prev /\ header.at = input.at
      /\ [header EXCEPT !.hash = Absent] = [blank EXCEPT !.hash = Absent]
  <2> HIDE DEF hash
  <2>1. QED
    BY <1>1, HashIsBlanked
<1>4. hash = ComputeEntryHash(box, header)
  <2> HIDE DEF header
  <2>1. QED
    BY <1>3 DEF ComputeEntryHash
<1>5. /\ signature.key = input.signer.keyId /\ signature.by = input.signer.mandate
      /\ signature.value.key = input.signer.key
      /\ signature.value.over
           = SignableBytes(hash, input.signer.keyId, input.signer.mandate)
  BY DEF SignatureOf
<1> HIDE DEF hash, header, signature
<1>6. Follows(header, prev)
        <=> IF prev = Absent THEN input.prev = Absent
            ELSE input.prev = prev.header.hash /\ input.at > prev.header.at
  BY <1>3 DEF Follows
<1>7. QED
  BY <1>2, <1>3, <1>4, <1>5, <1>6 DEF VerifyGammaEntry, SignatureVerifies, entry

\* The hash of an entry that verifies tells its payload, its header and the entry
\* before it: the head of a log settles what comes before.
THEOREM HashTellsTheEntry ==
    ASSUME NEW a, NEW b, NEW doc, NEW resolve, NEW prevA, NEW prevB,
           IsHeader(a.header), IsHeader(b.header),
           VerifyGammaEntry(a, doc, prevA, resolve), VerifyGammaEntry(b, doc, prevB, resolve),
           a.header.hash = b.header.hash
    PROVE  /\ a.payload = b.payload /\ a.header = b.header
           /\ ComputeReadersHash(a.envelopes) = ComputeReadersHash(b.envelopes)
           /\ prevA # Absent /\ prevB # Absent => prevA.header.hash = prevB.header.hash
<1>1. ComputeEntryHash(a.payload, a.header) = ComputeEntryHash(b.payload, b.header)
  BY DEF VerifyGammaEntry
<1>2. /\ a.payload = b.payload
      /\ [a.header EXCEPT !.hash = Absent] = [b.header EXCEPT !.hash = Absent]
  BY <1>1 DEF ComputeEntryHash
<1>3. ASSUME NEW g, NEW h, IsHeader(g), IsHeader(h), g.hash = h.hash,
             [g EXCEPT !.hash = Absent] = [h EXCEPT !.hash = Absent]
      PROVE  g = h
  <2> DEFINE G == [g EXCEPT !.hash = Absent]
             H == [h EXCEPT !.hash = Absent]
  <2>1. /\ G.id = g.id /\ G.at = g.at /\ G.subject = g.subject /\ G.zone = g.zone
        /\ G.op = g.op /\ G.target = g.target /\ G.prev = g.prev
        /\ G.prevSection = g.prevSection /\ G.readers = g.readers
    BY <1>3 DEF IsHeader
  <2>2. /\ H.id = h.id /\ H.at = h.at /\ H.subject = h.subject /\ H.zone = h.zone
        /\ H.op = h.op /\ H.target = h.target /\ H.prev = h.prev
        /\ H.prevSection = h.prevSection /\ H.readers = h.readers
    BY <1>3 DEF IsHeader
  <2>3. G = H
    BY <1>3
  <2> HIDE DEF G, H
  <2>4. QED
    BY <1>3, <2>1, <2>2, <2>3 DEF IsHeader
<1>4. a.header = b.header
  BY <1>2, <1>3
<1>5. QED
  BY <1>2, <1>4 DEF VerifyGammaEntry, Follows

\* Verification does not attest the wrapped keys: an entry whose wrapped keys are
\* replaced verifies as before, and a reader whose envelope does not open any more can
\* read no entry of the log at all, instead of being denied this one.
THEOREM WrappedKeysAreNotAttested ==
    ASSUME NEW entry, NEW envelopes, NEW doc, NEW prev, NEW resolve, NEW file, NEW me,
           NEW i \in DOMAIN ReadGammaEntriesOnDisk(file),
           NEW mine \in envelopes, mine.recipient = me.recipient,
           \A e \in envelopes : e.recipient = me.recipient => UnwrapEntryKey(e, me.secret) = Failed,
           ComputeReadersHash(envelopes) = ComputeReadersHash(entry.envelopes),
           entry = [payload |-> entry.payload, envelopes |-> entry.envelopes,
                    header |-> entry.header, signature |-> entry.signature],
           ReadGammaEntriesOnDisk(file)[i] = [entry EXCEPT !.envelopes = envelopes]
    PROVE  /\ VerifyGammaEntry([entry EXCEPT !.envelopes = envelopes], doc, prev, resolve)
                <=> VerifyGammaEntry(entry, doc, prev, resolve)
           /\ ReadGammaLogWith(file, me) = Failed
<1> DEFINE other == [entry EXCEPT !.envelopes = envelopes]
<1>1. /\ other.envelopes = envelopes /\ other.payload = entry.payload
      /\ other.header = entry.header /\ other.signature = entry.signature
  OBVIOUS
<1> HIDE DEF other
<1>2. VerifyGammaEntry(other, doc, prev, resolve) <=> VerifyGammaEntry(entry, doc, prev, resolve)
  BY <1>1 DEF VerifyGammaEntry
<1>3. OpenGammaEntry(other, me) = Failed
  <2> DEFINE held == {e \in envelopes : e.recipient = me.recipient}
  <2>1. held # {} /\ (CHOOSE e \in held : TRUE) \in held
    OBVIOUS
  <2>2. UnwrapEntryKey(CHOOSE e \in held : TRUE, me.secret) = Failed
    BY <2>1
  <2>3. QED
    BY <1>1, <2>1, <2>2 DEF OpenGammaEntry
<1>4. ReadGammaLogWith(file, me) = Failed
  BY <1>3 DEF ReadGammaLogWith, other
<1>5. QED
  BY <1>2, <1>4 DEF other

\* An entry opens to its payload for the readers it is sealed to, and tells anyone else
\* its header and nothing of the payload.
THEOREM EntryOpensForItsReaders ==
    ASSUME NEW input, NEW fresh, NEW me, input.readers # {}, fresh.key # Failed,
           input.payload # Failed,
           \A r \in input.readers : r.recipient = me.recipient => r.pubkey = PublicKey(me.secret)
    PROVE  LET opened == OpenGammaEntry(BuildGammaEntry(input, fresh), me) IN
           IF me.recipient \in {r.recipient : r \in input.readers}
           THEN opened.payload = input.payload /\ ~opened.denied
           ELSE opened.payload = Absent /\ opened.denied
<1> DEFINE box == Seal(fresh.key, Absent, input.payload)
           envelopes == {WrapEntryKey(fresh.key, r, fresh.ephemerals[r]) : r \in input.readers}
           entry == BuildGammaEntry(input, fresh)
           mine == {e \in envelopes : e.recipient = me.recipient}
<1>1. entry.payload = box /\ entry.envelopes = envelopes
  BY DEF BuildGammaEntry
<1>2. ASSUME NEW r \in input.readers
      PROVE  /\ WrapEntryKey(fresh.key, r, fresh.ephemerals[r]).recipient = r.recipient
             /\ r.recipient = me.recipient =>
                  UnwrapEntryKey(WrapEntryKey(fresh.key, r, fresh.ephemerals[r]), me.secret)
                    = fresh.key
  <2> DEFINE q == [did |-> r.recipient, key |-> r.pubkey]
  <2>1. q.did = r.recipient /\ q.key = r.pubkey
    OBVIOUS
  <2> HIDE DEF q
  <2>2. WrapDek(fresh.key, q, fresh.ephemerals[r]).recipient = r.recipient
    BY <2>1 DEF WrapDek, WrapFor
  <2>3. ASSUME r.recipient = me.recipient
        PROVE  UnwrapDek(WrapDek(fresh.key, q, fresh.ephemerals[r]), me.secret) = fresh.key
    BY <2>1, <2>3, WrapOpens
  <2>4. QED
    BY <2>2, <2>3 DEF WrapEntryKey, UnwrapEntryKey, q
<1>3. \A e \in mine : UnwrapEntryKey(e, me.secret) = fresh.key
  BY <1>2
<1>4. mine = {} <=> me.recipient \notin {r.recipient : r \in input.readers}
  BY <1>2
<1>5. Open(box, fresh.key, Absent) = input.payload
  BY DEF Open, Seal
<1> HIDE DEF box, entry, envelopes
<1>6. CASE mine = {}
  BY <1>1, <1>4, <1>6 DEF OpenGammaEntry, entry
<1>7. CASE mine # {}
  <2>1. (CHOOSE e \in mine : TRUE) \in mine
    BY <1>7
  <2>2. UnwrapEntryKey(CHOOSE e \in mine : TRUE, me.secret) = fresh.key
    BY <1>3, <2>1
  <2>3. QED
    BY <1>1, <1>4, <1>5, <1>7, <2>2 DEF OpenGammaEntry, entry
<1>8. QED
  BY <1>6, <1>7
-------------------------------------------------------------------------------
(* The log that appendGammaEntry makes *)

\* The latest of some ULIDs exists.
LEMMA LatestExists ==
    ASSUME NEW S \in SUBSET Ulids, S # {}
    PROVE  Max(S) \in S /\ \A id \in S : Max(S) >= id
<1> USE MaxUlidAssumption
<1> DEFINE T == {MaxUlid - id : id \in S}
<1> DEFINE R == {ss \in Nat \X Nat : ss[1] < ss[2]}
<1>0. IsWellFoundedOn(R, Nat)
  BY NatLessThanWellFounded DEF OpToRel
<1>1. T \subseteq Nat /\ T # {}
  <2>1. \A id \in S : id \in Int /\ id <= MaxUlid
    BY DEF Ulids
  <2> QED
    BY <2>1
<1>2. PICK n \in T : \A m \in T : ~(<<m, n>> \in R)
  <2> HIDE DEF T, R
  <2> QED
    BY <1>0, <1>1, WFMin
<1>3. PICK id \in S : n = MaxUlid - id
  BY <1>2
<1>4. ASSUME NEW other \in S PROVE id >= other
  <2>1. MaxUlid - other \in T
    OBVIOUS
  <2>2. ~(MaxUlid - other < n)
    BY <1>1, <1>2, <2>1
  <2> QED
    BY <1>3, <2>2 DEF Ulids
<1> QED
  BY <1>4 DEF Max

\* The head of a part of the table is one of its ULIDs, or 0.
LEMMA HeadIsAnId ==
    ASSUME NEW S \in SUBSET Entry
    PROVE  /\ HeadOf(S) \in Ids(S) \cup {0}
           /\ HeadOf(S) \in 0..MaxUlid
           /\ \A e \in S : e.id <= HeadOf(S)
<1>1. Ids(S) \in SUBSET Ulids
  BY DEF Ids, Entry
<1>2. CASE S = {}
  BY <1>2, MaxUlidAssumption DEF HeadOf
<1>3. CASE S # {}
  <2>1. Ids(S) # {}
    BY <1>3 DEF Ids
  <2>2. Max(Ids(S)) \in Ids(S) /\ \A id \in Ids(S) : Max(Ids(S)) >= id
    BY <1>1, <2>1, LatestExists
  <2>3. \A e \in S : e.id \in Ids(S)
    BY DEF Ids
  <2>4. Max(Ids(S)) \in Ulids /\ \A id \in Ids(S) : id \in Ulids
    BY <1>1, <2>2
  <2>5. \A e \in S : e.id <= Max(Ids(S))
    BY <2>2, <2>3, <2>4 DEF Ulids
  <2> QED
    BY <1>3, <2>2, <2>4, <2>5, MaxUlidAssumption DEF HeadOf, Ulids
<1> QED
  BY <1>2, <1>3
-----------------------------------------------------------------------------
\* Which ULIDs are drawn, by whom, and which heads can have been read.
UlidsDrawn ==
    /\ \A w \in Writers : pc[w] \in {"idle", "draw"} => ulid[w] = 0
    /\ \A w \in Writers : pc[w] = "put" => ulid[w] # 0
    /\ \A v, w \in Writers : v # w /\ ulid[v] = ulid[w] => ulid[v] = 0
    /\ \A e \in entries : \E w \in Writers : pc[w] = "done" /\ ulid[w] = e.id
    /\ \A w \in Writers : head[w] \in Ids(entries) \cup {0}

\* The inductive invariant of the chain.
ChainInv == TypeOK /\ UlidsDrawn /\ RootedAtGenesis

\* It holds when the log is empty.
LEMMA ChainInit == Init => ChainInv
<1> SUFFICES ASSUME Init PROVE ChainInv
  OBVIOUS
<1>1. TypeOK
  BY MaxUlidAssumption DEF Init, TypeOK, Steps
<1>2. UlidsDrawn
  BY DEF Init, UlidsDrawn
<1>3. RootedAtGenesis
  BY DEF Init, RootedAtGenesis
<1> QED
  BY <1>1, <1>2, <1>3 DEF ChainInv

\* A query returns a head of its own kind: typed, and in the table.
LEMMA ReadHeadStep ==
    ASSUME ChainInv, NEW w \in Writers, ReadHead(w)
    PROVE  ChainInv'
<1>1. PICK S \in SUBSET entries : head' = [head EXCEPT ![w] = HeadOf(S)]
  BY DEF ReadHead, ChainInv, TypeOK
<1>2. S \in SUBSET Entry
  BY <1>1 DEF ChainInv, TypeOK
<1>3. HeadOf(S) \in 0..MaxUlid /\ HeadOf(S) \in Ids(entries) \cup {0}
  BY <1>2, HeadIsAnId DEF Ids
<1>4. PICK h \in 0..MaxUlid : h = HeadOf(S)
  BY <1>3
<1>5. head' = [head EXCEPT ![w] = h] /\ h \in Ids(entries) \cup {0}
  BY <1>1, <1>3, <1>4
<1>6. TypeOK'
  BY <1>5 DEF ReadHead, ChainInv, TypeOK, Steps
<1>7. UlidsDrawn'
  BY <1>5 DEF ReadHead, ChainInv, TypeOK, UlidsDrawn, Ids
<1>8. RootedAtGenesis'
  BY DEF ReadHead, ChainInv, RootedAtGenesis, Ids
<1> QED
  BY <1>6, <1>7, <1>8 DEF ChainInv

\* A new ULID is nobody else's.
LEMMA DrawUlidStep ==
    ASSUME ChainInv, NEW w \in Writers, DrawUlid(w)
    PROVE  ChainInv'
<1> USE DEF ChainInv
<1>1. PICK id \in Ulids : /\ \A v \in Writers : id # ulid[v]
                          /\ ulid' = [ulid EXCEPT ![w] = id]
  BY DEF DrawUlid
<1>2. id \in 0..MaxUlid /\ id # 0 /\ \A v \in Writers : id # ulid[v]
  BY <1>1, MaxUlidAssumption DEF Ulids, TypeOK
<1>3. TypeOK'
  BY <1>1, <1>2 DEF DrawUlid, TypeOK, Steps
<1>4. UlidsDrawn'
  BY <1>1, <1>2 DEF DrawUlid, TypeOK, UlidsDrawn, Ids
<1>5. RootedAtGenesis'
  BY DEF DrawUlid, RootedAtGenesis, Ids
<1> QED
  BY <1>3, <1>4, <1>5

\* A new entry is a leaf: nothing that is in the table names it.
LEMMA PutEntryStep ==
    ASSUME ChainInv, NEW w \in Writers, PutEntry(w)
    PROVE  /\ ChainInv'
           /\ EntryOf(w) \in Entry
           /\ ulid[w] \notin Ids(entries)
<1> USE DEF ChainInv
<1>1. EntryOf(w) \in Entry
  BY MaxUlidAssumption DEF EntryOf, Entry, Ulids, TypeOK, PutEntry, UlidsDrawn
<1>2. ulid[w] \notin Ids(entries) \cup {0}
  BY DEF UlidsDrawn, PutEntry, TypeOK, Ids
<1>3. PICK new \in Entry : new = EntryOf(w)
  BY <1>1
<1>4. new.id = ulid[w] /\ new.prev = head[w]
  BY <1>3 DEF EntryOf
<1>5. entries' = entries \cup {new}
  BY <1>3 DEF PutEntry
<1>6. TypeOK'
  BY <1>5 DEF PutEntry, TypeOK, Steps
<1>7. UlidsDrawn'
  BY <1>4, <1>5 DEF PutEntry, TypeOK, UlidsDrawn, Ids
<1>8. RootedAtGenesis'
  <2>1. \A e \in entries' : e.prev \in Ids(entries) \cup {0}
    BY <1>4, <1>5 DEF RootedAtGenesis, UlidsDrawn
  <2>2. \A e \in entries' : e.prev \in Ids(entries') \cup {0}
    BY <1>5, <2>1 DEF Ids
  <2>3. ASSUME NEW T \in (SUBSET entries') \ {{}}
        PROVE  \E e \in T : e.prev \notin Ids(T)
    <3>1. CASE T \cap entries = {}
      BY <1>2, <1>4, <1>5, <2>1, <2>3, <3>1 DEF Ids
    <3>2. CASE T \cap entries # {}
      <4>1. PICK e \in T \cap entries : e.prev \notin Ids(T \cap entries)
        BY <3>2 DEF RootedAtGenesis
      <4>2. e.prev # new.id
        BY <1>2, <1>4, <1>5, <2>1, <4>1
      <4>3. e.prev \notin Ids(T)
        BY <1>5, <4>1, <4>2 DEF Ids
      <4> QED
        BY <4>1, <4>3
    <3> QED
      BY <3>1, <3>2
  <2>4. \A T \in (SUBSET entries') \ {{}} : \E e \in T : e.prev \notin Ids(T)
    BY <2>3
  <2> QED
    BY <2>2, <2>4 DEF RootedAtGenesis, Ids
<1> QED
  BY <1>1, <1>2, <1>6, <1>7, <1>8

\* Every step keeps the invariant of the chain.
LEMMA ChainStep == ChainInv /\ [Next]_vars => ChainInv'
<1> SUFFICES ASSUME ChainInv, [Next]_vars PROVE ChainInv'
  OBVIOUS
<1>1. CASE UNCHANGED vars
  BY <1>1 DEF vars, ChainInv, TypeOK, UlidsDrawn, RootedAtGenesis, Ids
<1>2. ASSUME NEW w \in Writers, Crash(w) PROVE ChainInv'
  BY <1>2 DEF Crash, ChainInv, TypeOK, Steps, UlidsDrawn, RootedAtGenesis, Ids
<1>3. CASE Replicate
  BY <1>3 DEF Replicate, ChainInv, TypeOK, UlidsDrawn, RootedAtGenesis, Ids
<1> QED
  BY <1>1, <1>2, <1>3, ReadHeadStep, DrawUlidStep, PutEntryStep DEF Next

\* Every variable keeps its type, for any number of appends.
THEOREM ChainTypeCorrect == Spec => []TypeOK
<1>1. ChainInv => TypeOK
  BY DEF ChainInv
<1> QED
  BY <1>1, ChainInit, ChainStep, PTL DEF Spec

\* For any number of appends that overlap, die, read stale heads and draw their
\* ULIDs from clocks that disagree: the log is a tree with the genesis hash at
\* its root, because appendGammaEntry can only add leaves.
THEOREM LogIsRooted == Spec => []RootedAtGenesis
<1>1. ChainInv => RootedAtGenesis
  BY DEF ChainInv
<1> QED
  BY <1>1, ChainInit, ChainStep, PTL DEF Spec
-----------------------------------------------------------------------------
\* What holds while appends are calm: the append under way is alone and has read
\* the head that the table still has, its ULID is later than all others, and
\* every entry names the one before it.
Sequential ==
    /\ \A v, w \in Writers :
          pc[v] \in {"draw", "put"} /\ pc[w] \in {"draw", "put"} => v = w
    /\ \A w \in Writers : pc[w] \in {"draw", "put"} => head[w] = HeadOf(entries)
    /\ \A w \in Writers : pc[w] = "put" => \A e \in entries : e.id < ulid[w]
    /\ \A e \in entries : Linked(entries, e)

\* A put that follows all others keeps the links.
LEMMA PutKeepsLinks ==
    ASSUME ChainInv, Sequential, NEW w \in Writers, PutEntry(w)
    PROVE  Sequential'
<1>1. PICK new \in Entry : new = EntryOf(w)
  BY PutEntryStep
<1>2. new.id = ulid[w] /\ new.prev = HeadOf(entries) /\ \A e \in entries : e.id < new.id
  BY <1>1 DEF EntryOf, Sequential, PutEntry
<1>3. entries' = entries \cup {new}
  BY <1>1 DEF PutEntry
<1>4. \A e \in entries' : e.id \in Int
  BY <1>3 DEF ChainInv, TypeOK, Entry, Ulids
<1>5. \A v \in Writers : pc'[v] \notin {"draw", "put"}
  BY DEF PutEntry, Sequential, ChainInv, TypeOK
<1>6. ASSUME NEW e \in entries PROVE Linked(entries', e)
  <2>1. Earlier(entries', e) = Earlier(entries, e)
    BY <1>2, <1>3, <1>4 DEF Earlier
  <2> QED
    BY <2>1 DEF Linked, Sequential
<1>7. Linked(entries', new)
  <2>1. Earlier(entries', new) = entries
    BY <1>2, <1>3, <1>4 DEF Earlier
  <2> QED
    BY <1>2, <2>1 DEF Linked
<1>8. \A e \in entries' : Linked(entries', e)
  BY <1>3, <1>6, <1>7
<1>9. (\A e \in entries : Linked(entries, e))'
  BY <1>8 DEF Linked, Earlier
<1> QED
  BY <1>5, <1>9 DEF Sequential

\* As long as appends are calm, they are sequential.
CalmInv == calm => Sequential

\* The step that reads the head while nobody else appends.
LEMMA CalmReadHead ==
    ASSUME ChainInv, Sequential, NEW w \in Writers, ReadHead(w), calm'
    PROVE  Sequential'
<1>1. PICK h \in 0..MaxUlid : h = HeadOf(entries)
  BY HeadIsAnId DEF ChainInv, TypeOK
<1>2. head' = [head EXCEPT ![w] = h] /\ \A v \in Writers : pc[v] \in {"idle", "done"}
  BY <1>1 DEF ReadHead
<1>3. \A v \in Writers : v # w => pc'[v] \notin {"draw", "put"}
  BY <1>2 DEF ReadHead, ChainInv, TypeOK
<1>4. head'[w] = HeadOf(entries) /\ pc'[w] = "draw"
  BY <1>1, <1>2 DEF ReadHead, ChainInv, TypeOK
<1>5. entries' = entries
  BY DEF ReadHead
<1>6. (\A e \in entries : Linked(entries, e))'
  BY <1>5 DEF Sequential, Linked, Earlier
<1> QED
  BY <1>3, <1>4, <1>5, <1>6 DEF Sequential

\* The step that draws a ULID later than all others.
LEMMA CalmDrawUlid ==
    ASSUME ChainInv, Sequential, NEW w \in Writers, DrawUlid(w), calm'
    PROVE  Sequential'
<1>1. PICK id \in Ulids : (\A v \in Writers : id > ulid[v]) /\ ulid' = [ulid EXCEPT ![w] = id]
  BY DEF DrawUlid
<1>2. \A e \in entries : e.id < id
  BY <1>1 DEF ChainInv, UlidsDrawn, TypeOK, Entry, Ulids
<1>3. entries' = entries /\ head' = head
  BY DEF DrawUlid
<1>4. (\A e \in entries : Linked(entries, e))'
  BY <1>3 DEF Sequential, Linked, Earlier
<1>5. pc[w] = "draw" /\ pc' = [pc EXCEPT ![w] = "put"]
  BY DEF DrawUlid
<1>6. \A v \in Writers : pc'[v] = "put" => v = w
  BY <1>5 DEF ChainInv, TypeOK, Sequential
<1>7. ulid'[w] = id
  BY <1>1 DEF ChainInv, TypeOK
<1>8. (\A v \in Writers : pc[v] = "put" => \A e \in entries : e.id < ulid[v])'
  BY <1>2, <1>3, <1>6, <1>7
<1>9. (\A v \in Writers : pc[v] \in {"draw", "put"} => head[v] = HeadOf(entries))'
  BY <1>3, <1>5 DEF ChainInv, TypeOK, Sequential
<1>10. (\A u, v \in Writers : pc[u] \in {"draw", "put"} /\ pc[v] \in {"draw", "put"} => u = v)'
  BY <1>5 DEF ChainInv, TypeOK, Sequential
<1> QED
  BY <1>4, <1>8, <1>9, <1>10 DEF Sequential

\* Every step that leaves appends calm keeps them sequential.
LEMMA CalmStep ==
    ASSUME ChainInv, CalmInv, [Next]_vars
    PROVE  CalmInv'
<1>1. CASE UNCHANGED vars
  BY <1>1 DEF vars, CalmInv, Sequential, Linked, Earlier
<1>2. ASSUME NEW w \in Writers, ReadHead(w) PROVE CalmInv'
  <2>1. calm' => calm
    BY <1>2 DEF ReadHead
  <2> QED
    BY <1>2, <2>1, CalmReadHead DEF CalmInv
<1>3. ASSUME NEW w \in Writers, DrawUlid(w) PROVE CalmInv'
  <2>1. calm' => calm
    BY <1>3 DEF DrawUlid
  <2> QED
    BY <1>3, <2>1, CalmDrawUlid DEF CalmInv
<1>4. ASSUME NEW w \in Writers, PutEntry(w) PROVE CalmInv'
  <2>1. calm' => calm
    BY <1>4 DEF PutEntry
  <2> QED
    BY <1>4, <2>1, PutKeepsLinks DEF CalmInv
<1>5. ASSUME NEW w \in Writers, Crash(w) PROVE CalmInv'
  <2>1. Sequential => Sequential'
    BY <1>5 DEF Crash, ChainInv, TypeOK, Sequential, Linked, Earlier
  <2> QED
    BY <1>5, <2>1 DEF Crash, CalmInv
<1>6. CASE Replicate
  BY <1>6 DEF Replicate, CalmInv, Sequential, Linked, Earlier
<1> QED
  BY <1>1, <1>2, <1>3, <1>4, <1>5, <1>6 DEF Next

\* Where every entry names the one before it, the chain verifies and has no
\* fork: a later entry names no earlier ULID than that of the earlier entry.
LEMMA LinkedMeansIntact == ChainInv /\ Sequential => SerialAppendsVerify
<1> SUFFICES ASSUME ChainInv, Sequential PROVE SerialAppendsVerify
  OBVIOUS
<1>1. Verified(entries)
  BY DEF Verified, Sequential
<1>2. ASSUME NEW e \in entries, NEW f \in entries, e # f, e.prev = f.prev PROVE FALSE
  <2>1. e \in Entry /\ f \in Entry
    BY DEF ChainInv, TypeOK
  <2>2. \A g \in entries : Earlier(entries, g) \in SUBSET Entry /\ g.prev = HeadOf(Earlier(entries, g))
    BY DEF Earlier, ChainInv, TypeOK, Sequential, Linked
  <2>3. \A g \in entries : \A b \in Earlier(entries, g) : b.id <= g.prev
    BY <2>2, HeadIsAnId
  <2>4. \A g \in entries : g.prev \in Ids(Earlier(entries, g)) \cup {0}
    BY <2>2, HeadIsAnId
  <2>5. \A g \in entries : g.prev < g.id
    BY <2>4 DEF ChainInv, TypeOK, Entry, Ulids, Ids, Earlier
  <2>6. e.id # f.id
    BY <1>2, <2>1 DEF Entry
  <2>7. CASE e.id < f.id
    BY <1>2, <2>1, <2>3, <2>5, <2>7, MaxUlidAssumption DEF Earlier, Entry, Ulids
  <2>8. CASE f.id < e.id
    BY <1>2, <2>1, <2>3, <2>5, <2>8, MaxUlidAssumption DEF Earlier, Entry, Ulids
  <2> QED
    BY <2>1, <2>6, <2>7, <2>8 DEF Entry, Ulids
<1> QED
  BY <1>1, <1>2 DEF SerialAppendsVerify, Forked

\* As long as appends come one at a time, read the current head and draw later
\* ULIDs, the chain verifies and has no fork, for any number of appends and
\* wherever they die: the condition under which gamma/store.ts does what its
\* readers expect.
THEOREM CalmChainIsIntact == Spec => []SerialAppendsVerify
<1>1. Init => CalmInv
  BY DEF Init, CalmInv, Sequential
<1>2. CalmInv /\ ChainInv /\ [Next]_vars => CalmInv'
  BY CalmStep
<1>3. CalmInv /\ ChainInv => SerialAppendsVerify
  BY LinkedMeansIntact DEF CalmInv, SerialAppendsVerify
<1> QED
  BY <1>1, <1>2, <1>3, ChainInit, ChainStep, PTL DEF Spec

-----------------------------------------------------------------------------
\* The table is a finite set: it grows by one entry at a time.
Finite == IsFiniteSet(entries)

\* A part of the table that leaves an entry out is smaller than the table.
LEMMA WalkIsShorter ==
    ASSUME NEW S, IsFiniteSet(S), \A f \in S : f.id \in Int, NEW e \in S
    PROVE  Cardinality(Earlier(S, e)) < Cardinality(S)
<1>1. Earlier(S, e) \in SUBSET S /\ e \notin Earlier(S, e)
  BY DEF Earlier
<1>2. /\ IsFiniteSet(Earlier(S, e))
      /\ Cardinality(Earlier(S, e)) <= Cardinality(S)
      /\ Cardinality(S) # Cardinality(Earlier(S, e))
  BY <1>1, FS_Subset
<1> QED
  BY <1>2, FS_CardinalityType

\* A head is one that a longer table has too, unless one of the new ULIDs is later.
LEMMA HeadOfMore ==
    ASSUME NEW S \in SUBSET Entry, NEW new \in Entry
    PROVE  HeadOf(S \cup {new}) \in {HeadOf(S), new.id}
<1>1. S \cup {new} \in SUBSET Entry
  OBVIOUS
<1>2. /\ HeadOf(S) \in Ids(S) \cup {0} /\ \A e \in S : e.id <= HeadOf(S)
      /\ HeadOf(S) \in 0..MaxUlid
  BY HeadIsAnId
<1>3. /\ HeadOf(S \cup {new}) \in Ids(S \cup {new}) \cup {0}
      /\ \A e \in S \cup {new} : e.id <= HeadOf(S \cup {new})
      /\ HeadOf(S \cup {new}) \in 0..MaxUlid
  BY <1>1, HeadIsAnId
<1>4. CASE HeadOf(S \cup {new}) = 0
  BY <1>2, <1>3, <1>4, MaxUlidAssumption DEF Entry, Ulids
<1>5. CASE HeadOf(S \cup {new}) # 0
  <2>1. PICK e \in S \cup {new} : HeadOf(S \cup {new}) = e.id
    BY <1>3, <1>5 DEF Ids
  <2>2. CASE e \in S
    <3>1. e.id <= HeadOf(S) /\ e.id \in Int
      BY <1>2, <2>2 DEF Entry, Ulids
    <3>2. HeadOf(S) # 0
      BY <1>2, <1>5, <2>1, <2>2, <3>1 DEF Entry, Ulids
    <3>3. PICK f \in S : HeadOf(S) = f.id
      BY <1>2, <3>2 DEF Ids
    <3>4. f.id <= e.id
      BY <1>3, <2>1, <3>3
    <3> QED
      BY <2>1, <3>1, <3>3, <3>4 DEF Entry, Ulids
  <2>3. CASE e = new
    BY <2>1, <2>3
  <2> QED
    BY <2>1, <2>2, <2>3
<1> QED
  BY <1>4, <1>5

\* An entry that does not name the one before it never will: what a delayed append
\* puts before it has a ULID that nothing names.
LEMMA UnlinkedForGood ==
    ASSUME ChainInv, NEW w \in Writers, PutEntry(w), NEW e \in entries, ~Linked(entries, e)
    PROVE  e \in entries' /\ ~Linked(entries', e)
<1>1. PICK new \in Entry : new = EntryOf(w)
  BY PutEntryStep
<1>2. new.id = ulid[w] /\ entries' = entries \cup {new} /\ new.id \notin Ids(entries)
  BY <1>1, PutEntryStep DEF EntryOf, PutEntry
<1>3. entries \in SUBSET Entry /\ e.prev \in Ids(entries) \cup {0}
  BY DEF ChainInv, TypeOK, RootedAtGenesis
<1>4. e.prev # new.id
  BY <1>1, <1>2, <1>3 DEF Entry, Ulids
<1>5. CASE new.id < e.id
  <2>1. Earlier(entries', e) = Earlier(entries, e) \cup {new}
    BY <1>2, <1>5 DEF Earlier
  <2>2. Earlier(entries, e) \in SUBSET Entry
    BY <1>3 DEF Earlier
  <2>3. HeadOf(Earlier(entries', e)) \in {HeadOf(Earlier(entries, e)), new.id}
    BY <2>1, <2>2, HeadOfMore
  <2> QED
    BY <1>2, <1>4, <2>3 DEF Linked
<1>6. CASE ~(new.id < e.id)
  <2>1. Earlier(entries', e) = Earlier(entries, e)
    BY <1>2, <1>6 DEF Earlier
  <2> QED
    BY <1>2, <2>1 DEF Linked
<1> QED
  BY <1>5, <1>6

\* A step changes the table by a put or not at all.
LEMMA TableGrows ==
    ASSUME ChainInv, [Next]_vars
    PROVE  entries' = entries \/ \E w \in Writers : PutEntry(w)
BY DEF Next, ReadHead, DrawUlid, Crash, Replicate, vars

\* The table stays finite.
LEMMA FiniteStep == ChainInv /\ Finite /\ [Next]_vars => Finite'
<1> SUFFICES ASSUME ChainInv, Finite, [Next]_vars PROVE Finite'
  OBVIOUS
<1>1. CASE entries' = entries
  BY <1>1 DEF Finite
<1>2. ASSUME NEW w \in Writers, PutEntry(w) PROVE Finite'
  BY <1>2, FS_AddElement DEF Finite, PutEntry
<1> QED
  BY <1>1, <1>2, TableGrows

\* Of a table that the walk covers every entry counts.
LEMMA CoveredMeansAll ==
    ASSUME NEW S, IsFiniteSet(S), \A f \in S : f.id \in Int,
           Cardinality(S) <= WalkLimit, NEW e \in S, ~Linked(S, e)
    PROVE  ~Verified(S)
<1>1. Cardinality(Earlier(S, e)) < Cardinality(S)
  BY WalkIsShorter
<1>2. Earlier(S, e) \in SUBSET S
  BY DEF Earlier
<1>3. Cardinality(Earlier(S, e)) \in Nat /\ Cardinality(S) \in Nat
  BY <1>2, FS_Subset, FS_CardinalityType
<1> QED
  BY <1>1, <1>3, WalkLimitAssumption DEF Verified

\* A chain that fails to verify fails for good, as long as verifyChain walks all of
\* it, for any number of appends: a delayed append cannot take the place that a
\* fork or a stale head left, because nothing names its ULID.
THEOREM NothingMendsTheChain == Spec => BrokenStaysBroken
<1>1. ASSUME ChainInv, Finite, [Next]_vars
      PROVE  [Cardinality(entries') <= WalkLimit /\ ~Verified(entries)
                 => ~Verified(entries')]_vars
  <2> SUFFICES ASSUME Cardinality(entries') <= WalkLimit, ~Verified(entries)
               PROVE  ~Verified(entries')
    OBVIOUS
  <2>1. CASE entries' = entries
    BY <2>1
  <2>2. ASSUME NEW w \in Writers, PutEntry(w) PROVE ~Verified(entries')
    <3>1. PICK e \in entries : ~Linked(entries, e)
      BY DEF Verified
    <3>2. e \in entries' /\ ~Linked(entries', e)
      BY <1>1, <2>2, <3>1, UnlinkedForGood
    <3>3. ChainInv' /\ Finite'
      BY <1>1, ChainStep, FiniteStep
    <3>4. IsFiniteSet(entries') /\ \A f \in entries' : f.id \in Int
      BY <3>3 DEF Finite, ChainInv, TypeOK, Entry, Ulids
    <3> QED
      BY <3>2, <3>4, CoveredMeansAll
  <2> QED
    BY <1>1, <2>1, <2>2, TableGrows
<1>2. Init => Finite
  BY FS_EmptySet DEF Init, Finite
<1> QED
  BY <1>1, <1>2, ChainInit, ChainStep, FiniteStep, PTL DEF Spec, BrokenStaysBroken
=============================================================================
