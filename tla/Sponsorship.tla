------------------------------ MODULE Sponsorship ------------------------------
(***************************************************************************)
(* Sponsored consumption: sponsorship.ts of packages/protocol-core.  A     *)
(* sponsor mints a mandate with a budget; an accounting authority, which   *)
(* is not in this repository, asks evaluateEligibility whether the mandate *)
(* covers a call, debits its ledger and signs a receipt.                   *)
(*                                                                         *)
(* Abstractions.  A signature is the key that made it and the document it  *)
(* was made over, and a hash is the document that was hashed.  Scopes,     *)
(* methods, models and consumers are sets.  NoKey stands for null, for     *)
(* what is absent and for the empty string.                                *)
(***************************************************************************)
EXTENDS Mandates

SponsorshipVersion == "0.1.0"
Reasons == {"ok", "expired", "not_yet_valid", "method_blocked", "model_blocked",
            "audience_excluded", "per_user_cap_reached", "per_user_window_cap_reached",
            "per_day_cap_reached", "pool_cap_reached", "wallet_insufficient"}

\* What is signed: the document without the value of its signature.
Unsigned(document) == [document EXCEPT !.signature = NoKey]
SignedDocument(document, key) ==
    [document EXCEPT !.signature = [key |-> key, over |-> Unsigned(document)]]
DocumentVerifies(document, keys) ==
    \E key \in keys : document.signature = [key |-> key, over |-> Unsigned(document)]
-----------------------------------------------------------------------------
(***************************************************************************)
(* Sponsorship mandates                                                    *)
(***************************************************************************)

ValidateBudget(b) ==
    /\ b.unit # NoKey
    /\ b.perUser \in Nat /\ b.perDay \in Nat
    /\ b.window # NoKey => b.window \in Nat \ {0}
    /\ b.pool # NoKey => b.pool \in Nat

ValidateAudience(a) ==
    /\ a.app # NoKey
    /\ \/ a.set = "open" /\ a.consumers = NoKey
       \/ a.set = "list" /\ a.consumers \notin {NoKey, {}}

\* createSponsorshipMandate: what it throws on, and what it signs.
MaySponsor(args) ==
    /\ ValidateBudget(args.budget) /\ ValidateAudience(args.audience)
    /\ args.scopes # {} /\ args.methods # {} /\ args.models # {}
    /\ args.ttl > 0

CreateSponsorshipMandate(sponsor, args) ==
    SignedDocument([version |-> SponsorshipVersion, issuer |-> sponsor.did,
            issuedBy |-> Method(sponsor.did, args.sphere),
            audience |-> args.audience, scopes |-> args.scopes,
            methods |-> args.methods, models |-> args.models, budget |-> args.budget,
            authority |-> args.authority, nonce |-> args.nonce,
            from |-> args.from, until |-> args.from + args.ttl, signature |-> NoKey],
           sponsor.keys[args.sphere])

SponsorshipErrors(m, doc, now) ==
    {e \in {"version", "issuer", "budget", "audience", "scopes", "methods", "window",
            "signature"} :
        \/ e = "version" /\ m.version # SponsorshipVersion
        \/ e = "issuer" /\ m.issuer # doc.id
        \/ e = "budget" /\ ~ValidateBudget(m.budget)
        \/ e = "audience" /\ ~ValidateAudience(m.audience)
        \/ e = "scopes" /\ m.scopes = {}
        \/ e = "methods" /\ m.methods = {}
        \/ e = "window" /\ (m.until <= m.from \/ now < m.from \/ now >= m.until)
        \/ e = "signature" /\ ~DocumentVerifies(m, KeysOf(doc, m.issuedBy))}

VerifySponsorshipMandate(m, doc, now) == SponsorshipErrors(m, doc, now) = {}

SponsorshipMandateHash(m) == Unsigned(m)

\* Whoever is passed as the issuer signs, under the name of the mandate's key.
CreateSponsorshipRevocation(issuer, m) ==
    [mandate |-> m, issuer |-> m.issuer, issuedBy |-> m.issuedBy,
     signedBy |-> issuer.keys[m.issuedBy.fragment]]
-----------------------------------------------------------------------------
(***************************************************************************)
(* Eligibility                                                             *)
(***************************************************************************)

\* usage: what the consumer has consumed, ever and in the window, if that is
\* known; what everybody has, today and ever; and what the sponsor has left.
Exceeds(consumed, amount, cap) == consumed + amount > cap

\* The first check that fails.  A call that names no model is not asked for one.
EvaluateEligibility(m, call, usage, now) ==
    LET a == call.amount
        b == m.budget IN
    IF now < m.from THEN "not_yet_valid"
    ELSE IF now >= m.until THEN "expired"
    ELSE IF call.method \notin m.methods THEN "method_blocked"
    ELSE IF /\ call.model # NoKey /\ m.models # NoKey
            /\ call.model \notin m.models THEN "model_blocked"
    ELSE IF /\ m.audience.set = "list"
            /\ \/ m.audience.consumers = NoKey
               \/ call.consumer \notin m.audience.consumers THEN "audience_excluded"
    ELSE IF Exceeds(usage.lifetime, a, b.perUser) THEN "per_user_cap_reached"
    ELSE IF /\ b.window # NoKey /\ usage.window # NoKey
            /\ Exceeds(usage.window, a, b.perUser) THEN "per_user_window_cap_reached"
    ELSE IF Exceeds(usage.today, a, b.perDay) THEN "per_day_cap_reached"
    ELSE IF b.pool # NoKey /\ Exceeds(usage.pool, a, b.pool) THEN "pool_cap_reached"
    ELSE IF usage.wallet < a THEN "wallet_insufficient"
    ELSE "ok"

\* The mandate covers the call.  An amount that is not positive is an error.
Eligible(m, call, usage, now) ==
    call.amount > 0 /\ EvaluateEligibility(m, call, usage, now) = "ok"
-----------------------------------------------------------------------------
(***************************************************************************)
(* Receipts                                                                *)
(***************************************************************************)

\* A receipt names a sponsorship, its hash and its sponsor if it is sponsored, and
\* none of the three if it is not.
SponsoredConsistently(r) ==
    IF r.funded = "sponsored"
    THEN NoKey \notin {r.sponsorship, r.hash, r.sponsor}
    ELSE {r.sponsorship, r.hash, r.sponsor} = {NoKey}

MayReceipt(args) ==
    /\ args.amount \in Nat \ {0}
    /\ NoKey \notin {args.unit, args.consumer, args.app, args.method, args.envelope}
    /\ SponsoredConsistently(args)

CreateConsumptionReceipt(authority, args) ==
    SignedDocument([version |-> SponsorshipVersion, sponsorship |-> args.sponsorship,
            hash |-> args.hash, sponsor |-> args.sponsor, consumer |-> args.consumer,
            app |-> args.app, method |-> args.method, envelope |-> args.envelope,
            funded |-> args.funded, amount |-> args.amount, unit |-> args.unit,
            ledger |-> args.ledger, issuer |-> authority.did,
            issuedBy |-> Method(authority.did, args.sphere), signature |-> NoKey],
           authority.keys[args.sphere])

ReceiptErrors(r, doc) ==
    {e \in {"version", "issuer", "amount", "consistency", "signature"} :
        \/ e = "version" /\ r.version # SponsorshipVersion
        \/ e = "issuer" /\ r.issuer # doc.id
        \/ e = "amount" /\ r.amount \notin Nat \ {0}
        \/ e = "consistency" /\ ~SponsoredConsistently(r)
        \/ e = "signature" /\ ~DocumentVerifies(r, KeysOf(doc, r.issuedBy))}

VerifyConsumptionReceipt(r, doc) == ReceiptErrors(r, doc) = {}
=============================================================================
