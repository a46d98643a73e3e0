------------------------------- MODULE Mandates -------------------------------
(***************************************************************************)
(* Mandates, revocations and action artifacts, as the decisions that       *)
(* protocol-core takes about one signed document: what may be minted, what *)
(* verifies against a DID document at an instant, and which operations on  *)
(* a section a list of scopes covers.                                      *)
(*                                                                         *)
(* A signature is a record of the key that made it and of the part of the  *)
(* document that can differ between signing and verifying.  A DID document *)
(* is a record of its id, its verification methods (pairs of a name and a  *)
(* key) and the epoch before which mandates are void.                      *)
(***************************************************************************)
EXTENDS Integers, FiniteSets

CONSTANTS
    NoKey,         \* no key, signature, constraint or counter-signature
    MandateSkew    \* the clock skew verifyMandate allows

ASSUME MandateSkewAssumption == MandateSkew \in Nat

Spheres == {"public", "circle", "self"}

\* The spheres and root name the verification methods of a DID document.
Method(did, fragment) == [did |-> did, fragment |-> fragment]

\* The keys that a document lists under a name.
KeysOf(doc, name) == {vm.key : vm \in {v \in doc.methods : v.name = name}}
-----------------------------------------------------------------------------
(***************************************************************************)
(* Ethos scopes: ethos.<verb>.<zone>, and a selector of sections           *)
(***************************************************************************)

Verbs == {"read", "edit", "append", "delete", "write"}
Zones == Spheres \cup {"all"}
SelectorKinds == {"all", "id", "prefix", "tag"}

\* What a scope text that is not an ethos scope parses to.
NotParsed == [verb |-> "none", zone |-> "none",
              selector |-> [kind |-> "none", value |-> "none"]]

\* read is the only verb of the zone all, which takes no selector.
ParseEthosScope(s) ==
    IF /\ s.family = "ethos"
       /\ s.verb \in Verbs /\ s.zone \in Zones
       /\ s.selector.kind \in SelectorKinds
       /\ s.zone = "all" => s.verb = "read" /\ s.selector.kind = "all"
    THEN [verb |-> s.verb, zone |-> s.zone, selector |-> s.selector]
    ELSE NotParsed

Parsed(scopes) == {ParseEthosScope(s) : s \in scopes} \ {NotParsed}

\* prefixes: the texts that the id of the section starts with.
MatchSection(section, selector) ==
    CASE selector.kind = "all" -> TRUE
      [] selector.kind = "id" -> section.id = selector.value
      [] selector.kind = "prefix" -> selector.value \in section.prefixes
      [] selector.kind = "tag" -> selector.value \in section.tags

VerbGrantsOp(verb, op) ==
    \/ verb = "write"
    \/ verb = "edit" /\ op = "edit"
    \/ verb = "append" /\ op \in {"create", "edit"}
    \/ verb = "delete" /\ op = "delete"

VerbBearsRead(verb) == verb \in {"read", "edit", "append", "write"}

ZoneMatches(scopeZone, zone) == scopeZone \in {"all", zone}

CoversOperation(scopes, zone, op, section) ==
    \E p \in Parsed(scopes) : /\ p.zone # "all"
                              /\ ZoneMatches(p.zone, zone)
                              /\ VerbGrantsOp(p.verb, op)
                              /\ MatchSection(section, p.selector)

CoversRead(scopes, zone, section) ==
    \E p \in Parsed(scopes) : /\ VerbBearsRead(p.verb)
                              /\ ZoneMatches(p.zone, zone)
                              /\ MatchSection(section, p.selector)

HasReadBearingEthosScopeForZone(scopes, zone) ==
    \E p \in Parsed(scopes) : VerbBearsRead(p.verb) /\ ZoneMatches(p.zone, zone)

IsEthosMutatingScope(s) ==
    LET p == ParseEthosScope(s) IN
    /\ p # NotParsed
    /\ p.zone # "all"
    /\ p.verb \in {"edit", "append", "delete", "write"}

\* section_scope of a mandate: every section, or those with an id or a tag.
SectionMatchesScope(section, scope) ==
    \/ scope = NoKey
    \/ section.id \in scope.ids
    \/ section.tags \cap scope.tags # {}
-----------------------------------------------------------------------------
(***************************************************************************)
(* Minting                                                                 *)
(***************************************************************************)

Versions == {"0.1.0", "0.2.1", "0.3.0", "0.4.0", "0.5.0"}
Current == "0.5.0"

\* FORBIDDEN_SCOPES: what no mandate carries.
Forbidden(s) == s.family = "forbidden"

\* On the public sphere only reads of the public zone and the families that
\* are not about the ethos; on the circle sphere nothing of the zone self; and
\* whatever changes a zone is signed by the sphere of the zone.
ScopesFitSphere(scopes, sphere) ==
    /\ \A s \in scopes : ~Forbidden(s)
    /\ \A s \in scopes : IsEthosMutatingScope(s) => ParseEthosScope(s).zone = sphere
    /\ sphere = "public" =>
         \A s \in scopes : \/ ParseEthosScope(s).zone \in {"public", "all"}
                           \/ s.family \in {"gamma", "compute", "data", "mcp"}
    /\ sphere = "circle" => \A s \in scopes : ParseEthosScope(s).zone # "self"

HasFamily(scopes, family) == \E s \in scopes : s.family = family

\* Spending needs a budget, and a budget the scope.
ComputeAuthorized(scopes, compute) ==
    IF HasFamily(scopes, "compute")
    THEN /\ compute # NoKey
         /\ compute.daily # NoKey \/ compute.total # NoKey
         /\ \A cap \in {compute.daily, compute.total, compute.perCall} \ {NoKey} : cap > 0
    ELSE compute = NoKey

\* A mandate that writes, spends or appends names the key of its delegate.
NeedsKey(scopes) ==
    \E s \in scopes : \/ IsEthosMutatingScope(s)
                      \/ s.family = "ethos" /\ s.verb = "write"
                      \/ s.family = "compute"
                      \/ s.family = "data" /\ s.verb = "append"

\* section_scope narrows a read or write scope, and names something.
SectionScopeFits(args) ==
    args.sections # NoKey =>
        /\ \E s \in args.scopes :
             LET p == ParseEthosScope(s) IN
             /\ p.selector.kind = "all"
             /\ \/ p.verb \in {"read", "write"} /\ p.zone = args.sphere
                \/ p.verb = "read" /\ p.zone = "all"
        /\ args.sections.ids # {} \/ args.sections.tags # {}

MayMint(args) ==
    /\ ScopesFitSphere(args.scopes, args.sphere)
    /\ ComputeAuthorized(args.scopes, args.compute)
    /\ SectionScopeFits(args)
    /\ NeedsKey(args.scopes) => args.grantee.key # NoKey

\* owner: the did and the key of each sphere.  createMandate signs with the key
\* of the sphere, for ttl from the instant now.
CreateMandate(owner, args, now) ==
    [version |-> Current, issuer |-> owner.did, sphere |-> args.sphere,
     issuedBy |-> Method(owner.did, args.sphere), grantee |-> args.grantee,
     scopes |-> args.scopes, compute |-> args.compute, counter |-> args.counter,
     sections |-> args.sections, from |-> now, until |-> now + args.ttl,
     issued |-> now, signedBy |-> owner.keys[args.sphere]]
-----------------------------------------------------------------------------
(***************************************************************************)
(* Verification                                                            *)
(***************************************************************************)

MandateErrors(m, doc, now) ==
    {e \in {"version", "forbidden", "compute", "issuer", "key", "window", "epoch",
            "signature"} :
        \/ e = "version" /\ m.version \notin Versions
        \/ e = "forbidden" /\ \E s \in m.scopes : Forbidden(s)
        \/ e = "compute" /\ ~ComputeAuthorized(m.scopes, m.compute)
        \/ e = "issuer" /\ m.issuer # doc.id
        \/ e = "key" /\ m.issuedBy # Method(doc.id, m.sphere)
        \/ e = "window" /\ ~(now >= m.from - MandateSkew /\ now < m.until + MandateSkew)
        \/ e = "epoch" /\ doc.epoch # NoKey /\ m.issued < doc.epoch
        \/ e = "signature" /\ m.signedBy \notin KeysOf(doc, m.issuedBy)}

VerifyMandate(m, doc, now) == MandateErrors(m, doc, now) = {}

\* A revocation is signed by the sphere key that issued the mandate.
CreateRevocation(owner, m) ==
    [mandate |-> m, issuer |-> m.issuer, issuedBy |-> m.issuedBy,
     signedBy |-> owner.keys[m.issuedBy.fragment]]

VerifyRevocation(rev, doc) ==
    rev.issuer = doc.id /\ rev.signedBy \in KeysOf(doc, rev.issuedBy)

\* The agent signs its action, over the fact that nobody has counter-signed.
MaySignAction(m, agent, verb) ==
    /\ verb \in m.scopes
    /\ m.grantee.id = agent.id
    /\ m.grantee.key \in {NoKey, agent.key}

SignAction(m, agent, verb, now) ==
    [mandate |-> m, issued |-> now, actor |-> agent, verb |-> verb,
     signature |-> [key |-> agent.key, counter |-> NoKey], counter |-> NoKey]

\* The subject signs over the action and the agent's signature.
CounterSign(action, owner) ==
    [mandate |-> action.mandate, issued |-> action.issued, actor |-> action.actor,
     verb |-> action.verb, signature |-> action.signature,
     counter |-> [name |-> Method(owner.did, action.mandate.sphere),
                  key |-> owner.keys[action.mandate.sphere],
                  over |-> action.signature]]

\* What the signature of the agent is checked over: the counter-signature that
\* the action carries, without its value.
Blanked(counter) == IF counter = NoKey THEN NoKey ELSE counter.name

ActionErrors(action, m, doc) ==
    {e \in {"mandate", "verb", "actor", "key", "validity", "signature", "counter"} :
        \/ e = "mandate" /\ action.mandate # m
        \/ e = "verb" /\ action.verb \notin m.scopes
        \/ e = "actor" /\ action.actor.id # m.grantee.id
        \/ e = "key" /\ m.grantee.key \notin {NoKey, action.actor.key}
        \/ e = "validity" /\ ~VerifyMandate(m, doc, action.issued)
        \/ e = "signature" /\ action.signature # [key |-> action.actor.key,
                                                  counter |-> Blanked(action.counter)]
        \/ e = "counter" /\ action.verb \in m.counter
           /\ (action.counter = NoKey
               \/ action.counter.key \notin KeysOf(doc, action.counter.name)
               \/ action.counter.over # action.signature)}

VerifyActionArtifact(action, m, doc) == ActionErrors(action, m, doc) = {}
=============================================================================
