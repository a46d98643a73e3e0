------------------------------ MODULE RequestGate ------------------------------
(***************************************************************************)
(* The door of the two PDSs: signed envelopes, from the client that builds *)
(* one to the handler that runs, or the error that answers.                *)
(*                                                                         *)
(* authenticate checks the envelope itself, resolves the issuer's DID      *)
(* document through the cache of its Lambda instance, asks for revocations *)
(* (data PDS), and commits the nonce in a DynamoDB table; what comes after *)
(* can still refuse.  Each of these steps is an action, so that requests   *)
(* of several instances interleave, nonces expire, documents change and    *)
(* invocations die between them.  The instances' clocks may be off.        *)
(***************************************************************************)
EXTENDS Mandates

CONSTANTS
    Instances,     \* Lambda instances
    Requests,      \* the numbers of the requests, in the order they are sent
    Lag,           \* how far the clock of each instance is off
    Plans,         \* bounds on what happens; a behaviour has one of them
    Owner,         \* the issuer: its did
    ArgsOf,        \* the mandates it mints at instant 0: ids and arguments
    IatSkew,       \* the window of iat: 30 s
    MaxTtl,        \* the longest lifetime: 300 s
    Margin,        \* how long each PDS keeps a nonce after its exp
    Timeout,       \* how long an invocation lives
    DocTtl,        \* how long a resolved document is cached
    NoDocTtl       \* how long its absence is cached

Services == {"data", "assets"}

\* until: the last instant; changes: how often the owner changes its mind; ttls,
\* drifts, stamps, signers and methods: those of the envelopes, with how far the
\* clocks of delegates are off, and what they write as proof.created instead of
\* their time; again: do envelopes arrive twice?
ASSUME PlansAssumption ==
    \A p \in Plans : /\ p.until \in Nat /\ p.changes \in Nat /\ p.ttls \subseteq Nat
                     /\ p.drifts \subseteq Int /\ p.stamps \subseteq Int
                     /\ p.signers \subseteq {"root", "data", "public", "circle", "self"}
                     /\ p.methods \subseteq {"read", "write", "append", "admin"}
ASSUME RequestsAssumption == Requests = 1..Cardinality(Requests)
ASSUME LagAssumption == Lag \in [Instances -> Int]
ASSUME MarginAssumption == Margin \in [Services -> Nat]

VARIABLES
    plan,      \* the plan of this behaviour
    now,       \* the time
    pds,       \* which of the services this is
    identity,  \* what the owner has published
    changes,   \* how many changes the owner has made
    revoked,   \* the revocations table
    replicated,  \* what of it every read shows; the reads are eventually consistent
    cache,     \* the DID cache of each instance
    nonces,    \* the nonce table
    call,      \* each request
    at,        \* its next step
    doc,       \* the document it has resolved
    answer     \* what its client was told

vars == <<plan, now, pds, identity, changes, revoked, replicated, cache, nonces, call, at, doc,
          answer>>
-----------------------------------------------------------------------------
(***************************************************************************)
(* The issuer and its documents                                            *)
(***************************************************************************)

Key(sphere, version) == [sphere |-> sphere, version |-> version]

\* The owner's keys; rotate renews the one of the public sphere.
OwnerKey(sphere, id) ==
    Key(sphere, IF sphere = "public" THEN id.version ELSE 1)

OwnerAt(id) == [did |-> Owner, keys |-> [s \in Spheres |-> OwnerKey(s, id)]]

Published == [version |-> 1, epoch |-> NoKey, published |-> TRUE, since |-> 0]
Unpublished == [Published EXCEPT !.published = FALSE]

\* What a resolution gives: the document of an identity, or none.
Found(id) == [found |-> TRUE, version |-> id.version, epoch |-> id.epoch]
NotFound == [found |-> FALSE, version |-> 1, epoch |-> NoKey]

Methods(keys) == {[name |-> Method(Owner, s), key |-> keys[s]] : s \in DOMAIN keys}

\* did.json lists the three spheres and data; withRootVm adds root.  Without it,
\* synthesizeDidAithosFromRoot: all that a DID says of itself is its root key.
Document(r) ==
    [id |-> Owner, epoch |-> r.epoch,
     methods |->
        IF r.found
        THEN Methods([s \in Spheres \cup {"data"} |-> OwnerKey(s, r)])
             \cup {[name |-> Method(Owner, "root"), key |-> Key("root", 1)]}
        ELSE Methods([s \in Spheres \cup {"root"} |-> Key("root", 1)])]

\* What the owner minted at instant 0.
Minted(m) == CreateMandate(OwnerAt(Published), ArgsOf[m], 0)
Usable == {m \in DOMAIN ArgsOf : MayMint(ArgsOf[m]) /\ ArgsOf[m].grantee.key # NoKey}
-----------------------------------------------------------------------------
(***************************************************************************)
(* Envelopes                                                               *)
(***************************************************************************)

\* The two names under which the endpoint is reached, as they may be written.
Hosts == {"public", "origin"}
Aud == [host: Hosts \cup {"other"}, slash: BOOLEAN, upper: BOOLEAN]
NormalizeAud(u) == [u EXCEPT !.slash = FALSE, !.upper = FALSE]
ExpectedAud == {[host |-> h, slash |-> FALSE, upper |-> FALSE] : h \in Hosts}

RootOnlyMethods == {"publish_identity", "rotate_sphere_key", "publish_tombstone"}
NeverDelegable == {"publish_identity", "rotate_sphere_key"}

\* The handlers, by the scope they ask of a delegate.
Actions == {"read", "write", "append", "admin"}

\* buildUnsignedEnvelope and the signature: iat and exp come from the client's
\* clock, and so does proof.created, which nobody compares with them; the nonce is
\* fresh.
BuildEnvelope(q, clock, created, ttl, signer, mandate, method) ==
    [nonce |-> q, aud |-> [host |-> "origin", slash |-> TRUE, upper |-> TRUE],
     method |-> method, iat |-> clock, exp |-> clock + ttl, created |-> created,
     mandate |-> mandate, vm |-> signer.vm, signature |-> signer.key,
     wellFormed |-> TRUE, params |-> "sent"]

\* The owner signs with its data key; some clients with another sphere.
OwnerSigners ==
    {[vm |-> Method(Owner, s), key |-> OwnerKey(s, identity)] : s \in plan.signers}

\* signEnvelopeWithMandate: the delegate signs with the key of its mandate.
DelegateSigner(m) ==
    [vm |-> ArgsOf[m].grantee.key, key |-> ArgsOf[m].grantee.key]

NoCall == [env |-> NoKey, method |-> "none", params |-> "none", to |-> NoKey,
           since |-> 0, withdrawn |-> FALSE]

Arrival(e, method, params) == [env |-> e, method |-> method, params |-> params]

\* What may go wrong between a client and the door: a wrong audience, a broken
\* envelope, a method or parameters that are not
\* those that were signed.
Slips(e) ==
    {Arrival([e EXCEPT !.aud.host = "other"], e.method, e.params),
     Arrival([e EXCEPT !.wellFormed = FALSE], e.method, e.params),
     Arrival([e EXCEPT !.signature = NoKey], e.method, e.params),
     Arrival(e, "admin", e.params),
     Arrival(e, e.method, "changed")}

\* Owners, whose envelopes live for one of the ttls, and delegates, whose clocks may
\* be off.
FreshEnvelopes(q) ==
    {BuildEnvelope(q, now, now, ttl, s, NoKey, "write") :
        ttl \in plan.ttls, s \in OwnerSigners}
    \cup UNION {{BuildEnvelope(q, now + d, created, MaxTtl, DelegateSigner(m), m, method) :
                    created \in plan.stamps \cup {now + d}, method \in plan.methods,
                    m \in Usable} : d \in plan.drifts}

\* A client sends a fresh envelope, or one that got beyond the door before: a
\* retry, or a second delivery.  Damage is to envelopes that would do else.
Sendable(q) ==
    LET old == {call[p].env : p \in {r \in Requests : plan.again /\ call[r] # NoCall}}
        good == {e \in old \cup FreshEnvelopes(q) : e.vm = Method(Owner, "data") /\ e.exp = now + MaxTtl}
    IN {Arrival(e, e.method, e.params) : e \in old \cup FreshEnvelopes(q)}
       \cup UNION {Slips(e) : e \in good}

\* Why the owner's consent to a mandate is gone, as of now, for everybody who asks.
Withdrawn(m) ==
    \/ m \in replicated
    \/ identity.published /\ identity.epoch # NoKey /\ Minted(m).issued < identity.epoch
    \/ identity.published /\ Minted(m).signedBy # OwnerKey(Minted(m).sphere, identity)

InFlight(q) == at[q] \notin {"idle", "done"}

Init ==
    /\ plan \in Plans
    /\ now = 0
    /\ pds \in Services
    /\ identity \in {Published} \cup (IF plan.changes = 0 THEN {} ELSE {Unpublished})
    /\ changes = 0
    /\ revoked = {} /\ replicated = {}
    /\ cache = [i \in Instances |-> [doc |-> NotFound, expires |-> 0]]
    /\ nonces = {}
    /\ call = [q \in Requests |-> NoCall]
    /\ at = [q \in Requests |-> "idle"]
    /\ doc = [q \in Requests |-> NotFound]
    /\ answer = [q \in Requests |-> "none"]
-----------------------------------------------------------------------------
(***************************************************************************)
(* verifyEnvelope                                                          *)
(***************************************************************************)

\* Of an answered request only the envelope is left, which may come again; one
\* whose nonce is unspent is as good as a fresh one.
Answer(q, result) ==
    /\ at' = [at EXCEPT ![q] = "done"]
    /\ doc' = [doc EXCEPT ![q] = NotFound]
    /\ answer' = [answer EXCEPT ![q] = result]
    /\ call' = [call EXCEPT ![q] =
                   IF result \in {"bad_envelope", "stale", "bad_signature", "mandate", "revoked"}
                   THEN NoCall ELSE [NoCall EXCEPT !.env = call[q].env]]

Goto(q, step) ==
    /\ at' = [at EXCEPT ![q] = step]
    /\ UNCHANGED <<answer, call>>

Clock(i) == now + Lag[i]

Fresh(e, t) ==
    /\ e.iat >= t - IatSkew /\ e.iat <= t + IatSkew
    /\ e.exp > t
    /\ e.exp - e.iat \in 1..MaxTtl

\* The checks that need nothing but the request and the clock.
EnvelopeError(a, t) ==
    IF ~a.env.wellFormed \/ NormalizeAud(a.env.aud) \notin ExpectedAud \/ a.env.method # a.method
    THEN "bad_envelope"
    ELSE IF ~Fresh(a.env, t) THEN "stale"
    ELSE IF a.env.params # a.params THEN "bad_envelope" ELSE "none"

\* authenticate receives a request; an instance serves one at a time.  On the
\* data PDS a mandate makes the instance forget the DID document, whatever
\* becomes of the envelope.
Receive(q) ==
    /\ at[q] = "idle"
    /\ q = 1 + Cardinality({p \in Requests : at[p] # "idle"})
    /\ \E i \in Instances, a \in Sendable(q) :
         LET error == EnvelopeError(a, Clock(i)) IN
         /\ \A p \in Requests : InFlight(p) => call[p].to # i
         /\ \/ /\ error = "none"
               /\ at' = [at EXCEPT ![q] = "resolve"]
               /\ UNCHANGED <<answer, doc>>
               /\ call' = [call EXCEPT ![q] =
                      [env |-> a.env, method |-> a.method, params |-> a.params, to |-> i,
                       since |-> now,
                       withdrawn |-> a.env.mandate # NoKey /\ Withdrawn(a.env.mandate)]]
            \/ /\ error # "none"
               /\ Answer(q, error)
         /\ cache' = IF pds = "data" /\ a.env.mandate # NoKey
                     THEN [cache EXCEPT ![i] = [doc |-> NotFound, expires |-> 0]]
                     ELSE cache
    /\ UNCHANGED <<plan, now, pds, identity, changes, revoked, replicated, nonces>>

\* The signer's part of the verification, against the document d.
OwnerError(e, d) ==
    IF KeysOf(d, e.vm) = {} THEN "bad_signature"
    ELSE IF e.method \in RootOnlyMethods /\ e.vm # Method(Owner, "root") THEN "bad_signature"
    ELSE "none"

DelegateError(e, d) ==
    IF e.method \in NeverDelegable THEN "scope"
    ELSE IF Minted(e.mandate).issuer # Owner \/ Minted(e.mandate).grantee.key # e.vm
    THEN "mandate"
    ELSE IF ~VerifyMandate(Minted(e.mandate), d, e.created) THEN "mandate"
    ELSE "none"

SignerError(e, d) ==
    IF e.mandate = NoKey THEN OwnerError(e, d) ELSE DelegateError(e, d)

\* The document q has resolved, and its verdict on the signer; findRevocation
\* is the data PDS's.
Judge(q, d) ==
    LET e == call[q].env IN
    IF SignerError(e, Document(d)) # "none" THEN Answer(q, SignerError(e, Document(d)))
    ELSE /\ doc' = [doc EXCEPT ![q] = d]
         /\ Goto(q, IF e.mandate # NoKey /\ pds = "data" THEN "revocation" ELSE "commit")

\* resolveDidAithos, from the cache.
ResolveCached(q) ==
    /\ at[q] = "resolve"
    /\ cache[call[q].to].expires > Clock(call[q].to)
    /\ Judge(q, cache[call[q].to].doc)
    /\ UNCHANGED <<plan, now, pds, identity, changes, revoked, replicated, cache, nonces>>

\* Mutant: an absent document is cached as long as a present one.
RememberEqually(i, d, t) == [cache EXCEPT ![i] = [doc |-> d, expires |-> t + DocTtl]]

Remember(i, d, t) ==
    [cache EXCEPT ![i] = [doc |-> d,
                          expires |-> t + IF d.found THEN DocTtl ELSE NoDocTtl]]

\* resolveDidAithos, from the identity service; when it does not answer, or has
\* nothing, the DID's own key has to do.
Fetch(q) ==
    /\ at[q] = "resolve"
    /\ cache[call[q].to].expires <= Clock(call[q].to)
    /\ \E d \in {NotFound} \cup (IF identity.published THEN {Found(identity)} ELSE {}) :
         /\ Judge(q, d)
         /\ cache' = Remember(call[q].to, d, Clock(call[q].to))
    /\ UNCHANGED <<plan, now, pds, identity, changes, revoked, replicated, nonces>>

\* Mutant: the revocations table is not asked.
LookNowhere(q) ==
    /\ at[q] = "revocation"
    /\ Goto(q, "commit") /\ UNCHANGED doc
    /\ UNCHANGED <<plan, now, pds, identity, changes, revoked, replicated, cache, nonces>>

\* findRevocation: a read of the table, or of a replica that lags behind.
LookUpRevocation(q) ==
    /\ at[q] = "revocation"
    /\ \E rows \in {revoked, replicated} :
          IF call[q].env.mandate \in rows
          THEN Answer(q, "revoked")
          ELSE Goto(q, "commit") /\ UNCHANGED doc
    /\ UNCHANGED <<plan, now, pds, identity, changes, revoked, replicated, cache, nonces>>

\* Whether the signature is of the key that the document or the mandate gives.
Signed(q) ==
    LET e == call[q].env IN
    e.signature \in IF e.mandate = NoKey THEN KeysOf(Document(doc[q]), e.vm)
                    ELSE {Minted(e.mandate).grantee.key}

\* What is left to refuse when the nonce is spent: the assets PDS takes no
\* mandate, and neither of them an ethos sphere of the owner.
LateError(q) ==
    LET e == call[q].env IN
    IF e.mandate # NoKey THEN (IF pds = "assets" THEN "bad_envelope" ELSE "none")
    ELSE IF e.vm.fragment \in Spheres THEN "wrong_sphere" ELSE "none"

\* requireScope: what the scopes of a mandate allow on the collection.
Implied(action) ==
    CASE action = "read" -> {"read", "write", "admin"}
      [] action = "write" -> {"write", "admin"}
      [] action = "append" -> {"append", "write", "admin"}
      [] action = "admin" -> {"admin"}

HasScope(e, action) ==
    \/ e.mandate = NoKey
    \/ \E s \in Minted(e.mandate).scopes : /\ s.family = "data"
                                   /\ s.zone \in {"*", "contacts"}
                                   /\ s.verb \in Implied(action)

\* What the handler makes of an admitted request.
Handled(q) == IF HasScope(call[q].env, call[q].method) THEN "ran" ELSE "scope"

\* Mutant: the nonce is dropped with the envelope's exp.
KeptUntilExp(e) == e.exp

KeptUntil(e) == e.exp + Margin[pds]

\* Mutant: the nonce is spent before the signature is looked at.
CommitBeforeSignature(q) ==
    LET n == call[q].env.nonce IN
    /\ at[q] = "commit"
    /\ IF n \in {x.nonce : x \in nonces}
       THEN Answer(q, "replay") /\ UNCHANGED nonces
       ELSE /\ nonces' = nonces \cup {[nonce |-> n, until |-> KeptUntil(call[q].env)]}
            /\ Answer(q, IF Signed(q) THEN Handled(q) ELSE "bad_signature")
    /\ UNCHANGED <<plan, now, pds, identity, changes, revoked, replicated, cache>>

\* The signature, putIfAbsent, the last refusals and the handler, whose answer
\* may be lost.
Commit(q) ==
    LET e == call[q].env IN
    /\ at[q] = "commit"
    /\ \/ /\ ~Signed(q)
          /\ Answer(q, "bad_signature")
          /\ UNCHANGED nonces
       \/ /\ Signed(q)
          /\ e.nonce \in {x.nonce : x \in nonces}
          /\ Answer(q, "replay")
          /\ UNCHANGED nonces
       \/ /\ Signed(q)
          /\ e.nonce \notin {x.nonce : x \in nonces}
          /\ nonces' = nonces \cup {[nonce |-> e.nonce, until |-> KeptUntil(e)]}
          /\ IF LateError(q) = "none"
             THEN \E result \in {Handled(q), "lost"} : Answer(q, result)
             ELSE Answer(q, LateError(q))
    /\ UNCHANGED <<plan, now, pds, identity, changes, revoked, replicated, cache>>

\* The nonce table cannot be reached: the request is refused.
CommitFails(q) ==
    /\ at[q] = "commit"
    /\ Signed(q)
    /\ Answer(q, "unavailable")
    /\ UNCHANGED <<plan, now, pds, identity, changes, revoked, replicated, cache, nonces>>

\* The time of the invocation is up.  One that dies earlier leaves no more behind.
Die(q) ==
    /\ InFlight(q)
    /\ now - call[q].since = Timeout
    /\ Answer(q, "lost")
    /\ UNCHANGED <<plan, now, pds, identity, changes, revoked, replicated, cache, nonces>>
-----------------------------------------------------------------------------
(***************************************************************************)
(* The world around                                                        *)
(***************************************************************************)

\* No invocation outlives its timeout.
Tick ==
    /\ now < plan.until
    /\ \A q \in Requests : InFlight(q) => now - call[q].since < Timeout
    /\ now' = now + 1
    /\ UNCHANGED <<plan, pds, identity, changes, revoked, replicated, cache, nonces, call, at,
                   doc, answer>>

\* DynamoDB deletes what has expired, some time after.
Expire ==
    /\ \E x \in nonces : x.until <= now /\ nonces' = nonces \ {x}
    /\ UNCHANGED <<plan, now, pds, identity, changes, revoked, replicated, cache, call, at,
                   doc, answer>>

\* The owner publishes its document for the first time.
Publish ==
    /\ ~identity.published
    /\ identity' = [identity EXCEPT !.published = TRUE, !.since = now]
    /\ UNCHANGED revoked

\* rotate renews the public key, and the new document is published.
Rotate ==
    /\ identity.published
    /\ identity' = [identity EXCEPT !.version = 2, !.since = now]
    /\ UNCHANGED revoked

\* mandates_void_before is set, and the document published.
Void ==
    /\ identity.published
    /\ identity' = [identity EXCEPT !.epoch = now, !.since = now]
    /\ UNCHANGED revoked

\* revoke_app puts a mandate in the revocations table.
Revoke ==
    /\ \E m \in Usable \ revoked : revoked' = revoked \cup {m}
    /\ UNCHANGED identity

\* The replicas of the table catch up.
Replicate ==
    /\ replicated # revoked
    /\ replicated' = revoked
    /\ UNCHANGED <<plan, now, pds, identity, changes, revoked, cache, nonces, call, at, doc,
                   answer>>

Change ==
    /\ changes < plan.changes
    /\ Publish \/ Rotate \/ Void \/ Revoke
    /\ changes' = changes + 1
    /\ UNCHANGED <<plan, now, pds, replicated, cache, nonces, call, at, doc, answer>>

Step(q) ==
    \/ Receive(q)
    \/ ResolveCached(q)
    \/ Fetch(q)
    \/ LookUpRevocation(q)
    \/ Commit(q)
    \/ CommitFails(q)
    \/ Die(q)

Next == Tick \/ Expire \/ Change \/ Replicate \/ \E q \in Requests : Step(q)

Spec == Init /\ [][Next]_vars
-----------------------------------------------------------------------------
(***************************************************************************)
(* Properties                                                              *)
(***************************************************************************)

Ran(q) == answer[q] = "ran"

\* An envelope runs at most once, however often and wherever it arrives: the
\* nonce outlives the freshness of the envelope for every clock and delay.
RunsOnce ==
    \A p, q \in Requests :
        Ran(p) /\ Ran(q) /\ p # q => call[p].env.nonce # call[q].env.nonce

Runs(q) == ~Ran(q) /\ answer'[q] = "ran"

\* A mandate that was voided, signed by a rotated key, or revoked and no longer
\* missed by any read when the request arrived opens nothing, whatever the caches
\* hold.
WithdrawalIsImmediate ==
    [][\A q \in Requests : Runs(q) => ~call[q].withdrawn]_vars

\* Only what was signed as it arrived spends a nonce: a copy that was damaged or
\* misdirected on its way leaves the original its chance.
OnlySignedIsSpent ==
    [][\A q \in Requests :
         LET c == call[q] IN
         at[q] = "commit" /\ c.env.nonce \in {x.nonce : x \in nonces' \ nonces} /\ at'[q] # at[q] =>
            /\ c.env.wellFormed /\ c.env.signature # NoKey
            /\ c.env.aud.host # "other"
            /\ c.env.method = c.method /\ c.env.params = c.params]_vars

\* What an instance has cached is what the owner publishes now, or published
\* less than DocTtl ago; that it publishes nothing is believed for a moment.
StalenessIsBounded ==
    \A i \in Instances :
        LET entry == cache[i] IN
        /\ ~entry.doc.found => entry.expires <= now + Lag[i] + NoDocTtl
        /\ entry.doc \notin {NotFound, Found(identity)} =>
             entry.expires <= identity.since + Lag[i] + DocTtl

Signers == Spheres \cup {"root", "data"}

Envelope ==
    [nonce: Requests, aud: Aud, method: Actions, iat: Int, exp: Int, created: Int,
     mandate: Usable \cup {NoKey},
     vm: [did: {Owner}, fragment: Signers] \cup {ArgsOf[m].grantee.key : m \in Usable},
     signature: [sphere: Signers, version: 1..2] \cup {ArgsOf[m].grantee.key : m \in Usable}
                   \cup {NoKey},
     wellFormed: BOOLEAN, params: {"sent"}]

\* Every variable keeps its type.
TypeOK ==
    /\ plan \in Plans
    /\ now \in 0..plan.until
    /\ pds \in Services
    /\ identity \in [version: 1..2, epoch: 0..plan.until \cup {NoKey}, published: BOOLEAN,
                     since: 0..plan.until]
    /\ changes \in 0..plan.changes
    /\ revoked \subseteq Usable /\ replicated \subseteq revoked
    /\ \A i \in Instances : cache[i].expires \in Int
    /\ \A x \in nonces : x.nonce \in Requests /\ x.until \in Int
    /\ \A q \in Requests : call[q].env \in Envelope \cup {NoKey}
    /\ at \in [Requests -> {"idle", "resolve", "revocation", "commit", "done"}]
    /\ answer \in [Requests -> {"none", "ran", "bad_envelope", "stale", "bad_signature",
                                "scope", "mandate", "revoked", "replay", "wrong_sphere",
                                "unavailable", "lost"}]

\* The types, and the age of what the caches of the instances hold.
CachesAreSound == TypeOK /\ StalenessIsBounded
=============================================================================
