--------------------------- MODULE RequestGateProofs ---------------------------
(***************************************************************************)
(* What the door lets in, for every number of requests and instances, every*)
(* drift of their clocks and every time to live: an envelope runs once, and*)
(* a mandate opens nothing when its issuer had withdrawn it and every read *)
(* shows that.  Copies that were altered on the way spend no nonce, and no *)
(* cache is believed beyond its time to live.                              *)
(***************************************************************************)
EXTENDS RequestGate, TLAPS

\* What the first theorem asks of the constants: the nonce outlives the envelope by
\* the time that an invocation takes, on the slowest clock.
MarginCovers ==
    /\ MaxTtl \in Int /\ Timeout \in Nat /\ IatSkew \in Int
    /\ \A i \in Instances, s \in Services : Margin[s] >= Timeout - Lag[i]

Steps == {"idle", "resolve", "revocation", "commit", "done"}
Dropped == {"bad_envelope", "stale", "bad_signature", "mandate", "revoked"}

\* The requests whose envelope is still around.
Kept(q) == at[q] # "idle" /\ answer[q] \notin Dropped

EnvelopeOK(e) ==
    /\ {"nonce", "exp", "iat", "created", "mandate"} \subseteq DOMAIN e
    /\ e.mandate \in Usable \cup {NoKey}
    /\ e.nonce \in Requests
    /\ e.exp \in Int /\ e.iat \in Int /\ e.created \in Int

GateTypeOK ==
    /\ plan \in Plans /\ pds \in Services /\ now \in Nat
    /\ DOMAIN call = Requests /\ DOMAIN answer = Requests
    /\ at \in [Requests -> Steps]
    /\ \A q \in Requests : at[q] # "done" => answer[q] = "none"

\* Nonces are of requests that were sent, and the one of an envelope is of one exp.
EnvelopesAreNamed ==
    /\ \A q \in Requests : call[q] # NoCall => Kept(q)
    /\ \A q \in Requests : Kept(q) => /\ EnvelopeOK(call[q].env)
                                      /\ at[call[q].env.nonce] # "idle"
    /\ \A p, q \in Requests :
          Kept(p) /\ Kept(q) /\ call[p].env.nonce = call[q].env.nonce =>
              call[p].env.exp = call[q].env.exp

NoncesAreKept ==
    \A x \in nonces :
        /\ x.nonce \in Requests /\ at[x.nonce] # "idle"
        /\ \A q \in Requests : Kept(q) /\ call[q].env.nonce = x.nonce =>
              x.until = call[q].env.exp + Margin[pds]

\* A request in flight was fresh when it arrived, and that is not long ago.
FlightsAreFresh ==
    \A q \in Requests : InFlight(q) =>
        /\ call[q].to \in Instances /\ call[q].since \in Nat
        /\ Fresh(call[q].env, call[q].since + Lag[call[q].to])
        /\ now - call[q].since <= Timeout

\* What ran has its nonce in the table until no clock takes its envelope any more.
RanIsSpent ==
    \A q \in Requests : Ran(q) =>
        \/ call[q].env.nonce \in {x.nonce : x \in nonces}
        \/ now >= call[q].env.exp + Margin[pds]

GateInv == GateTypeOK /\ EnvelopesAreNamed /\ NoncesAreKept /\ FlightsAreFresh
           /\ RanIsSpent /\ RunsOnce

USE DEF Kept, Ran, InFlight
-----------------------------------------------------------------------------
LEMMA GateInit == Init => GateInv
<1> SUFFICES ASSUME Init PROVE GateInv
  OBVIOUS
<1>1. GateTypeOK
  BY DEF Init, GateTypeOK, Steps
<1>2. EnvelopesAreNamed /\ NoncesAreKept /\ FlightsAreFresh /\ RanIsSpent /\ RunsOnce
  BY DEF Init, EnvelopesAreNamed, NoncesAreKept, FlightsAreFresh, RanIsSpent, RunsOnce
<1>3. QED
  BY <1>1, <1>2 DEF GateInv

\* What a client sends has a nonce of its own, or is an envelope that is still around.
LEMMA SentIsFreshOrOld ==
    ASSUME GateInv, MaxTtl \in Int, NEW q \in Requests, NEW a \in Sendable(q)
    PROVE  /\ EnvelopeOK(a.env)
           /\ \/ a.env.nonce = q
              \/ \E p \in Requests : /\ Kept(p) /\ call[p].env.nonce = a.env.nonce
                                     /\ call[p].env.exp = a.env.exp
<1> DEFINE old == {call[p].env : p \in {r \in Requests : plan.again /\ call[r] # NoCall}}
           Good(e, f) == EnvelopeOK(f) /\ f.nonce = e.nonce /\ f.exp = e.exp
<1>1. ASSUME NEW e \in old
      PROVE  /\ EnvelopeOK(e)
             /\ \E p \in Requests : /\ Kept(p) /\ call[p].env.nonce = e.nonce
                                    /\ call[p].env.exp = e.exp
  BY DEF GateInv, EnvelopesAreNamed
<1>2. ASSUME NEW e \in FreshEnvelopes(q) PROVE EnvelopeOK(e) /\ e.nonce = q
  <2>1. /\ now \in Int /\ plan.ttls \subseteq Nat
        /\ plan.drifts \subseteq Int /\ plan.stamps \subseteq Int
    BY PlansAssumption DEF GateInv, GateTypeOK
  <2>2. ASSUME NEW clock \in Int, NEW created \in Int, NEW ttl \in Int, NEW s, NEW m,
               NEW method, m \in Usable \cup {NoKey},
               e = BuildEnvelope(q, clock, created, ttl, s, m, method)
        PROVE  EnvelopeOK(e) /\ e.nonce = q
    BY <2>2 DEF BuildEnvelope, EnvelopeOK
  <2>3. CASE \E ttl \in plan.ttls, s \in OwnerSigners :
                e = BuildEnvelope(q, now, now, ttl, s, NoKey, "write")
    BY <2>1, <2>2, <2>3
  <2>4. CASE \E d \in plan.drifts : \E created \in plan.stamps \cup {now + d},
                   method \in plan.methods, m \in Usable :
                e = BuildEnvelope(q, now + d, created, MaxTtl, DelegateSigner(m), m, method)
    <3>1. PICK d \in plan.drifts : \E created \in plan.stamps \cup {now + d},
                   method \in plan.methods, m \in Usable :
                e = BuildEnvelope(q, now + d, created, MaxTtl, DelegateSigner(m), m, method)
      BY <2>4
    <3>2. PICK created \in plan.stamps \cup {now + d}, method \in plan.methods, m \in Usable :
                e = BuildEnvelope(q, now + d, created, MaxTtl, DelegateSigner(m), m, method)
      BY <3>1
    <3>3. now + d \in Int /\ created \in Int
      BY <2>1
    <3>4. QED
      BY <2>2, <3>2, <3>3
  <2>5. QED
    BY <2>3, <2>4 DEF FreshEnvelopes
<1>3. ASSUME NEW e, EnvelopeOK(e), NEW b \in Slips(e) PROVE Good(e, b.env)
  <2>1. /\ Good(e, [e EXCEPT !.aud.host = "other"])
        /\ Good(e, [e EXCEPT !.wellFormed = FALSE])
        /\ Good(e, [e EXCEPT !.signature = NoKey])
        /\ Good(e, e)
    BY <1>3 DEF EnvelopeOK
  <2> HIDE DEF Good
  <2>2. PICK f, method, params : b = Arrival(f, method, params) /\ Good(e, f)
    BY <1>3, <2>1, Zenon DEF Slips
  <2>3. b.env = f
    BY <2>2 DEF Arrival
  <2>4. QED
    BY <2>2, <2>3
<1>4. PICK e \in old \cup FreshEnvelopes(q) : a = Arrival(e, e.method, e.params) \/ a \in Slips(e)
  BY DEF Sendable
<1>5. EnvelopeOK(e)
  BY <1>1, <1>2, <1>4
<1>6. Good(e, a.env)
  BY <1>3, <1>4, <1>5 DEF Arrival
<1>7. QED
  BY <1>1, <1>2, <1>4, <1>6

\* Only Receive looks at what others sent; the steps of a request in flight leave the
\* other requests alone.
LEMMA AnswerIs ==
    ASSUME GateTypeOK, NEW q \in Requests, NEW result, Answer(q, result)
    PROVE  /\ DOMAIN call' = Requests /\ DOMAIN answer' = Requests
           /\ at' \in [Requests -> Steps] /\ at'[q] = "done" /\ answer'[q] = result
           /\ result \in Dropped => call'[q] = NoCall
           /\ result \notin Dropped => call'[q].env = call[q].env
           /\ \A p \in Requests : p # q => /\ at'[p] = at[p] /\ call'[p] = call[p]
                                          /\ answer'[p] = answer[p]
<1>1. DOMAIN call = Requests /\ DOMAIN answer = Requests /\ at \in [Requests -> Steps]
  BY DEF GateTypeOK
<1>2. /\ at' = [at EXCEPT ![q] = "done"] /\ answer' = [answer EXCEPT ![q] = result]
      /\ call' = [call EXCEPT ![q] = IF result \in Dropped THEN NoCall
                                     ELSE [NoCall EXCEPT !.env = call[q].env]]
  BY DEF Answer, Dropped
<1>3. [NoCall EXCEPT !.env = call[q].env].env = call[q].env
  BY DEF NoCall
<1>4. QED
  BY <1>1, <1>2, <1>3 DEF Steps

LEMMA AnswerTells ==
    ASSUME GateInv, NEW q \in Requests, NEW result, Answer(q, result)
    PROVE  /\ DOMAIN call' = Requests /\ DOMAIN answer' = Requests
           /\ at' \in [Requests -> Steps] /\ at'[q] = "done" /\ answer'[q] = result
           /\ result \in Dropped => call'[q] = NoCall
           /\ result \notin Dropped => call'[q].env = call[q].env
           /\ \A p \in Requests : p # q => /\ at'[p] = at[p] /\ call'[p] = call[p]
                                          /\ answer'[p] = answer[p]
BY AnswerIs DEF GateInv

\* A request that is refused or lost leaves as much behind as it came with, or less.
LEMMA RefusalKeepsGateInv ==
    ASSUME GateInv, NEW q \in Requests, InFlight(q), NEW result, result # "ran",
           Answer(q, result), UNCHANGED <<plan, now, pds, nonces>>
    PROVE  GateInv'
<1>1. /\ at'[q] = "done" /\ answer'[q] = result /\ Kept(q)
      /\ \A p \in Requests : p # q => /\ at'[p] = at[p] /\ call'[p] = call[p]
                                     /\ answer'[p] = answer[p]
  BY AnswerTells DEF GateInv, GateTypeOK, Dropped
<1>2. GateTypeOK'
  BY <1>1, AnswerTells DEF GateInv, GateTypeOK
<1>3. \A p \in Requests : Kept(p)' => Kept(p) /\ call'[p].env = call[p].env
  BY <1>1, AnswerTells
<1>4. \A p \in Requests : at[p] # "idle" => at'[p] # "idle"
  BY <1>1
<1>5. EnvelopesAreNamed'
  <2>1. ASSUME NEW p \in Requests, call'[p] # NoCall PROVE Kept(p)'
    <3>1. CASE p = q
      BY <1>1, <2>1, <3>1, AnswerTells
    <3>2. CASE p # q
      BY <1>1, <2>1, <3>2 DEF GateInv, EnvelopesAreNamed
    <3>3. QED
      BY <3>1, <3>2
  <2>2. ASSUME NEW p \in Requests, Kept(p)'
        PROVE  EnvelopeOK(call'[p].env) /\ at'[call'[p].env.nonce] # "idle"
    <3>1. EnvelopeOK(call[p].env) /\ at[call[p].env.nonce] # "idle"
      BY <1>3, <2>2 DEF GateInv, EnvelopesAreNamed
    <3>2. QED
      BY <1>3, <1>4, <2>2, <3>1 DEF EnvelopeOK
  <2>3. ASSUME NEW p \in Requests, NEW r \in Requests, Kept(p)', Kept(r)',
               call'[p].env.nonce = call'[r].env.nonce
        PROVE  call'[p].env.exp = call'[r].env.exp
    BY <1>3, <2>3 DEF GateInv, EnvelopesAreNamed
  <2>4. QED
    BY <2>1, <2>2, <2>3 DEF EnvelopesAreNamed
<1>6. NoncesAreKept'
  BY <1>3, <1>4 DEF GateInv, NoncesAreKept
<1>7. \A p \in Requests : InFlight(p)' => p # q /\ InFlight(p)
  BY <1>1
<1>8. FlightsAreFresh'
  BY <1>1, <1>7 DEF GateInv, FlightsAreFresh
<1>9. \A p \in Requests : Ran(p)' => p # q /\ Ran(p)
  BY <1>1
<1>10. RanIsSpent' /\ RunsOnce'
  BY <1>1, <1>9 DEF GateInv, RanIsSpent, RunsOnce
<1>11. QED
  BY <1>2, <1>5, <1>6, <1>8, <1>10 DEF GateInv

LEMMA GotoKeepsGateInv ==
    ASSUME GateInv, NEW q \in Requests, InFlight(q), NEW step \in {"revocation", "commit"},
           Goto(q, step), UNCHANGED <<plan, now, pds, nonces>>
    PROVE  GateInv'
<1>1. /\ at \in [Requests -> Steps] /\ at' = [at EXCEPT ![q] = step]
      /\ answer' = answer /\ call' = call
  BY DEF Goto, GateInv, GateTypeOK
<1>2. /\ at' \in [Requests -> Steps]
      /\ \A p \in Requests : /\ (at'[p] = "idle") = (at[p] = "idle")
                              /\ (at'[p] = "done") = (at[p] = "done")
  BY <1>1 DEF Steps
<1>3. GateTypeOK'
  BY <1>1, <1>2 DEF GateInv, GateTypeOK
<1>4. EnvelopesAreNamed' /\ NoncesAreKept'
  BY <1>1, <1>2 DEF GateInv, GateTypeOK, EnvelopesAreNamed, NoncesAreKept, EnvelopeOK
<1>5. FlightsAreFresh' /\ RanIsSpent' /\ RunsOnce'
  BY <1>1, <1>2 DEF GateInv, FlightsAreFresh, RanIsSpent, RunsOnce
<1>6. QED
  BY <1>3, <1>4, <1>5 DEF GateInv

\* A request arrives: its envelope is fresh, in both senses, or its number is taken.
LEMMA ReceiveKeepsGateInv ==
    ASSUME GateInv, MarginCovers, NEW q \in Requests, Receive(q)
    PROVE  GateInv'
<1>1. PICK i \in Instances, a \in Sendable(q) :
         \/ /\ EnvelopeError(a, Clock(i)) = "none"
            /\ at' = [at EXCEPT ![q] = "resolve"]
            /\ UNCHANGED <<answer, doc>>
            /\ call' = [call EXCEPT ![q] =
                   [env |-> a.env, method |-> a.method, params |-> a.params, to |-> i,
                    since |-> now,
                    withdrawn |-> a.env.mandate # NoKey /\ Withdrawn(a.env.mandate)]]
         \/ /\ EnvelopeError(a, Clock(i)) # "none"
            /\ Answer(q, EnvelopeError(a, Clock(i)))
  BY DEF Receive
<1>2. at[q] = "idle" /\ UNCHANGED <<plan, now, pds, nonces>>
  BY DEF Receive
<1>3. /\ EnvelopeOK(a.env)
      /\ \/ a.env.nonce = q
         \/ \E p \in Requests : /\ Kept(p) /\ call[p].env.nonce = a.env.nonce
                                /\ call[p].env.exp = a.env.exp
  BY SentIsFreshOrOld DEF MarginCovers
<1>4. CASE Answer(q, EnvelopeError(a, Clock(i))) /\ EnvelopeError(a, Clock(i)) # "none"
  <2>1. EnvelopeError(a, Clock(i)) \in Dropped
    BY <1>4 DEF EnvelopeError, Dropped
  <2>2. /\ at'[q] = "done" /\ answer'[q] \in Dropped /\ call'[q] = NoCall
        /\ \A p \in Requests : p # q => /\ at'[p] = at[p] /\ call'[p] = call[p]
                                       /\ answer'[p] = answer[p]
    BY <1>4, <2>1, AnswerTells
  <2>3. GateTypeOK'
    BY <1>2, <1>4, <2>2, AnswerTells DEF GateInv, GateTypeOK
  <2>4. \A p \in Requests : Kept(p)' => p # q /\ Kept(p)
    BY <2>2
  <2>5. \A p \in Requests : at[p] # "idle" => at'[p] # "idle"
    BY <2>2
  <2>6. EnvelopesAreNamed'
    BY <2>2, <2>4, <2>5 DEF GateInv, EnvelopesAreNamed, EnvelopeOK
  <2>7. NoncesAreKept'
    BY <1>2, <2>2, <2>4, <2>5 DEF GateInv, NoncesAreKept
  <2>8. FlightsAreFresh'
    BY <1>2, <2>2 DEF GateInv, FlightsAreFresh
  <2>9. \A p \in Requests : Ran(p)' => p # q /\ Ran(p)
    BY <2>2 DEF Dropped
  <2>10. RanIsSpent' /\ RunsOnce'
    BY <1>2, <2>2, <2>9 DEF GateInv, RanIsSpent, RunsOnce
  <2>11. QED
    BY <2>3, <2>6, <2>7, <2>8, <2>10 DEF GateInv
<1>5. CASE /\ EnvelopeError(a, Clock(i)) = "none"
           /\ at' = [at EXCEPT ![q] = "resolve"]
           /\ UNCHANGED <<answer, doc>>
           /\ call' = [call EXCEPT ![q] =
                  [env |-> a.env, method |-> a.method, params |-> a.params, to |-> i,
                   since |-> now,
                   withdrawn |-> a.env.mandate # NoKey /\ Withdrawn(a.env.mandate)]]
  <2>1. /\ at \in [Requests -> Steps] /\ DOMAIN call = Requests /\ now \in Nat
        /\ answer[q] = "none"
    BY <1>2 DEF GateInv, GateTypeOK
  <2>2. /\ at' \in [Requests -> Steps] /\ at'[q] = "resolve" /\ DOMAIN call' = Requests
        /\ call'[q].env = a.env /\ call'[q].to = i /\ call'[q].since = now
        /\ answer' = answer
        /\ \A p \in Requests : p # q => at'[p] = at[p] /\ call'[p] = call[p]
    BY <1>5, <2>1 DEF Steps
  <2>3. Fresh(a.env, now + Lag[i])
    BY <1>5 DEF EnvelopeError, Clock
  <2>4. GateTypeOK'
    BY <1>2, <2>1, <2>2 DEF GateInv, GateTypeOK
  <2>5. Kept(q)' /\ \A p \in Requests : p # q => Kept(p)' = Kept(p)
    BY <2>1, <2>2 DEF Dropped
  <2>6. ASSUME NEW p \in Requests, p # q, Kept(p), call[p].env.nonce = a.env.nonce
        PROVE  call[p].env.exp = a.env.exp
    BY <1>2, <1>3, <2>6 DEF GateInv, EnvelopesAreNamed
  <2>7. EnvelopesAreNamed'
    <3>1. \A p \in Requests : call'[p] # NoCall => Kept(p)'
      BY <2>2, <2>5 DEF GateInv, EnvelopesAreNamed
    <3>2. ASSUME NEW p \in Requests, Kept(p)'
          PROVE  EnvelopeOK(call'[p].env) /\ at'[call'[p].env.nonce] # "idle"
      <4>1. CASE p = q
        BY <1>3, <2>2, <4>1 DEF GateInv, EnvelopesAreNamed, EnvelopeOK
      <4>2. CASE p # q
        BY <2>2, <2>5, <3>2, <4>2 DEF GateInv, EnvelopesAreNamed, EnvelopeOK
      <4>3. QED
        BY <4>1, <4>2
    <3>3. ASSUME NEW p \in Requests, NEW r \in Requests, Kept(p)', Kept(r)',
                 call'[p].env.nonce = call'[r].env.nonce
          PROVE  call'[p].env.exp = call'[r].env.exp
      BY <2>2, <2>5, <2>6, <3>3 DEF GateInv, EnvelopesAreNamed
    <3>4. QED
      BY <3>1, <3>2, <3>3 DEF EnvelopesAreNamed
  <2>8. NoncesAreKept'
    <3>1. ASSUME NEW x \in nonces, x.nonce = a.env.nonce
          PROVE  x.until = a.env.exp + Margin[pds]
      BY <1>2, <1>3, <3>1 DEF GateInv, NoncesAreKept
    <3>2. QED
      BY <1>2, <2>2, <2>5, <3>1 DEF GateInv, NoncesAreKept
  <2>9. FlightsAreFresh'
    <3>1. now - now <= Timeout
      BY <2>1, MarginAssumption, LagAssumption DEF MarginCovers
    <3>2. QED
      BY <1>2, <2>1, <2>2, <2>3, <3>1 DEF GateInv, FlightsAreFresh
  <2>10. \A p \in Requests : Ran(p)' => p # q /\ Ran(p)
    BY <2>1, <2>2
  <2>11. RanIsSpent' /\ RunsOnce'
    BY <1>2, <2>2, <2>10 DEF GateInv, RanIsSpent, RunsOnce
  <2>12. QED
    BY <2>4, <2>7, <2>8, <2>9, <2>11 DEF GateInv
<1>6. QED
  BY <1>1, <1>4, <1>5

\* The nonce is spent.  If it was spent before, it has expired since, and that takes
\* longer than the envelope was fresh and the invocation lasts.
LEMMA SpendingKeepsGateInv ==
    ASSUME GateInv, MarginCovers, NEW q \in Requests, InFlight(q), NEW result,
           Answer(q, result),
           call[q].env.nonce \notin {x.nonce : x \in nonces},
           nonces' = nonces \cup {[nonce |-> call[q].env.nonce, until |-> KeptUntil(call[q].env)]},
           UNCHANGED <<plan, now, pds>>
    PROVE  GateInv'
<1> DEFINE e == call[q].env
           new == [nonce |-> e.nonce, until |-> KeptUntil(e)]
<1>1. /\ at'[q] = "done" /\ answer'[q] = result /\ Kept(q)
      /\ \A p \in Requests : p # q => /\ at'[p] = at[p] /\ call'[p] = call[p]
                                     /\ answer'[p] = answer[p]
  BY AnswerTells DEF GateInv, GateTypeOK, Dropped
<1>2. EnvelopeOK(e) /\ at[e.nonce] # "idle"
  BY <1>1 DEF GateInv, EnvelopesAreNamed
<1>3. new.nonce = e.nonce /\ new.until = e.exp + Margin[pds]
  BY DEF KeptUntil
<1> HIDE DEF new
<1>4. \A p \in Requests : Kept(p)' => Kept(p) /\ call'[p].env = call[p].env
  BY <1>1, AnswerTells
<1>5. \A p \in Requests : at[p] # "idle" => at'[p] # "idle"
  BY <1>1
<1>6. GateTypeOK'
  BY <1>1, AnswerTells DEF GateInv, GateTypeOK
<1>7. EnvelopesAreNamed'
  <2>1. ASSUME NEW p \in Requests, call'[p] # NoCall PROVE Kept(p)'
    <3>1. CASE p = q
      BY <1>1, <2>1, <3>1, AnswerTells
    <3>2. CASE p # q
      BY <1>1, <2>1, <3>2 DEF GateInv, EnvelopesAreNamed
    <3>3. QED
      BY <3>1, <3>2
  <2>2. ASSUME NEW p \in Requests, Kept(p)'
        PROVE  EnvelopeOK(call'[p].env) /\ at'[call'[p].env.nonce] # "idle"
    <3>1. EnvelopeOK(call[p].env) /\ at[call[p].env.nonce] # "idle"
      BY <1>4, <2>2 DEF GateInv, EnvelopesAreNamed
    <3>2. QED
      BY <1>4, <1>5, <2>2, <3>1 DEF EnvelopeOK
  <2>3. ASSUME NEW p \in Requests, NEW r \in Requests, Kept(p)', Kept(r)',
               call'[p].env.nonce = call'[r].env.nonce
        PROVE  call'[p].env.exp = call'[r].env.exp
    BY <1>4, <2>3 DEF GateInv, EnvelopesAreNamed
  <2>4. QED
    BY <2>1, <2>2, <2>3 DEF EnvelopesAreNamed
<1>8. NoncesAreKept'
  <2>1. ASSUME NEW x \in nonces
        PROVE  /\ x.nonce \in Requests /\ at'[x.nonce] # "idle"
               /\ \A p \in Requests : Kept(p)' /\ call'[p].env.nonce = x.nonce =>
                     x.until = call'[p].env.exp + Margin[pds]
    BY <1>4, <1>5 DEF GateInv, NoncesAreKept
  <2>2. /\ new.nonce \in Requests /\ at'[new.nonce] # "idle"
        /\ \A p \in Requests : Kept(p)' /\ call'[p].env.nonce = new.nonce =>
              new.until = call'[p].env.exp + Margin[pds]
    BY <1>1, <1>2, <1>3, <1>4, <1>5 DEF GateInv, EnvelopesAreNamed, EnvelopeOK
  <2>3. nonces' = nonces \cup {new}
    BY DEF new
  <2>4. QED
    BY <2>1, <2>2, <2>3 DEF NoncesAreKept
<1>9. FlightsAreFresh'
  BY <1>1 DEF GateInv, FlightsAreFresh
<1>10. \A p \in Requests : p # q => (Ran(p)' <=> Ran(p))
  BY <1>1
<1>11. RanIsSpent'
  <2>1. ASSUME NEW p \in Requests, Ran(p)', p # q
        PROVE  \/ call'[p].env.nonce \in {x.nonce : x \in nonces'}
               \/ now' >= call'[p].env.exp + Margin[pds']
    BY <1>1, <1>10, <2>1 DEF GateInv, RanIsSpent
  <2>2. Ran(q)' => call'[q].env.nonce \in {x.nonce : x \in nonces'}
    <3>1. SUFFICES ASSUME result = "ran" PROVE call'[q].env.nonce \in {x.nonce : x \in nonces'}
      BY <1>1
    <3>2. call'[q].env = e
      BY <3>1, AnswerTells DEF Dropped
    <3>3. new \in nonces'
      BY DEF new
    <3>4. QED
      BY <1>3, <3>2, <3>3
  <2>3. QED
    BY <2>1, <2>2 DEF RanIsSpent
<1>12. RunsOnce'
  <2>1. SUFFICES ASSUME NEW p \in Requests, Ran(p), p # q, call[p].env.nonce = e.nonce
        PROVE  FALSE
    <3>1. ASSUME NEW p \in Requests, Ran(p)', p # q, Ran(q)'
          PROVE  call'[p].env.nonce # call'[q].env.nonce
      <4>1. call'[p].env = call[p].env /\ Ran(p)
        BY <1>1, <3>1
      <4>2. call'[q].env = e
        BY <1>1, <3>1, AnswerTells DEF Dropped
      <4>3. QED
        BY <2>1, <3>1, <4>1, <4>2
    <3>2. ASSUME NEW p \in Requests, NEW r \in Requests, Ran(p)', Ran(r)', p # r, p # q, r # q
          PROVE  call'[p].env.nonce # call'[r].env.nonce
      BY <1>1, <3>2 DEF GateInv, RunsOnce
    <3>3. QED
      BY <3>1, <3>2 DEF RunsOnce
  <2>2. Kept(p) /\ call[p].env.exp = e.exp
    <3>1. Kept(p)
      BY <2>1 DEF GateInv, GateTypeOK, Dropped, RanIsSpent
    <3>2. QED
      BY <1>1, <2>1, <3>1 DEF GateInv, EnvelopesAreNamed
  <2>3. now >= e.exp + Margin[pds]
    BY <2>1, <2>2 DEF GateInv, RanIsSpent
  <2>4. /\ call[q].to \in Instances /\ call[q].since \in Nat /\ now \in Nat
        /\ e.exp > call[q].since + Lag[call[q].to]
        /\ now - call[q].since <= Timeout
    BY DEF GateInv, GateTypeOK, FlightsAreFresh, Fresh
  <2>5. /\ Margin[pds] \in Int /\ Lag[call[q].to] \in Int /\ Timeout \in Int /\ e.exp \in Int
        /\ Margin[pds] >= Timeout - Lag[call[q].to]
    BY <1>2, <2>4, MarginAssumption, LagAssumption
    DEF GateInv, GateTypeOK, MarginCovers, EnvelopeOK
  <2>6. QED
    BY <2>3, <2>4, <2>5
<1>13. QED
  BY <1>6, <1>7, <1>8, <1>9, <1>11, <1>12 DEF GateInv

LEMMA StepKeepsGateInv ==
    ASSUME GateInv, MarginCovers, NEW q \in Requests, Step(q)
    PROVE  GateInv'
<1>1. CASE Receive(q)
  BY <1>1, ReceiveKeepsGateInv
<1>2. ASSUME NEW d, at[q] = "resolve", Judge(q, d), UNCHANGED <<plan, now, pds, nonces>>
      PROVE  GateInv'
  <2>1. SignerError(call[q].env, Document(d)) # "ran"
    BY DEF SignerError, OwnerError, DelegateError
  <2>2. QED
    BY <1>2, <2>1, RefusalKeepsGateInv, GotoKeepsGateInv DEF Judge
<1>3. CASE ResolveCached(q)
  BY <1>2, <1>3 DEF ResolveCached
<1>4. CASE Fetch(q)
  BY <1>2, <1>4 DEF Fetch
<1>5. CASE LookUpRevocation(q)
  BY <1>5, RefusalKeepsGateInv, GotoKeepsGateInv DEF LookUpRevocation
<1>6. CASE Commit(q)
  BY <1>6, RefusalKeepsGateInv, SpendingKeepsGateInv DEF Commit
<1>7. CASE CommitFails(q)
  BY <1>7, RefusalKeepsGateInv DEF CommitFails
<1>8. CASE Die(q)
  BY <1>8, RefusalKeepsGateInv DEF Die
<1>9. QED
  BY <1>1, <1>3, <1>4, <1>5, <1>6, <1>7, <1>8 DEF Step

LEMMA WorldKeepsGateInv ==
    ASSUME GateInv, MarginCovers, Tick \/ Expire \/ Change \/ Replicate \/ UNCHANGED vars
    PROVE  GateInv'
<1>1. UNCHANGED <<plan, pds, call, at, answer>>
  BY DEF Tick, Expire, Change, Replicate, vars
<1>2. now' = now \/ (now' = now + 1 /\ nonces' = nonces
                    /\ \A q \in Requests : InFlight(q) => now - call[q].since < Timeout)
  BY DEF Tick, Expire, Change, Replicate, vars
<1>3. nonces' = nonces \/ (now' = now /\ \E x \in nonces : x.until <= now /\ nonces' = nonces \ {x})
  BY DEF Tick, Expire, Change, Replicate, vars
<1>4. GateTypeOK' /\ EnvelopesAreNamed' /\ RunsOnce'
  BY <1>1, <1>2 DEF GateInv, GateTypeOK, EnvelopesAreNamed, RunsOnce
<1>5. NoncesAreKept'
  BY <1>1, <1>3 DEF GateInv, NoncesAreKept
<1>6. FlightsAreFresh'
  BY <1>1, <1>2 DEF GateInv, GateTypeOK, MarginCovers, FlightsAreFresh
<1>7. RanIsSpent'
  <2>1. ASSUME NEW q \in Requests, Ran(q)
        PROVE  \/ call[q].env.nonce \in {x.nonce : x \in nonces'}
               \/ now' >= call[q].env.exp + Margin[pds]
    <3>1. Kept(q)
      BY <2>1 DEF GateInv, GateTypeOK, Dropped
    <3>2. call[q].env.exp \in Int /\ Margin[pds] \in Int /\ now \in Int
      BY <3>1, MarginAssumption DEF GateInv, GateTypeOK, EnvelopesAreNamed, EnvelopeOK
    <3>3. CASE now >= call[q].env.exp + Margin[pds]
      BY <1>2, <3>2, <3>3
    <3>4. CASE call[q].env.nonce \in {x.nonce : x \in nonces}
      <4>1. PICK y \in nonces : y.nonce = call[q].env.nonce
        BY <3>4
      <4>2. y.until = call[q].env.exp + Margin[pds]
        BY <3>1, <4>1 DEF GateInv, NoncesAreKept
      <4>3. CASE y \in nonces'
        BY <4>1, <4>3
      <4>4. CASE y \notin nonces'
        BY <1>3, <3>2, <4>2, <4>4
      <4>5. QED
        BY <4>3, <4>4
    <3>5. QED
      BY <2>1, <3>3, <3>4 DEF GateInv, RanIsSpent
  <2>2. QED
    BY <1>1, <2>1 DEF RanIsSpent
<1>8. QED
  BY <1>4, <1>5, <1>6, <1>7 DEF GateInv

\* An envelope runs at most once, whichever instance it is delivered to and however
\* often, if nonces are kept for as long as an invocation takes on the slowest clock.
THEOREM EnvelopesRunOnce == MarginCovers => (Spec => []RunsOnce)
<1> SUFFICES ASSUME MarginCovers PROVE Spec => []RunsOnce
  OBVIOUS
<1>1. GateInv /\ [Next]_vars => GateInv'
  BY StepKeepsGateInv, WorldKeepsGateInv DEF Next
<1>2. GateInv => RunsOnce
  BY DEF GateInv
<1>3. QED
  BY <1>1, <1>2, GateInit, PTL DEF Spec
-----------------------------------------------------------------------------
(***************************************************************************)
(* Mandates                                                                *)
(***************************************************************************)

\* Only Commit lets a request run, and it had not run before.
LEMMA OnlyCommitRuns ==
    ASSUME GateInv, [Next]_vars, NEW q \in Requests, Runs(q)
    PROVE  at[q] = "commit" /\ Commit(q) /\ answer'[q] = Handled(q) /\ LateError(q) = "none"
<1>1. DOMAIN answer = Requests
  BY DEF GateInv, GateTypeOK
<1>2. PICK p \in Requests : Step(p) /\ answer' # answer
  BY DEF Next, Tick, Expire, Change, Replicate, vars, Runs
<1>3. ASSUME NEW result, Answer(p, result) PROVE result = "ran" /\ p = q
  BY <1>1, <1>3 DEF Runs, Answer
<1>4. EnvelopeError(call[p], now) # "ran"
  BY DEF EnvelopeError
<1>5. ASSUME Receive(p) PROVE FALSE
  <2>1. \A a, t : EnvelopeError(a, t) # "ran"
    BY DEF EnvelopeError
  <2>2. QED
    BY <1>2, <1>3, <1>5, <2>1 DEF Receive
<1>6. ASSUME NEW d, Judge(p, d) PROVE FALSE
  <2>1. SignerError(call[p].env, Document(d)) # "ran"
    BY DEF SignerError, OwnerError, DelegateError
  <2>2. QED
    BY <1>2, <1>3, <1>6, <2>1 DEF Judge, Goto
<1>7. ASSUME ResolveCached(p) \/ Fetch(p) PROVE FALSE
  BY <1>6, <1>7 DEF ResolveCached, Fetch
<1>8. ASSUME LookUpRevocation(p) \/ CommitFails(p) \/ Die(p) PROVE FALSE
  BY <1>2, <1>3, <1>8 DEF LookUpRevocation, CommitFails, Die, Goto
<1>9. Commit(p)
  BY <1>2, <1>5, <1>7, <1>8 DEF Step
<1>10. p = q /\ answer'[q] = Handled(q) /\ LateError(q) = "none"
  <2>1. LateError(p) # "ran"
    BY DEF LateError
  <2>2. \/ ~Signed(p) /\ Answer(p, "bad_signature")
        \/ Answer(p, "replay")
        \/ LateError(p) = "none" /\ \E result \in {Handled(p), "lost"} : Answer(p, result)
        \/ Answer(p, LateError(p))
    BY <1>9 DEF Commit
  <2>3. LateError(p) = "none" /\ Answer(p, Handled(p)) /\ Handled(p) = "ran" /\ p = q
    BY <1>3, <2>1, <2>2
  <2>4. QED
    BY <2>3 DEF Runs
<1>11. QED
  BY <1>9, <1>10 DEF Commit

-----------------------------------------------------------------------------
(***************************************************************************)
(* Consent that is withdrawn                                               *)
(***************************************************************************)

\* Epochs are instants, NoKey is none; and mandates are signed by a sphere.
MintedBySpheres ==
    /\ NoKey \notin Nat
    /\ \A m \in Usable : ArgsOf[m].sphere \in Spheres

\* The published document no longer supports the mandate.
Unsupported(m) ==
    /\ identity.published
    /\ \/ identity.epoch # NoKey /\ Minted(m).issued < identity.epoch
       \/ Minted(m).signedBy # OwnerKey(Minted(m).sphere, identity)

IdentityOK ==
    /\ DOMAIN identity = {"version", "epoch", "published", "since"}
    /\ identity.version \in {1, 2} /\ identity.published \in BOOLEAN
    /\ identity.epoch # NoKey => identity.epoch \in Nat /\ identity.epoch <= now

\* An instance serves one request at a time, and on the data PDS it has forgotten the
\* document when it resolves the issuer of a mandate.
InstancesForget ==
    /\ \A p, q \in Requests : InFlight(p) /\ InFlight(q) /\ p # q => call[p].to # call[q].to
    /\ DOMAIN cache = Instances
    /\ \A q \in Requests :
          pds = "data" /\ at[q] = "resolve" /\ call[q].env.mandate # NoKey =>
              cache[call[q].to].doc = NotFound

\* What was withdrawn when the request arrived still is; the document shows it, or every
\* read of the table of revocations.
WithdrawalStands ==
    \A q \in Requests : InFlight(q) /\ call[q].withdrawn =>
        /\ call[q].env.mandate # NoKey
        /\ call[q].env.mandate \in replicated \/ Unsupported(call[q].env.mandate)
        /\ pds = "data" =>
              /\ at[q] = "revocation" => call[q].env.mandate \in replicated
              /\ at[q] # "commit"

\* A replica shows nothing that the table does not hold.
ReplicasLag == replicated \subseteq revoked

ConsentInv == IdentityOK /\ InstancesForget /\ WithdrawalStands /\ ReplicasLag

\* What is in a mandate that the owner minted at instant 0.
LEMMA MintedFields ==
    ASSUME MintedBySpheres, NEW m \in Usable
    PROVE  /\ ArgsOf[m].sphere \in Spheres
           /\ Minted(m).sphere = ArgsOf[m].sphere
           /\ Minted(m).issued = 0
           /\ Minted(m).issuedBy = Method(Owner, ArgsOf[m].sphere)
           /\ Minted(m).signedBy = Key(ArgsOf[m].sphere, 1)
<1>1. ArgsOf[m].sphere \in Spheres
  BY DEF MintedBySpheres
<1>2. OwnerAt(Published).keys[ArgsOf[m].sphere] = Key(ArgsOf[m].sphere, 1)
  BY <1>1 DEF OwnerAt, OwnerKey, Published
<1>3. OwnerAt(Published).did = Owner
  BY DEF OwnerAt
<1>4. QED
  BY <1>1, <1>2, <1>3 DEF Minted, CreateMandate

\* The keys that a document of an identity lists for a sphere.
LEMMA FoundKeys ==
    ASSUME NEW sphere \in Spheres, NEW id
    PROVE  KeysOf(Document(Found(id)), Method(Owner, sphere)) \subseteq {OwnerKey(sphere, id)}
<1> DEFINE keys == [s \in Spheres \cup {"data"} |-> OwnerKey(s, Found(id))]
           root == [name |-> Method(Owner, "root"), key |-> Key("root", 1)]
<1>1. Found(id).found /\ Document(Found(id)).methods = Methods(keys) \cup {root}
  BY DEF Document, Found
<1>2. \A s : OwnerKey(s, Found(id)) = OwnerKey(s, id)
  BY DEF OwnerKey, Found
<1>3. \A s : Method(Owner, s) = Method(Owner, sphere) => s = sphere
  BY DEF Method
<1>4. ASSUME NEW v \in Methods(keys), v.name = Method(Owner, sphere)
      PROVE  v.key = OwnerKey(sphere, id)
  <2>1. PICK s \in Spheres \cup {"data"} : v = [name |-> Method(Owner, s), key |-> keys[s]]
    BY <1>4 DEF Methods
  <2>2. s = sphere
    BY <1>3, <1>4, <2>1
  <2>3. QED
    BY <1>2, <2>1, <2>2
<1>5. root.name # Method(Owner, sphere)
  BY <1>3 DEF Spheres
<1>6. QED
  BY <1>1, <1>4, <1>5 DEF KeysOf

\* Without a document there is the root key alone.
LEMMA NotFoundKeys ==
    ASSUME NEW sphere \in Spheres
    PROVE  KeysOf(Document(NotFound), Method(Owner, sphere)) \subseteq {Key("root", 1)}
<1>1. Document(NotFound).methods = Methods([s \in Spheres \cup {"root"} |-> Key("root", 1)])
  BY DEF Document, NotFound
<1>2. QED
  BY <1>1 DEF KeysOf, Methods

\* A mandate that the published document does not support does not verify against it,
\* and no mandate does where there is no document.
LEMMA UnsupportedIsSeen ==
    ASSUME MintedBySpheres, NEW m \in Usable, NEW t, NEW d,
           d = NotFound \/ (d = Found(identity) /\ Unsupported(m))
    PROVE  ~VerifyMandate(Minted(m), Document(d), t)
<1> DEFINE sphere == ArgsOf[m].sphere
<1>1. /\ sphere \in Spheres /\ Minted(m).sphere = sphere /\ Minted(m).issued = 0
      /\ Minted(m).issuedBy = Method(Owner, sphere) /\ Minted(m).signedBy = Key(sphere, 1)
  BY MintedFields
<1> HIDE DEF sphere
<1>2. CASE d = NotFound
  <2>1. Key(sphere, 1) # Key("root", 1)
    BY <1>1 DEF Key, Spheres
  <2>2. Minted(m).signedBy \notin KeysOf(Document(d), Minted(m).issuedBy)
    BY <1>1, <1>2, <2>1, NotFoundKeys
  <2>3. "signature" \in MandateErrors(Minted(m), Document(d), t)
    BY <2>2 DEF MandateErrors
  <2>4. QED
    BY <2>3 DEF VerifyMandate
<1>3. CASE d = Found(identity) /\ identity.epoch # NoKey /\ Minted(m).issued < identity.epoch
  <2>1. Document(d).epoch = identity.epoch
    BY <1>3 DEF Document, Found
  <2>2. "epoch" \in MandateErrors(Minted(m), Document(d), t)
    BY <1>3, <2>1 DEF MandateErrors
  <2>3. QED
    BY <2>2 DEF VerifyMandate
<1>4. CASE d = Found(identity) /\ Minted(m).signedBy # OwnerKey(Minted(m).sphere, identity)
  <2>1. Minted(m).signedBy \notin KeysOf(Document(d), Minted(m).issuedBy)
    BY <1>1, <1>4, FoundKeys
  <2>2. "signature" \in MandateErrors(Minted(m), Document(d), t)
    BY <2>1 DEF MandateErrors
  <2>3. QED
    BY <2>2 DEF VerifyMandate
<1>5. QED
  BY <1>2, <1>3, <1>4 DEF Unsupported

LEMMA ReplicasKeepLagging == ASSUME ReplicasLag, [Next]_vars PROVE ReplicasLag'
BY DEF ReplicasLag, Next, Tick, Expire, Change, Publish, Rotate, Void, Revoke, Replicate,
       Step, Receive, ResolveCached, Fetch, LookUpRevocation, Commit, CommitFails, Die, vars

\* Nothing that the owner does later brings a mandate back.
LEMMA WithdrawalIsForGood ==
    ASSUME MintedBySpheres, GateInv, IdentityOK, ReplicasLag, [Next]_vars
    PROVE  /\ IdentityOK'
           /\ \A m \in Usable : m \in replicated \/ Unsupported(m) =>
                                    (m \in replicated \/ Unsupported(m))'
<1>1. now \in Nat
  BY DEF GateInv, GateTypeOK
<1>2. CASE Change
  <2>1. now' = now /\ replicated' = replicated
    BY <1>2 DEF Change
  <2>2. CASE Publish
    BY <1>1, <2>1, <2>2 DEF Publish, IdentityOK, Unsupported
  <2>3. CASE Rotate
    <3>1. IdentityOK'
      BY <1>1, <2>1, <2>3 DEF Rotate, IdentityOK
    <3>2. ASSUME NEW m \in Usable, Unsupported(m) PROVE Unsupported(m)'
      <4>1. /\ identity'.published = identity.published
            /\ identity'.epoch = identity.epoch /\ identity'.version = 2
        BY <2>3 DEF Rotate, IdentityOK
      <4>2. Minted(m).signedBy = Key(Minted(m).sphere, 1)
        BY MintedFields
      <4>3. ASSUME Minted(m).signedBy # OwnerKey(Minted(m).sphere, identity)
            PROVE  Minted(m).signedBy # OwnerKey(Minted(m).sphere, identity')
        <5>1. Minted(m).sphere = "public"
          BY <4>2, <4>3 DEF OwnerKey
        <5>2. OwnerKey(Minted(m).sphere, identity') = Key("public", 2)
          BY <4>1, <5>1 DEF OwnerKey
        <5>3. Key("public", 1) # Key("public", 2)
          BY DEF Key
        <5>4. QED
          BY <4>2, <5>1, <5>2, <5>3
      <4>4. QED
        BY <3>2, <4>1, <4>3 DEF Unsupported
    <3>3. QED
      BY <2>1, <3>1, <3>2
  <2>4. CASE Void
    <3>1. IdentityOK'
      <4>1. identity' = [identity EXCEPT !.epoch = now, !.since = now] /\ now' = now
        BY <2>1, <2>4 DEF Void
      <4>2. /\ DOMAIN identity' = DOMAIN identity /\ identity'.epoch = now
            /\ identity'.version = identity.version
            /\ identity'.published = identity.published
        BY <4>1 DEF IdentityOK
      <4>3. QED
        BY <1>1, <4>1, <4>2 DEF IdentityOK
    <3>2. /\ identity'.published /\ identity'.epoch = now /\ now # NoKey
          /\ identity'.version = identity.version /\ replicated' = replicated
      BY <1>1, <2>1, <2>4 DEF Void, IdentityOK, MintedBySpheres
    <3>3. ASSUME NEW m \in Usable, Unsupported(m) PROVE Unsupported(m)'
      <4>1. CASE identity.epoch # NoKey /\ Minted(m).issued < identity.epoch
        <5>1. identity.epoch \in Nat /\ identity.epoch <= now /\ Minted(m).issued = 0
          BY <4>1, MintedFields DEF IdentityOK
        <5>2. Minted(m).issued < now
          BY <1>1, <4>1, <5>1
        <5>3. QED
          BY <3>2, <5>2 DEF Unsupported
      <4>2. CASE Minted(m).signedBy # OwnerKey(Minted(m).sphere, identity)
        <5>1. OwnerKey(Minted(m).sphere, identity') = OwnerKey(Minted(m).sphere, identity)
          BY <3>2 DEF OwnerKey
        <5>2. QED
          BY <3>2, <4>2, <5>1 DEF Unsupported
      <4>3. QED
        BY <3>3, <4>1, <4>2 DEF Unsupported
    <3>4. QED
      BY <3>1, <3>2, <3>3
  <2>5. CASE Revoke
    <3>1. identity' = identity
      BY <2>5 DEF Revoke
    <3>2. QED
      BY <2>1, <3>1 DEF IdentityOK, Unsupported
  <2>6. QED
    BY <1>2, <2>2, <2>3, <2>4, <2>5 DEF Change
<1>3. CASE Tick
  <2>1. now' = now + 1 /\ identity' = identity /\ replicated' = replicated
    BY <1>3 DEF Tick
  <2>2. QED
    BY <1>1, <2>1 DEF IdentityOK, Unsupported
<1>4. ASSUME now' = now, identity' = identity, replicated' = replicated
      PROVE  /\ IdentityOK'
             /\ \A m \in Usable : m \in replicated \/ Unsupported(m) =>
                                      (m \in replicated \/ Unsupported(m))'
  BY <1>4 DEF IdentityOK, Unsupported
<1>5. CASE Expire \/ (\E q \in Requests : Step(q)) \/ UNCHANGED vars
  BY <1>4, <1>5 DEF Expire, Step, Receive, ResolveCached, Fetch, LookUpRevocation, Commit,
                    CommitFails, Die, vars
<1>7. CASE Replicate
  <2>1. now' = now /\ identity' = identity /\ replicated \subseteq replicated'
    BY <1>7 DEF Replicate, ReplicasLag
  <2>2. QED
    BY <2>1 DEF IdentityOK, Unsupported
<1>6. QED
  BY <1>2, <1>3, <1>5, <1>7 DEF Next

\* The mandate of a request in flight is one of those that can be used.
LEMMA FlightsAreUsable ==
    ASSUME GateInv, NEW q \in Requests, InFlight(q)
    PROVE  call[q].env.mandate \in Usable \cup {NoKey} /\ call[q].to \in Instances
<1>1. Kept(q)
  BY DEF GateInv, GateTypeOK, Dropped
<1>2. QED
  BY <1>1 DEF GateInv, EnvelopesAreNamed, EnvelopeOK, FlightsAreFresh

\* A step of one request, as far as the others see it.
Beside(q) ==
    /\ pds' = pds /\ replicated' = replicated /\ identity' = identity
    /\ DOMAIN cache' = Instances
    /\ \A p \in Requests : p # q => /\ at'[p] = at[p] /\ call'[p] = call[p]
                                    /\ InFlight(p) => cache'[call[p].to] = cache[call[p].to]

LEMMA AnswerKeepsConsent ==
    ASSUME GateInv, InstancesForget, WithdrawalStands, NEW q \in Requests, NEW result,
           Answer(q, result), Beside(q)
    PROVE  InstancesForget' /\ WithdrawalStands'
<1>1. at'[q] = "done"
  BY DEF Answer, GateInv, GateTypeOK
<1>2. \A p \in Requests : InFlight(p)' => /\ p # q /\ InFlight(p) /\ at'[p] = at[p]
                                          /\ call'[p] = call[p]
                                          /\ cache'[call[p].to] = cache[call[p].to]
  BY <1>1 DEF Beside
<1>3. InstancesForget'
  BY <1>2 DEF Beside, InstancesForget
<1>4. WithdrawalStands'
  BY <1>2 DEF Beside, WithdrawalStands, Unsupported
<1>5. QED
  BY <1>3, <1>4

\* The document that q resolves is the present one or none, where it matters.
LEMMA JudgeKeepsConsent ==
    ASSUME MintedBySpheres, GateInv, ConsentInv, NEW q \in Requests, at[q] = "resolve", NEW d,
           Judge(q, d), Beside(q),
           pds = "data" /\ call[q].env.mandate # NoKey => d = NotFound \/ d = Found(identity)
    PROVE  InstancesForget' /\ WithdrawalStands'
<1> DEFINE m == call[q].env.mandate
           step == IF m # NoKey /\ pds = "data" THEN "revocation" ELSE "commit"
<1>1. CASE SignerError(call[q].env, Document(d)) # "none"
  BY <1>1, AnswerKeepsConsent DEF Judge, ConsentInv
<1>2. CASE SignerError(call[q].env, Document(d)) = "none"
  <2>1. at' = [at EXCEPT ![q] = step] /\ call' = call
    BY <1>2 DEF Judge, Goto
  <2>2. at'[q] = step /\ InFlight(q) /\ step \in {"revocation", "commit"}
    BY <2>1 DEF GateInv, GateTypeOK
  <2>3. \A p \in Requests : p # q => (InFlight(p)' = InFlight(p)) /\ at'[p] = at[p]
    BY DEF Beside
  <2>4. InstancesForget'
    BY <2>1, <2>2, <2>3 DEF Beside, ConsentInv, InstancesForget
  <2>5. ASSUME call[q].withdrawn, pds = "data" PROVE m \in replicated /\ step = "revocation"
    <3>1. m # NoKey /\ (m \in replicated \/ Unsupported(m)) /\ m \in Usable
      BY <2>2, <2>5, FlightsAreUsable DEF ConsentInv, WithdrawalStands
    <3>2. VerifyMandate(Minted(m), Document(d), call[q].env.created)
      BY <1>2, <3>1 DEF SignerError, DelegateError
    <3>3. ~Unsupported(m)
      BY <2>5, <3>1, <3>2, UnsupportedIsSeen
    <3>4. QED
      BY <2>5, <3>1, <3>3
  <2>6. WithdrawalStands'
    <3>1. ASSUME NEW p \in Requests, InFlight(p)', call'[p].withdrawn
          PROVE  /\ call'[p].env.mandate # NoKey
                 /\ (call[p].env.mandate \in replicated \/ Unsupported(call[p].env.mandate))'
                 /\ pds' = "data" =>
                       /\ at'[p] = "revocation" => call'[p].env.mandate \in replicated'
                       /\ at'[p] # "commit"
      <4>1. InFlight(p)
        BY <2>2, <2>3, <3>1
      <4>2. /\ call[p].env.mandate # NoKey
            /\ call[p].env.mandate \in replicated \/ Unsupported(call[p].env.mandate)
        BY <2>1, <3>1, <4>1 DEF ConsentInv, WithdrawalStands
      <4>3. CASE p = q
        BY <2>1, <2>2, <2>5, <3>1, <4>2, <4>3 DEF Beside, Unsupported
      <4>4. CASE p # q
        BY <2>1, <2>3, <3>1, <4>1, <4>2, <4>4
        DEF Beside, Unsupported, ConsentInv, WithdrawalStands
      <4>5. QED
        BY <4>3, <4>4
    <3>2. QED
      BY <3>1 DEF WithdrawalStands
  <2>7. QED
    BY <2>4, <2>6
<1>3. QED
  BY <1>1, <1>2
LEMMA ReceiveKeepsConsent ==
    ASSUME MintedBySpheres, GateInv, ConsentInv, NEW q \in Requests, Receive(q)
    PROVE  InstancesForget' /\ WithdrawalStands'
<1>1. PICK i \in Instances, a \in Sendable(q) :
         /\ \A p \in Requests : InFlight(p) => call[p].to # i
         /\ \/ /\ at' = [at EXCEPT ![q] = "resolve"]
               /\ call' = [call EXCEPT ![q] =
                      [env |-> a.env, method |-> a.method, params |-> a.params, to |-> i,
                       since |-> now,
                       withdrawn |-> a.env.mandate # NoKey /\ Withdrawn(a.env.mandate)]]
            \/ Answer(q, EnvelopeError(a, Clock(i)))
         /\ cache' = IF pds = "data" /\ a.env.mandate # NoKey
                     THEN [cache EXCEPT ![i] = [doc |-> NotFound, expires |-> 0]]
                     ELSE cache
  BY DEF Receive
<1>2. /\ at[q] = "idle" /\ pds' = pds /\ replicated' = replicated /\ identity' = identity
      /\ DOMAIN call = Requests /\ at \in [Requests -> Steps] /\ DOMAIN cache = Instances
  BY DEF Receive, GateInv, GateTypeOK, ConsentInv, InstancesForget
<1>3. DOMAIN cache' = Instances /\ \A j \in Instances : j # i => cache'[j] = cache[j]
  BY <1>1, <1>2
<1>4. \A p \in Requests : InFlight(p) => cache'[call[p].to] = cache[call[p].to]
  BY <1>1, <1>3, FlightsAreUsable
<1>5. CASE Answer(q, EnvelopeError(a, Clock(i)))
  <2>1. Beside(q)
    BY <1>2, <1>3, <1>4, <1>5, AnswerTells DEF Beside
  <2>2. QED
    BY <1>5, <2>1, AnswerKeepsConsent DEF ConsentInv
<1>6. CASE /\ at' = [at EXCEPT ![q] = "resolve"]
           /\ call' = [call EXCEPT ![q] =
                  [env |-> a.env, method |-> a.method, params |-> a.params, to |-> i,
                   since |-> now,
                   withdrawn |-> a.env.mandate # NoKey /\ Withdrawn(a.env.mandate)]]
  <2>1. /\ at'[q] = "resolve" /\ call'[q].to = i /\ call'[q].env = a.env
        /\ call'[q].withdrawn => a.env.mandate # NoKey /\ Withdrawn(a.env.mandate)
        /\ \A p \in Requests : p # q => at'[p] = at[p] /\ call'[p] = call[p]
    BY <1>2, <1>6
  <2>2. pds = "data" /\ call'[q].env.mandate # NoKey => cache'[call'[q].to].doc = NotFound
    BY <1>1, <1>2, <2>1
  <2>3. InstancesForget'
    <3>1. ASSUME NEW p \in Requests, NEW r \in Requests, InFlight(p)', InFlight(r)', p # r
          PROVE  call'[p].to # call'[r].to
      BY <1>1, <2>1, <3>1 DEF ConsentInv, InstancesForget
    <3>2. ASSUME NEW p \in Requests, pds' = "data", at'[p] = "resolve",
                 call'[p].env.mandate # NoKey
          PROVE  cache'[call'[p].to].doc = NotFound
      BY <1>2, <1>4, <2>1, <2>2, <3>2 DEF ConsentInv, InstancesForget
    <3>3. QED
      BY <1>3, <3>1, <3>2 DEF InstancesForget
  <2>4. WithdrawalStands'
    <3>1. Withdrawn(a.env.mandate) =>
            a.env.mandate \in replicated \/ Unsupported(a.env.mandate)
      BY DEF Withdrawn, Unsupported
    <3>2. ASSUME NEW p \in Requests, InFlight(p)', call'[p].withdrawn
          PROVE  /\ call'[p].env.mandate # NoKey
                 /\ (call[p].env.mandate \in replicated \/ Unsupported(call[p].env.mandate))'
                 /\ pds' = "data" =>
                       /\ at'[p] = "revocation" => call'[p].env.mandate \in replicated'
                       /\ at'[p] # "commit"
      <4>1. CASE p = q
        BY <1>2, <2>1, <3>1, <3>2, <4>1 DEF Unsupported
      <4>2. CASE p # q
        BY <1>2, <2>1, <3>2, <4>2 DEF Unsupported, ConsentInv, WithdrawalStands
      <4>3. QED
        BY <4>1, <4>2
    <3>3. QED
      BY <3>2 DEF WithdrawalStands
  <2>5. QED
    BY <2>3, <2>4
<1>7. QED
  BY <1>1, <1>5, <1>6

LEMMA StepKeepsConsent ==
    ASSUME MintedBySpheres, GateInv, ConsentInv, NEW q \in Requests, Step(q)
    PROVE  InstancesForget' /\ WithdrawalStands'
<1>1. DOMAIN cache = Instances /\ at \in [Requests -> Steps] /\ DOMAIN call = Requests
  BY DEF GateInv, GateTypeOK, ConsentInv, InstancesForget
<1>2. ASSUME NEW result, Answer(q, result), InFlight(q),
             UNCHANGED <<pds, replicated, identity, cache>>
      PROVE  InstancesForget' /\ WithdrawalStands'
  <2>1. Beside(q)
    BY <1>1, <1>2, AnswerTells DEF Beside
  <2>2. QED
    BY <1>2, <2>1, AnswerKeepsConsent DEF ConsentInv
<1>3. ASSUME NEW d, at[q] = "resolve", Judge(q, d), UNCHANGED <<pds, replicated, identity>>,
             DOMAIN cache' = Instances,
             \A i \in Instances : i # call[q].to => cache'[i] = cache[i],
             pds = "data" /\ call[q].env.mandate # NoKey => d = NotFound \/ d = Found(identity)
      PROVE  InstancesForget' /\ WithdrawalStands'
  <2>1. \A p \in Requests : p # q => at'[p] = at[p] /\ call'[p] = call[p]
    BY <1>1, <1>3, AnswerTells DEF Judge, Goto
  <2>2. \A p \in Requests : p # q /\ InFlight(p) => cache'[call[p].to] = cache[call[p].to]
    BY <1>3, FlightsAreUsable DEF ConsentInv, InstancesForget
  <2>3. Beside(q)
    BY <1>3, <2>1, <2>2 DEF Beside
  <2>4. QED
    BY <1>3, <2>3, JudgeKeepsConsent
<1>4. CASE ResolveCached(q)
  BY <1>1, <1>3, <1>4 DEF ResolveCached, ConsentInv, InstancesForget
<1>5. CASE Fetch(q)
  <2>1. PICK d \in {NotFound} \cup (IF identity.published THEN {Found(identity)} ELSE {}) :
           Judge(q, d) /\ cache' = Remember(call[q].to, d, Clock(call[q].to))
    BY <1>5 DEF Fetch
  <2>2. DOMAIN cache' = Instances /\ \A i \in Instances : i # call[q].to => cache'[i] = cache[i]
    BY <1>1, <2>1 DEF Remember
  <2>3. QED
    BY <1>3, <1>5, <2>1, <2>2 DEF Fetch
<1>6. CASE LookUpRevocation(q)
  <2>1. at[q] = "revocation" /\ UNCHANGED <<pds, replicated, identity, cache>>
    BY <1>6 DEF LookUpRevocation
  <2>2. \/ Answer(q, "revoked")
        \/ call[q].env.mandate \notin replicated /\ Goto(q, "commit")
    BY <1>6 DEF LookUpRevocation, ConsentInv, ReplicasLag
  <2>3. CASE Answer(q, "revoked")
    BY <1>2, <2>1, <2>3
  <2>4. CASE call[q].env.mandate \notin replicated /\ Goto(q, "commit")
    <3>1. at' = [at EXCEPT ![q] = "commit"] /\ call' = call
      BY <2>4 DEF Goto
    <3>2. at'[q] = "commit" /\ \A p \in Requests : p # q => at'[p] = at[p]
      BY <1>1, <3>1
    <3>3. pds = "data" => ~call[q].withdrawn
      BY <2>1, <2>4 DEF ConsentInv, WithdrawalStands
    <3>4. InstancesForget'
      BY <2>1, <3>1, <3>2 DEF ConsentInv, InstancesForget
    <3>5. WithdrawalStands'
      BY <2>1, <3>1, <3>2, <3>3 DEF ConsentInv, WithdrawalStands, Unsupported
    <3>6. QED
      BY <3>4, <3>5
  <2>5. QED
    BY <2>2, <2>3, <2>4
<1>7. CASE Commit(q) \/ CommitFails(q) \/ Die(q)
  BY <1>2, <1>7 DEF Commit, CommitFails, Die
<1>8. QED
  BY <1>4, <1>5, <1>6, <1>7, ReceiveKeepsConsent DEF Step

LEMMA NextKeepsConsent ==
    ASSUME MintedBySpheres, GateInv, ConsentInv, [Next]_vars
    PROVE  ConsentInv'
<1>1. /\ IdentityOK' /\ ReplicasLag'
      /\ \A m \in Usable : m \in replicated \/ Unsupported(m) =>
                              (m \in replicated \/ Unsupported(m))'
  BY WithdrawalIsForGood, ReplicasKeepLagging DEF ConsentInv
<1>2. ASSUME UNCHANGED <<pds, cache, call, at>>, replicated \subseteq replicated'
      PROVE  InstancesForget' /\ WithdrawalStands'
  <2>1. InstancesForget'
    BY <1>2 DEF ConsentInv, InstancesForget
  <2>2. ASSUME NEW q \in Requests, InFlight(q), call[q].withdrawn
        PROVE  (call[q].env.mandate \in replicated \/ Unsupported(call[q].env.mandate))'
    <3>1. /\ call[q].env.mandate \in Usable
          /\ call[q].env.mandate \in replicated \/ Unsupported(call[q].env.mandate)
      BY <2>2, FlightsAreUsable DEF ConsentInv, WithdrawalStands
    <3>2. call'[q].env.mandate = call[q].env.mandate
      BY <1>2
    <3>3. QED
      BY <1>1, <3>1, <3>2 DEF Unsupported
  <2>3. WithdrawalStands'
    BY <1>2, <2>2 DEF ConsentInv, WithdrawalStands
  <2>4. QED
    BY <2>1, <2>3
<1>3. CASE Tick \/ Expire \/ Change \/ Replicate \/ UNCHANGED vars
  BY <1>1, <1>2, <1>3
  DEF Tick, Expire, Change, Replicate, Publish, Rotate, Void, Revoke, vars, ConsentInv,
      ReplicasLag
<1>4. CASE \E q \in Requests : Step(q)
  BY <1>1, <1>4, StepKeepsConsent DEF ConsentInv
<1>5. QED
  BY <1>3, <1>4 DEF Next

\* A mandate that was voided, signed by a rotated key, or revoked and no longer missed by
\* any read when the request arrived opens nothing, whatever the caches hold and whatever
\* happens since.
THEOREM WithdrawnOpensNothing ==
    MarginCovers /\ MintedBySpheres => (Spec => WithdrawalIsImmediate)
<1> SUFFICES ASSUME MarginCovers, MintedBySpheres PROVE Spec => WithdrawalIsImmediate
  OBVIOUS
<1>1. Init => ConsentInv
  <2>1. Init => IdentityOK
    <3> SUFFICES ASSUME Init PROVE IdentityOK
      OBVIOUS
    <3>1. CASE identity = Published
      BY <3>1 DEF IdentityOK, Published
    <3>2. CASE identity = Unpublished
      <4>1. DOMAIN identity = {"version", "epoch", "published", "since"}
        BY <3>2 DEF Unpublished, Published
      <4>2. identity.version = 1 /\ identity.epoch = NoKey
        BY <3>2 DEF Unpublished, Published
      <4>3. identity.published = FALSE
        BY <3>2 DEF Unpublished, Published
      <4>4. QED
        BY <4>1, <4>2, <4>3 DEF IdentityOK
    <3>3. QED
      BY <3>1, <3>2 DEF Init
  <2>2. QED
    BY <2>1 DEF Init, ConsentInv, InstancesForget, WithdrawalStands, ReplicasLag
<1>2. GateInv /\ [Next]_vars => GateInv'
  BY StepKeepsGateInv, WorldKeepsGateInv DEF Next
<1>3. ASSUME GateInv, ConsentInv, [Next]_vars, NEW q \in Requests, Runs(q)
      PROVE  ~call[q].withdrawn
  <2>1. at[q] = "commit" /\ LateError(q) = "none" /\ InFlight(q) /\ pds \in Services
    BY <1>3, OnlyCommitRuns DEF GateInv, GateTypeOK
  <2>2. pds = "assets" => call[q].env.mandate = NoKey
    BY <2>1 DEF LateError
  <2>3. QED
    BY <1>3, <2>1, <2>2 DEF Services, ConsentInv, WithdrawalStands
<1>4. GateInv /\ ConsentInv /\ [Next]_vars =>
        [\A q \in Requests : Runs(q) => ~call[q].withdrawn]_vars
  BY <1>3
<1>5. GateInv /\ ConsentInv /\ [Next]_vars => ConsentInv'
  BY NextKeepsConsent
<1>6. QED
  BY <1>1, <1>2, <1>4, <1>5, GateInit, PTL DEF Spec, WithdrawalIsImmediate

-----------------------------------------------------------------------------
(* What spends a nonce *)

\* No key of an owner is the absence of one.
OwnersHaveKeys == \A sphere, version : Key(sphere, version) # NoKey

\* A request in flight arrived as it was signed.
FlightsAreIntact ==
    \A q \in Requests : InFlight(q) =>
        /\ call[q].env.wellFormed /\ call[q].env.aud.host # "other"
        /\ call[q].env.method = call[q].method /\ call[q].env.params = call[q].params

\* What a step of one request leaves as it was.
LEMMA FlightsAreFixed ==
    ASSUME GateInv, [Next]_vars, NEW q \in Requests, InFlight(q)'
    PROVE  \/ InFlight(q) /\ call'[q] = call[q]
           \/ Receive(q)
<1>1. ASSUME NEW p \in Requests, NEW result, InFlight(p) \/ at[p] = "idle", Answer(p, result)
      PROVE  InFlight(q) /\ call'[q] = call[q]
  BY <1>1, AnswerTells
<1>2. ASSUME NEW p \in Requests, NEW step, InFlight(p), Goto(p, step)
      PROVE  InFlight(q) /\ call'[q] = call[q]
  BY <1>2 DEF Goto, GateInv, GateTypeOK
<1>3. ASSUME NEW p \in Requests, NEW d, InFlight(p), Judge(p, d)
      PROVE  InFlight(q) /\ call'[q] = call[q]
  BY <1>1, <1>2, <1>3 DEF Judge
<1>4. CASE UNCHANGED <<at, call>>
  BY <1>4
<1>5. ASSUME NEW p \in Requests, Receive(p), p # q
      PROVE  InFlight(q) /\ call'[q] = call[q]
  <2>1. at[p] = "idle"
    BY <1>5 DEF Receive
  <2>2. CASE \E result : Answer(p, result)
    BY <1>1, <2>1, <2>2
  <2>3. CASE /\ at' = [at EXCEPT ![p] = "resolve"]
             /\ \E c : call' = [call EXCEPT ![p] = c]
    BY <1>5, <2>3 DEF GateInv, GateTypeOK
  <2>4. QED
    BY <1>5, <2>2, <2>3 DEF Receive
<1>6. ASSUME NEW p \in Requests, Step(p), ~Receive(p)
      PROVE  InFlight(q) /\ call'[q] = call[q]
  <2>1. CASE ResolveCached(p) \/ Fetch(p)
    BY <1>3, <2>1 DEF ResolveCached, Fetch
  <2>2. CASE LookUpRevocation(p)
    BY <1>1, <1>2, <2>2 DEF LookUpRevocation
  <2>3. CASE Commit(p) \/ CommitFails(p) \/ Die(p)
    <3>1. InFlight(p) /\ \E result : Answer(p, result)
      BY <2>3 DEF Commit, CommitFails, Die
    <3>2. QED
      BY <1>1, <3>1
  <2>4. QED
    BY <1>6, <2>1, <2>2, <2>3 DEF Step
<1>7. CASE Tick \/ Expire \/ Change \/ Replicate \/ UNCHANGED vars
  BY <1>4, <1>7 DEF Tick, Expire, Change, Replicate, vars
<1>8. QED
  BY <1>5, <1>6, <1>7 DEF Next

LEMMA ReceivedIsIntact ==
    ASSUME GateInv, NEW q \in Requests, Receive(q), InFlight(q)'
    PROVE  /\ call'[q].env.wellFormed /\ call'[q].env.aud.host # "other"
           /\ call'[q].env.method = call'[q].method /\ call'[q].env.params = call'[q].params
<1>1. PICK i \in Instances, a \in Sendable(q) :
         \/ /\ EnvelopeError(a, Clock(i)) = "none"
            /\ call' = [call EXCEPT ![q] =
                   [env |-> a.env, method |-> a.method, params |-> a.params, to |-> i,
                    since |-> now,
                    withdrawn |-> a.env.mandate # NoKey /\ Withdrawn(a.env.mandate)]]
         \/ Answer(q, EnvelopeError(a, Clock(i)))
  BY DEF Receive
<1>2. ~Answer(q, EnvelopeError(a, Clock(i)))
  BY AnswerTells
<1>3. call'[q].env = a.env /\ call'[q].method = a.method /\ call'[q].params = a.params
  BY <1>1, <1>2 DEF GateInv, GateTypeOK
<1>4. /\ a.env.wellFormed /\ NormalizeAud(a.env.aud) \in ExpectedAud
      /\ a.env.method = a.method /\ a.env.params = a.params
  BY <1>1, <1>2 DEF EnvelopeError
<1>5. a.env.aud.host # "other"
  BY <1>4 DEF NormalizeAud, ExpectedAud, Hosts
<1>6. QED
  BY <1>3, <1>4, <1>5

LEMMA ListedAreKeys ==
    ASSUME OwnersHaveKeys, NEW d, NEW name
    PROVE  NoKey \notin KeysOf(Document(d), name)
<1>1. ASSUME NEW S, NEW keys, DOMAIN keys = S, \A s \in S : keys[s] # NoKey
      PROVE  \A v \in Methods(keys) : v.key # NoKey
  BY <1>1 DEF Methods
<1>2. \A s : OwnerKey(s, d) # NoKey
  BY DEF OwnersHaveKeys, OwnerKey
<1>3. \A v \in Methods([s \in Spheres \cup {"data"} |-> OwnerKey(s, d)]) : v.key # NoKey
  BY <1>1, <1>2
<1>4. \A v \in Methods([s \in Spheres \cup {"root"} |-> Key("root", 1)]) : v.key # NoKey
  BY <1>1 DEF OwnersHaveKeys
<1>5. [name |-> Method(Owner, "root"), key |-> Key("root", 1)].key # NoKey
  BY DEF OwnersHaveKeys
<1>6. \A v \in Document(d).methods : v.key # NoKey
  BY <1>3, <1>4, <1>5 DEF Document
<1>7. QED
  BY <1>6 DEF KeysOf

\* Only what was signed as it arrived spends a nonce: a copy that was damaged or
\* misdirected on its way leaves the original its chance.
THEOREM DamagedCopiesSpendNothing ==
    MarginCovers /\ OwnersHaveKeys => (Spec => OnlySignedIsSpent)
<1> SUFFICES ASSUME MarginCovers, OwnersHaveKeys PROVE Spec => OnlySignedIsSpent
  OBVIOUS
<1>1. Init => FlightsAreIntact
  BY DEF Init, FlightsAreIntact
<1>2. GateInv /\ FlightsAreIntact /\ [Next]_vars => FlightsAreIntact'
  BY FlightsAreFixed, ReceivedIsIntact DEF FlightsAreIntact
<1>3. GateInv /\ [Next]_vars => GateInv'
  BY StepKeepsGateInv, WorldKeepsGateInv DEF Next
<1>4. ASSUME GateInv, FlightsAreIntact, [Next]_vars, NEW q \in Requests,
             at[q] = "commit", at'[q] # at[q],
             call[q].env.nonce \in {x.nonce : x \in nonces' \ nonces}
      PROVE  /\ call[q].env.wellFormed /\ call[q].env.signature # NoKey
             /\ call[q].env.aud.host # "other"
             /\ call[q].env.method = call[q].method /\ call[q].env.params = call[q].params
  <2>1. Step(q) /\ nonces' # nonces
    <3>1. PICK p \in Requests : Step(p)
      BY <1>4 DEF Next, Tick, Expire, Change, Replicate, vars
    <3>2. CASE p = q
      BY <1>4, <3>1, <3>2
    <3>3. CASE p # q
      BY <1>4, <3>1, <3>3, AnswerTells
      DEF Step, Receive, ResolveCached, Fetch, LookUpRevocation, Commit, CommitFails, Die,
          Judge, Goto, GateInv, GateTypeOK
    <3>4. QED
      BY <1>4, <3>2, <3>3
  <2>2. Commit(q)
    BY <1>4, <2>1
    DEF Step, Receive, ResolveCached, Fetch, LookUpRevocation, CommitFails, Die
  <2>3. Signed(q)
    BY <2>1, <2>2 DEF Commit
  <2>4. call[q].env.signature # NoKey
    <3>1. CASE call[q].env.mandate = NoKey
      <4>1. NoKey \notin KeysOf(Document(doc[q]), call[q].env.vm)
        BY ListedAreKeys
      <4>2. QED
        BY <2>3, <3>1, <4>1 DEF Signed
    <3>2. CASE call[q].env.mandate # NoKey
      <4>1. call[q].env.mandate \in Usable
        BY <1>4, <3>2, FlightsAreUsable
      <4>2. Minted(call[q].env.mandate).grantee.key # NoKey
        BY <4>1 DEF Usable, Minted, CreateMandate
      <4>3. QED
        BY <2>3, <3>2, <4>2 DEF Signed
    <3>3. QED
      BY <3>1, <3>2
  <2>5. QED
    BY <1>4, <2>4 DEF FlightsAreIntact
<1>5. GateInv /\ FlightsAreIntact /\ [Next]_vars =>
        [\A q \in Requests :
           LET c == call[q] IN
           at[q] = "commit" /\ c.env.nonce \in {x.nonce : x \in nonces' \ nonces} /\ at'[q] # at[q] =>
              /\ c.env.wellFormed /\ c.env.signature # NoKey
              /\ c.env.aud.host # "other"
              /\ c.env.method = c.method /\ c.env.params = c.params]_vars
  BY <1>4
<1>6. QED
  BY <1>1, <1>2, <1>3, <1>5, GateInit, PTL DEF Spec, OnlySignedIsSpent

-----------------------------------------------------------------------------
(* What the caches hold *)

\* Times are numbers, and no clock is so slow that an empty entry, which is kept as one
\* that expired at instant 0, would be taken for one that lasts.
TimesFit ==
    /\ MaxTtl \in Int /\ DocTtl \in Int /\ NoDocTtl \in Int
    /\ \A i \in Instances : Lag[i] + NoDocTtl >= 0

Results == {"ran", "bad_envelope", "stale", "bad_signature", "scope", "mandate", "revoked",
            "replay", "wrong_sphere", "unavailable", "lost"}

CallsOK ==
    /\ DOMAIN call = Requests
    /\ \A q \in Requests : /\ call[q] # NoCall \/ InFlight(q) => call[q].env \in Envelope
                           /\ at[q] # "done" => answer[q] = "none"

\* A document that was found is dropped DocTtl later, whatever the owner does.
FoundIsAged ==
    /\ DOMAIN cache = Instances
    /\ \A i \in Instances : cache[i].doc # NotFound => cache[i].expires <= now + Lag[i] + DocTtl
    /\ identity.since <= now

SoundInv == TypeOK /\ CallsOK /\ FoundIsAged /\ StalenessIsBounded

LEMMA TypesSuffice == TypeOK /\ CallsOK => GateTypeOK
<1> SUFFICES ASSUME TypeOK, CallsOK PROVE GateTypeOK
  OBVIOUS
<1>1. plan \in Plans /\ pds \in Services /\ now \in Nat
  BY PlansAssumption DEF TypeOK
<1>2. DOMAIN answer = Requests /\ at \in [Requests -> Steps]
  BY DEF TypeOK, Steps
<1>3. QED
  BY <1>1, <1>2 DEF CallsOK, GateTypeOK

LEMMA FreshIsTyped ==
    ASSUME TypeOK, TimesFit, NEW q \in Requests, NEW e \in FreshEnvelopes(q)
    PROVE  e \in Envelope
<1>1. /\ now \in Int /\ plan.ttls \subseteq Int
      /\ plan.drifts \subseteq Int /\ plan.stamps \subseteq Int
      /\ plan.methods \subseteq Actions /\ plan.signers \subseteq Signers
  <2>1. plan \in Plans /\ now \in 0..plan.until
    BY DEF TypeOK
  <2>2. /\ plan.until \in Nat /\ plan.ttls \subseteq Nat
        /\ plan.drifts \subseteq Int /\ plan.stamps \subseteq Int
        /\ plan.signers \subseteq {"root", "data", "public", "circle", "self"}
        /\ plan.methods \subseteq Actions
    BY <2>1, PlansAssumption DEF Actions
  <2>3. now \in Int /\ plan.ttls \subseteq Int /\ plan.drifts \subseteq Int
    BY <2>1, <2>2
  <2>4. plan.signers \subseteq Signers
    BY <2>2 DEF Signers, Spheres
  <2>5. QED
    BY <2>2, <2>3, <2>4
<1>2. [host |-> "origin", slash |-> TRUE, upper |-> TRUE] \in Aud
  BY DEF Aud, Hosts
<1>3. ASSUME NEW clock \in Int, NEW created \in Int, NEW ttl \in Int, NEW s,
             NEW m \in Usable \cup {NoKey}, NEW method \in Actions,
             s.vm \in [did: {Owner}, fragment: Signers] \cup {ArgsOf[k].grantee.key : k \in Usable},
             s.key \in [sphere: Signers, version: 1..2]
                          \cup {ArgsOf[k].grantee.key : k \in Usable}
      PROVE  BuildEnvelope(q, clock, created, ttl, s, m, method) \in Envelope
  BY <1>2, <1>3 DEF BuildEnvelope, Envelope
<1>4. ASSUME NEW s \in OwnerSigners
      PROVE  /\ s.vm \in [did: {Owner}, fragment: Signers]
             /\ s.key \in [sphere: Signers, version: 1..2]
  <2>1. PICK x \in plan.signers : s = [vm |-> Method(Owner, x), key |-> OwnerKey(x, identity)]
    BY DEF OwnerSigners
  <2>2. x \in Signers /\ identity.version \in 1..2
    BY <1>1 DEF TypeOK
  <2>3. OwnerKey(x, identity) \in [sphere: Signers, version: 1..2]
    BY <2>2 DEF OwnerKey, Key
  <2>4. Method(Owner, x) \in [did: {Owner}, fragment: Signers]
    BY <2>2 DEF Method
  <2>5. QED
    BY <2>1, <2>3, <2>4
<1>5. ASSUME NEW m \in Usable
      PROVE  /\ DelegateSigner(m).vm \in {ArgsOf[k].grantee.key : k \in Usable}
             /\ DelegateSigner(m).key \in {ArgsOf[k].grantee.key : k \in Usable}
  BY DEF DelegateSigner
<1>6. CASE \E ttl \in plan.ttls, s \in OwnerSigners :
              e = BuildEnvelope(q, now, now, ttl, s, NoKey, "write")
  <2>1. PICK ttl \in plan.ttls, s \in OwnerSigners :
              e = BuildEnvelope(q, now, now, ttl, s, NoKey, "write")
    BY <1>6
  <2>2. now \in Int /\ ttl \in Int /\ "write" \in Actions
    BY <1>1 DEF Actions
  <2>3. BuildEnvelope(q, now, now, ttl, s, NoKey, "write") \in Envelope
    BY <1>3, <1>4, <2>2
  <2>4. QED
    BY <2>1, <2>3
<1>7. CASE \E d \in plan.drifts : \E created \in plan.stamps \cup {now + d},
                 method \in plan.methods, m \in Usable :
              e = BuildEnvelope(q, now + d, created, MaxTtl, DelegateSigner(m), m, method)
  <2>1. PICK d \in plan.drifts : \E created \in plan.stamps \cup {now + d},
                 method \in plan.methods, m \in Usable :
              e = BuildEnvelope(q, now + d, created, MaxTtl, DelegateSigner(m), m, method)
    BY <1>7
  <2>4. PICK created \in plan.stamps \cup {now + d}, method \in plan.methods, m \in Usable :
              e = BuildEnvelope(q, now + d, created, MaxTtl, DelegateSigner(m), m, method)
    BY <2>1
  <2>2. now + d \in Int /\ created \in Int /\ MaxTtl \in Int /\ method \in Actions
    BY <1>1 DEF TimesFit
  <2>3. QED
    BY <1>3, <1>5, <2>2, <2>4
<1>8. QED
  BY <1>6, <1>7 DEF FreshEnvelopes

\* What arrives is an envelope, damaged or not.
LEMMA SentIsTyped ==
    ASSUME TypeOK, CallsOK, TimesFit, NEW q \in Requests, NEW a \in Sendable(q)
    PROVE  a.env \in Envelope
<1> DEFINE old == {call[p].env : p \in {r \in Requests : plan.again /\ call[r] # NoCall}}
<1>1. ASSUME NEW e \in old \cup FreshEnvelopes(q) PROVE e \in Envelope
  BY FreshIsTyped DEF CallsOK
<1>2. ASSUME NEW e \in Envelope, NEW b \in Slips(e) PROVE b.env \in Envelope
  <2>1. [e EXCEPT !.aud.host = "other"] \in Envelope
    <3>1. e.aud \in Aud
      BY DEF Envelope
    <3>2. [e.aud EXCEPT !.host = "other"] \in Aud
      BY <3>1 DEF Aud
    <3>3. QED
      BY <3>2 DEF Envelope
  <2>2. [e EXCEPT !.wellFormed = FALSE] \in Envelope
    BY DEF Envelope
  <2>3. [e EXCEPT !.signature = NoKey] \in Envelope
    BY DEF Envelope
  <2>4. PICK f, method, params : b = Arrival(f, method, params) /\ f \in Envelope
    BY <2>1, <2>2, <2>3, Zenon DEF Slips
  <2>5. QED
    BY <2>4 DEF Arrival
<1>3. PICK e \in old \cup FreshEnvelopes(q) : a = Arrival(e, e.method, e.params) \/ a \in Slips(e)
  BY DEF Sendable
<1>4. QED
  BY <1>1, <1>2, <1>3 DEF Arrival

\* The answer to a request in flight, or to one that does not get further.
LEMMA AnswerKeepsTypes ==
    ASSUME TypeOK, CallsOK, NEW q \in Requests, NEW result \in Results, Answer(q, result),
           InFlight(q) \/ result \in Dropped,
           UNCHANGED <<plan, now, pds, identity, changes, revoked, replicated>>,
           \A i \in Instances : cache'[i].expires \in Int,
           \A x \in nonces' : x.nonce \in Requests /\ x.until \in Int
    PROVE  TypeOK' /\ CallsOK'
<1>1. GateTypeOK
  BY TypesSuffice
<1>2. /\ DOMAIN call' = Requests /\ DOMAIN answer' = Requests
      /\ at'[q] = "done" /\ answer'[q] = result
      /\ result \in Dropped => call'[q] = NoCall
      /\ result \notin Dropped => call'[q].env = call[q].env
      /\ \A p \in Requests : p # q => /\ at'[p] = at[p] /\ call'[p] = call[p]
                                     /\ answer'[p] = answer[p]
  BY <1>1, AnswerIs
<1>3. /\ at' \in [Requests -> {"idle", "resolve", "revocation", "commit", "done"}]
      /\ answer' \in [Requests -> Results \cup {"none"}]
  BY DEF Answer, TypeOK, Results
<1>4. call'[q].env \in Envelope \cup {NoKey} /\ (call'[q] # NoCall => call'[q].env \in Envelope)
  BY <1>2 DEF CallsOK, NoCall
<1>5. TypeOK'
  BY <1>2, <1>3, <1>4 DEF TypeOK, Results
<1>6. CallsOK'
  BY <1>2, <1>4 DEF CallsOK
<1>7. QED
  BY <1>5, <1>6

LEMMA GotoKeepsTypes ==
    ASSUME TypeOK, CallsOK, NEW q \in Requests, NEW step \in {"revocation", "commit"},
           InFlight(q), Goto(q, step),
           UNCHANGED <<plan, now, pds, identity, changes, revoked, replicated, nonces>>,
           \A i \in Instances : cache'[i].expires \in Int
    PROVE  TypeOK' /\ CallsOK'
<1>1. /\ at' \in [Requests -> {"idle", "resolve", "revocation", "commit", "done"}]
      /\ answer' = answer /\ call' = call
      /\ at'[q] = step /\ \A p \in Requests : p # q => at'[p] = at[p]
  BY DEF Goto, TypeOK
<1>2. TypeOK'
  BY <1>1 DEF TypeOK
<1>3. CallsOK'
  BY <1>1 DEF CallsOK
<1>4. QED
  BY <1>2, <1>3

LEMMA JudgeKeepsTypes ==
    ASSUME TypeOK, CallsOK, NEW q \in Requests, InFlight(q), NEW d, Judge(q, d),
           UNCHANGED <<plan, now, pds, identity, changes, revoked, replicated, nonces>>,
           \A i \in Instances : cache'[i].expires \in Int
    PROVE  TypeOK' /\ CallsOK'
<1> DEFINE error == SignerError(call[q].env, Document(d))
<1>1. error \in {"none", "bad_signature", "scope", "mandate"}
  BY DEF SignerError, OwnerError, DelegateError
<1>2. CASE error # "none"
  <2>1. Answer(q, error) /\ error \in Results
    BY <1>1, <1>2 DEF Judge, Results
  <2>2. \A x \in nonces' : x.nonce \in Requests /\ x.until \in Int
    BY DEF TypeOK
  <2>3. QED
    BY <2>1, <2>2, AnswerKeepsTypes
<1>3. CASE error = "none"
  <2>1. PICK step \in {"revocation", "commit"} : Goto(q, step)
    BY <1>3 DEF Judge
  <2>2. QED
    BY <2>1, GotoKeepsTypes
<1>4. QED
  BY <1>2, <1>3

\* A request arrives.
LEMMA ReceiveKeepsTypes ==
    ASSUME TypeOK, CallsOK, TimesFit, NEW q \in Requests, Receive(q)
    PROVE  TypeOK' /\ CallsOK'
<1>1. PICK i \in Instances, a \in Sendable(q) :
         /\ \/ /\ EnvelopeError(a, Clock(i)) = "none"
               /\ at' = [at EXCEPT ![q] = "resolve"]
               /\ UNCHANGED <<answer, doc>>
               /\ call' = [call EXCEPT ![q] =
                      [env |-> a.env, method |-> a.method, params |-> a.params, to |-> i,
                       since |-> now,
                       withdrawn |-> a.env.mandate # NoKey /\ Withdrawn(a.env.mandate)]]
            \/ /\ EnvelopeError(a, Clock(i)) # "none"
               /\ Answer(q, EnvelopeError(a, Clock(i)))
         /\ cache' = IF pds = "data" /\ a.env.mandate # NoKey
                     THEN [cache EXCEPT ![i] = [doc |-> NotFound, expires |-> 0]]
                     ELSE cache
  BY DEF Receive
<1>2. at[q] = "idle" /\ UNCHANGED <<plan, now, pds, identity, changes, revoked, replicated, nonces>>
  BY DEF Receive
<1>3. \A j \in Instances : cache'[j].expires \in Int
  <2>1. \A j \in Instances : cache[j].expires \in Int
    BY DEF TypeOK
  <2>2. CASE cache' = cache
    BY <2>1, <2>2
  <2>3. CASE cache' = [cache EXCEPT ![i] = [doc |-> NotFound, expires |-> 0]]
    BY <2>1, <2>3
  <2>4. QED
    BY <1>1, <2>2, <2>3
<1>4. CASE /\ EnvelopeError(a, Clock(i)) # "none"
           /\ Answer(q, EnvelopeError(a, Clock(i)))
  <2>1. EnvelopeError(a, Clock(i)) \in Dropped
    BY <1>4 DEF EnvelopeError, Dropped
  <2>2. EnvelopeError(a, Clock(i)) \in Results
    BY <2>1 DEF Dropped, Results
  <2>3. \A x \in nonces' : x.nonce \in Requests /\ x.until \in Int
    BY <1>2 DEF TypeOK
  <2>4. QED
    BY <1>2, <1>3, <1>4, <2>1, <2>2, <2>3, AnswerKeepsTypes
<1>5. CASE /\ at' = [at EXCEPT ![q] = "resolve"]
           /\ UNCHANGED <<answer, doc>>
           /\ call' = [call EXCEPT ![q] =
                  [env |-> a.env, method |-> a.method, params |-> a.params, to |-> i,
                   since |-> now,
                   withdrawn |-> a.env.mandate # NoKey /\ Withdrawn(a.env.mandate)]]
  <2>1. a.env \in Envelope
    BY SentIsTyped
  <2>2. /\ at' \in [Requests -> {"idle", "resolve", "revocation", "commit", "done"}]
        /\ at'[q] = "resolve" /\ \A p \in Requests : p # q => at'[p] = at[p]
    BY <1>5 DEF TypeOK
  <2>3. /\ DOMAIN call' = Requests /\ call'[q].env = a.env
        /\ \A p \in Requests : p # q => call'[p] = call[p]
    BY <1>5 DEF CallsOK
  <2>4. TypeOK'
    BY <1>2, <1>3, <1>5, <2>1, <2>2, <2>3 DEF TypeOK
  <2>5. CallsOK'
    BY <1>2, <1>5, <2>1, <2>2, <2>3 DEF CallsOK
  <2>6. QED
    BY <2>4, <2>5
<1>6. QED
  BY <1>1, <1>4, <1>5

LEMMA StepKeepsTypes ==
    ASSUME TypeOK, CallsOK, TimesFit, NEW q \in Requests, Step(q)
    PROVE  TypeOK' /\ CallsOK'
<1>1. /\ \A i \in Instances : cache[i].expires \in Int
      /\ \A x \in nonces : x.nonce \in Requests /\ x.until \in Int
  BY DEF TypeOK
<1>2. CASE ResolveCached(q)
  BY <1>1, <1>2, JudgeKeepsTypes DEF ResolveCached
<1>3. CASE Fetch(q)
  <2>1. PICK d : /\ Judge(q, d)
                 /\ cache' = Remember(call[q].to, d, Clock(call[q].to))
    BY <1>3 DEF Fetch
  <2>2. call[q].to \in Instances => Clock(call[q].to) \in Int
    BY PlansAssumption, LagAssumption DEF Clock, TypeOK
  <2>3. \A i \in Instances : cache'[i].expires \in Int
    BY <1>1, <2>1, <2>2 DEF Remember, TimesFit
  <2>4. QED
    BY <1>3, <2>1, <2>3, JudgeKeepsTypes DEF Fetch
<1>4. CASE LookUpRevocation(q)
  <2>1. CASE Answer(q, "revoked")
    BY <1>1, <1>4, <2>1, AnswerKeepsTypes DEF LookUpRevocation, Results
  <2>2. CASE Goto(q, "commit")
    BY <1>1, <1>4, <2>2, GotoKeepsTypes DEF LookUpRevocation
  <2>3. QED
    BY <1>4, <2>1, <2>2 DEF LookUpRevocation
<1>5. CASE Commit(q) \/ CommitFails(q) \/ Die(q)
  <2>1. InFlight(q) /\ call[q].env \in Envelope
    BY <1>5 DEF Commit, CommitFails, Die, CallsOK
  <2>2. PICK result \in Results : Answer(q, result)
    BY <1>5 DEF Commit, CommitFails, Die, LateError, Handled, Results
  <2>3. \A x \in nonces' : x.nonce \in Requests /\ x.until \in Int
    <3>1. KeptUntil(call[q].env) \in Int /\ call[q].env.nonce \in Requests
      BY <2>1, MarginAssumption DEF KeptUntil, Envelope, TypeOK
    <3>2. nonces' \subseteq nonces \cup
             {[nonce |-> call[q].env.nonce, until |-> KeptUntil(call[q].env)]}
      BY <1>5 DEF Commit, CommitFails, Die
    <3>3. QED
      BY <1>1, <3>1, <3>2
  <2>4. UNCHANGED <<plan, now, pds, identity, changes, revoked, replicated, cache>>
    BY <1>5 DEF Commit, CommitFails, Die
  <2>5. QED
    BY <1>1, <2>1, <2>2, <2>3, <2>4, AnswerKeepsTypes
<1>6. QED
  BY <1>2, <1>3, <1>4, <1>5, ReceiveKeepsTypes DEF Step

LEMMA WorldKeepsTypes ==
    ASSUME TypeOK, CallsOK, Tick \/ Expire \/ Change \/ Replicate \/ UNCHANGED vars
    PROVE  TypeOK' /\ CallsOK'
<1>1. plan \in Plans /\ plan.until \in Nat /\ plan.changes \in Nat /\ now \in 0..plan.until
  BY PlansAssumption DEF TypeOK
<1>2. UNCHANGED <<plan, pds, call, at, answer, cache>> /\ nonces' \subseteq nonces
  BY DEF Tick, Expire, Change, Replicate, vars
<1>3. now' \in 0..plan.until
  BY <1>1 DEF Tick, Expire, Change, Replicate, vars
<1>4. changes' \in 0..plan.changes
  BY <1>1 DEF Tick, Expire, Change, Replicate, vars, TypeOK
<1>5. revoked' \subseteq Usable /\ replicated' \subseteq revoked'
  BY DEF Tick, Expire, Change, Replicate, Publish, Rotate, Void, Revoke, vars, TypeOK
<1>6. identity' \in [version: 1..2, epoch: 0..plan.until \cup {NoKey}, published: BOOLEAN,
                     since: 0..plan.until]
  <2>1. identity \in [version: 1..2, epoch: 0..plan.until \cup {NoKey}, published: BOOLEAN,
                      since: 0..plan.until]
    BY DEF TypeOK
  <2>2. CASE Publish
    BY <1>1, <2>1, <2>2 DEF Publish
  <2>3. CASE Rotate
    <3>1. identity' = [version |-> 2, epoch |-> identity.epoch,
                       published |-> identity.published, since |-> now]
      BY <2>1, <2>3 DEF Rotate
    <3>2. QED
      BY <1>1, <2>1, <3>1
  <2>4. CASE Void
    BY <1>1, <2>1, <2>4 DEF Void
  <2>5. CASE identity' = identity
    BY <2>1, <2>5
  <2>6. QED
    BY <2>2, <2>3, <2>4, <2>5 DEF Tick, Expire, Change, Replicate, Revoke, vars
<1>7. TypeOK'
  BY <1>2, <1>3, <1>4, <1>5, <1>6 DEF TypeOK
<1>8. CallsOK'
  BY <1>2 DEF CallsOK
<1>9. QED
  BY <1>7, <1>8

\* An entry is kept, or forgotten, or filled with what the owner publishes now.
LEMMA EntriesAre ==
    ASSUME TypeOK, [Next]_vars, DOMAIN cache = Instances, NEW i \in Instances
    PROVE  /\ DOMAIN cache' = Instances
           /\ \/ cache'[i] = cache[i]
              \/ /\ cache'[i].doc = NotFound /\ cache'[i].expires = 0
                 /\ UNCHANGED <<now, identity>>
              \/ /\ cache'[i].doc = NotFound /\ cache'[i].expires = now + Lag[i] + NoDocTtl
                 /\ UNCHANGED <<now, identity>>
              \/ /\ cache'[i].doc = Found(identity) /\ cache'[i].expires = now + Lag[i] + DocTtl
                 /\ UNCHANGED <<now, identity>>
<1>1. CASE UNCHANGED cache
  BY <1>1
<1>2. ASSUME NEW q \in Requests, Receive(q)
      PROVE  /\ UNCHANGED <<now, identity>>
             /\ \/ UNCHANGED cache
                \/ \E j \in Instances :
                      cache' = [cache EXCEPT ![j] = [doc |-> NotFound, expires |-> 0]]
  BY <1>2 DEF Receive
<1>3. ASSUME NEW q \in Requests, Fetch(q)
      PROVE  /\ UNCHANGED <<now, identity>>
             /\ \E j, d : /\ d = NotFound \/ d = Found(identity)
                          /\ cache' = Remember(j, d, Clock(j))
  BY <1>3 DEF Fetch
<1>4. CASE \E q \in Requests : Receive(q)
  BY <1>2, <1>4
<1>5. CASE \E q \in Requests : Fetch(q)
  <2>1. PICK j, d : /\ d = NotFound \/ d = Found(identity)
                    /\ cache' = Remember(j, d, Clock(j))
                    /\ UNCHANGED <<now, identity>>
    BY <1>3, <1>5
  <2>2. NotFound.found = FALSE /\ Found(identity).found = TRUE
    BY DEF NotFound, Found
  <2>3. \/ cache'[i] = cache[i]
        \/ i = j /\ cache'[i].doc = d
                 /\ cache'[i].expires = Clock(i) + IF d.found THEN DocTtl ELSE NoDocTtl
    BY <2>1 DEF Remember
  <2>4. DOMAIN cache' = Instances
    BY <2>1 DEF Remember
  <2>5. CASE d = NotFound
    BY <2>1, <2>2, <2>3, <2>4, <2>5 DEF Clock
  <2>6. CASE d = Found(identity)
    BY <2>1, <2>2, <2>3, <2>4, <2>6 DEF Clock
  <2>7. QED
    BY <2>1, <2>5, <2>6
<1>6. UNCHANGED cache \/ \E q \in Requests : Receive(q) \/ Fetch(q)
  BY DEF Next, Step, Tick, Expire, Change, Replicate, vars, ResolveCached, LookUpRevocation, Commit,
         CommitFails, Die
<1>7. QED
  BY <1>1, <1>4, <1>5, <1>6

LEMMA NextKeepsSound == ASSUME TimesFit, SoundInv, [Next]_vars PROVE SoundInv'
<1>1. TypeOK' /\ CallsOK'
  BY StepKeepsTypes, WorldKeepsTypes DEF Next, SoundInv
<1>2. /\ now \in Nat /\ now' \in Nat /\ now <= now'
      /\ identity.since \in Nat /\ identity'.since \in Nat
  <2>1. /\ plan.until \in Nat /\ now \in 0..plan.until /\ identity.since \in 0..plan.until
        /\ plan'.until \in Nat /\ now' \in 0..plan'.until
        /\ identity'.since \in 0..plan'.until
    BY <1>1, PlansAssumption DEF SoundInv, TypeOK
  <2>2. now' = now \/ now' = now + 1
    BY DEF Next, Tick, Expire, Change, Replicate, vars, Step, Receive, ResolveCached, Fetch,
           LookUpRevocation, Commit, CommitFails, Die
  <2>3. QED
    BY <2>1, <2>2
<1>3. identity' = identity \/ (identity'.since = now /\ now' = now)
  <2>1. CASE Change
    <3>1. identity \in [version: 1..2, epoch: 0..plan.until \cup {NoKey}, published: BOOLEAN,
                        since: 0..plan.until]
      BY DEF SoundInv, TypeOK
    <3>2. QED
      BY <2>1, <3>1 DEF Change, Publish, Rotate, Void, Revoke
  <2>2. CASE ~Change
    BY <2>2 DEF Next, Tick, Expire, Replicate, vars, Step, Receive, ResolveCached, Fetch,
                LookUpRevocation, Commit, CommitFails, Die
  <2>3. QED
    BY <2>1, <2>2
<1>4. \A i \in Instances : Lag[i] \in Int /\ cache[i].expires \in Int
  BY LagAssumption DEF SoundInv, TypeOK
<1>5. ASSUME NEW i \in Instances, cache'[i].doc # NotFound
      PROVE  cache'[i].expires <= now' + Lag[i] + DocTtl
  BY <1>2, <1>4, <1>5, EntriesAre DEF SoundInv, FoundIsAged, TimesFit
<1>6. ASSUME NEW i \in Instances, ~cache'[i].doc.found
      PROVE  cache'[i].expires <= now' + Lag[i] + NoDocTtl
  <2>1. Found(identity).found = TRUE
    BY DEF Found
  <2>2. CASE cache'[i] = cache[i]
    <3>1. cache[i].expires <= now + Lag[i] + NoDocTtl
      BY <1>6, <2>2 DEF SoundInv, StalenessIsBounded
    <3>2. QED
      BY <1>2, <1>4, <2>2, <3>1 DEF TimesFit
  <2>3. CASE cache'[i].expires = 0
    BY <1>2, <1>4, <2>3 DEF TimesFit
  <2>4. CASE cache'[i].expires = now + Lag[i] + NoDocTtl
    BY <1>2, <1>4, <2>4 DEF TimesFit
  <2>5. QED
    BY <1>6, <2>1, <2>2, <2>3, <2>4, EntriesAre DEF SoundInv, FoundIsAged
<1>7. ASSUME NEW i \in Instances, cache'[i].doc \notin {NotFound, Found(identity')}
      PROVE  cache'[i].expires <= identity'.since + Lag[i] + DocTtl
  <2>1. cache'[i] = cache[i]
    BY <1>7, EntriesAre DEF SoundInv, FoundIsAged
  <2>2. CASE identity' = identity
    BY <1>7, <2>1, <2>2 DEF SoundInv, StalenessIsBounded
  <2>3. CASE identity'.since = now
    BY <1>7, <2>1, <2>3 DEF SoundInv, FoundIsAged
  <2>4. QED
    BY <1>3, <2>2, <2>3
<1>8. StalenessIsBounded'
  BY <1>6, <1>7 DEF StalenessIsBounded
<1>9. identity'.since <= now'
  BY <1>2, <1>3 DEF SoundInv, FoundIsAged
<1>10. DOMAIN cache' = Instances
  <2>1. CASE Instances = {}
    BY <2>1, EntriesAre DEF Next, Step, Tick, Expire, Change, Replicate, vars, ResolveCached, Fetch,
       Receive, LookUpRevocation, Commit, CommitFails, Die, Remember, SoundInv, FoundIsAged
  <2>2. CASE Instances # {}
    BY <2>2, EntriesAre DEF SoundInv, FoundIsAged
  <2>3. QED
    BY <2>1, <2>2
<1>11. FoundIsAged'
  BY <1>5, <1>9, <1>10 DEF FoundIsAged
<1>12. QED
  BY <1>1, <1>8, <1>11 DEF SoundInv

LEMMA SoundInit == TimesFit /\ Init => SoundInv
<1> SUFFICES ASSUME TimesFit, Init PROVE SoundInv
  OBVIOUS
<1>1. plan \in Plans /\ plan.until \in Nat /\ plan.changes \in Nat
  BY PlansAssumption DEF Init
<1>2. identity \in [version: 1..2, epoch: 0..plan.until \cup {NoKey}, published: BOOLEAN,
                    since: 0..plan.until] /\ identity.since = 0
  <2>1. CASE identity = Published
    BY <1>1, <2>1 DEF Published
  <2>2. CASE identity = Unpublished
    <3>1. identity = [version |-> 1, epoch |-> NoKey, published |-> FALSE, since |-> 0]
      BY <2>2 DEF Unpublished, Published
    <3>2. QED
      BY <1>1, <3>1
  <2>3. QED
    BY <2>1, <2>2 DEF Init
<1>3. TypeOK
  BY <1>1, <1>2 DEF Init, TypeOK, NoCall
<1>4. CallsOK
  BY DEF Init, CallsOK
<1>5. FoundIsAged
  BY <1>2 DEF Init, FoundIsAged
<1>6. StalenessIsBounded
  <2>1. \A i \in Instances : 0 <= now + Lag[i] + NoDocTtl
    BY LagAssumption DEF Init, TimesFit
  <2>2. QED
    BY <2>1 DEF Init, StalenessIsBounded
<1>7. QED
  BY <1>3, <1>4, <1>5, <1>6 DEF SoundInv

\* What an instance has cached is what the owner publishes now, or published less than
\* DocTtl ago; that it publishes nothing is believed for NoDocTtl.
THEOREM CachesStaySound == TimesFit => (Spec => []CachesAreSound)
<1> SUFFICES ASSUME TimesFit PROVE Spec => []CachesAreSound
  OBVIOUS
<1>1. SoundInv /\ [Next]_vars => SoundInv'
  BY NextKeepsSound
<1>2. Init => SoundInv
  BY SoundInit
<1>3. SoundInv => CachesAreSound
  BY DEF SoundInv, CachesAreSound
<1>4. QED
  BY <1>1, <1>2, <1>3, PTL DEF Spec
=============================================================================
