---------------------------- MODULE AssetStoreProofs ----------------------------
(***************************************************************************)
(* Theorems about the assets PDS, for any numbers of assets, references    *)
(* and requests, any sizes and any quota.                                  *)
(*                                                                         *)
(* AssetsInv relates the table, its replica and what handlers have read to *)
(* the log; QuotaInv says what the counter covers between a reservation    *)
(* and the row it is for, DriftInv what it may have too much; CalmInv is   *)
(* about requests that come one at a time, and BytesInv about who can have *)
(* deleted the bytes of a stored asset.  The bytes of a set are a fold, so *)
(* the first section shows that there is one sum and how it grows.         *)
(***************************************************************************)
EXTENDS AssetStore, FiniteSetTheorems, WellFoundedInduction, TLAPS

-----------------------------------------------------------------------------
(* The bytes of a set *)

Pick(s) == CHOOSE x \in s : TRUE

\* f gives the bytes of every subset of S.
Totals(w, f, S) ==
    f = [s \in SUBSET S |-> IF s = {} THEN 0 ELSE w[Pick(s)] + f[s \ {Pick(s)}]]

\* Of some sets, one is the smallest.
LEMMA SmallestExists ==
    ASSUME NEW D, IsFiniteSet(D),
           NEW C \in SUBSET SUBSET D, C # {}
    PROVE  \E s \in C : \A t \in C : Cardinality(s) <= Cardinality(t)
<1> DEFINE T == {Cardinality(s) : s \in C}
           R == {ss \in Nat \X Nat : ss[1] < ss[2]}
<1>1. IsWellFoundedOn(R, Nat)
  BY NatLessThanWellFounded DEF OpToRel
<1>2. \A s \in C : Cardinality(s) \in Nat
  BY FS_Subset, FS_CardinalityType
<1>3. T \subseteq Nat /\ T # {}
  BY <1>2
<1>4. PICK n \in T : \A m \in T : ~(<<m, n>> \in R)
  <2> HIDE DEF T, R
  <2>1. QED
    BY <1>1, <1>3, WFMin
<1>5. PICK s \in C : n = Cardinality(s)
  BY <1>4
<1>6. ASSUME NEW t \in C PROVE Cardinality(s) <= Cardinality(t)
  <2>1. Cardinality(t) \in T
    OBVIOUS
  <2>2. ~(Cardinality(t) < n)
    BY <1>3, <1>4, <2>1
  <2>3. QED
    BY <1>2, <1>5, <2>2
<1>7. QED
  BY <1>6

LEMMA RemoveOne ==
    ASSUME NEW D, IsFiniteSet(D),
           NEW s \in SUBSET D, NEW x \in s
    PROVE  /\ s \ {x} \in SUBSET D
           /\ Cardinality(s) \in Nat /\ Cardinality(s \ {x}) \in Nat
           /\ Cardinality(s \ {x}) = Cardinality(s) - 1
<1>1. IsFiniteSet(s) /\ IsFiniteSet(s \ {x})
  BY FS_Subset
<1>2. Cardinality(s) \in Nat /\ Cardinality(s \ {x}) \in Nat
  BY <1>1, FS_CardinalityType
<1>3. Cardinality(s \ {x}) = Cardinality(s) - 1
  BY <1>1, FS_RemoveElement
<1>4. QED
  BY <1>2, <1>3

\* Taking out the element that a sum starts with.
LEMMA PickIs ==
    ASSUME NEW D, IsFiniteSet(D), NEW w \in [D -> Nat],
           NEW s \in SUBSET D, s # {}
    PROVE  /\ Pick(s) \in s /\ w[Pick(s)] \in Nat
           /\ s \ {Pick(s)} \in SUBSET D
           /\ Cardinality(s) \in Nat /\ Cardinality(s \ {Pick(s)}) \in Nat
           /\ Cardinality(s \ {Pick(s)}) = Cardinality(s) - 1
<1>1. Pick(s) \in s /\ w[Pick(s)] \in Nat
  BY DEF Pick
<1>2. /\ s \ {Pick(s)} \in SUBSET D
      /\ Cardinality(s) \in Nat /\ Cardinality(s \ {Pick(s)}) \in Nat
      /\ Cardinality(s \ {Pick(s)}) = Cardinality(s) - 1
  BY <1>1, RemoveOne
<1>3. QED
  BY <1>1, <1>2

LEMMA TotalsExist ==
    ASSUME NEW D, IsFiniteSet(D), NEW w \in [D -> Nat],
           NEW S \in SUBSET D
    PROVE  \E f \in [SUBSET S -> Nat] : Totals(w, f, S)
<1> DEFINE UpTo(n) == {s \in SUBSET S : Cardinality(s) <= n}
           Sum(f, s) == IF s = {} THEN 0 ELSE w[Pick(s)] + f[s \ {Pick(s)}]
           Good(n) == \E f \in [UpTo(n) -> Nat] : \A s \in UpTo(n) : f[s] = Sum(f, s)
           R == {ss \in Nat \X Nat : ss[1] < ss[2]}
           Bad == {n \in Nat : ~Good(n)}
<1>1. IsWellFoundedOn(R, Nat)
  BY NatLessThanWellFounded DEF OpToRel
<1>2. \A s \in SUBSET S : Cardinality(s) \in Nat /\ (Cardinality(s) = 0 <=> s = {})
  BY FS_Subset, FS_CardinalityType, FS_EmptySet
<1>3. Good(0)
  <2> DEFINE f == [s \in UpTo(0) |-> 0]
  <2>1. \A s \in UpTo(0) : s = {}
    BY <1>2
  <2>2. f \in [UpTo(0) -> Nat] /\ \A s \in UpTo(0) : f[s] = Sum(f, s)
    BY <2>1
  <2>3. QED
    BY <2>2
<1>4. ASSUME NEW n \in Nat, Good(n) PROVE Good(n + 1)
  <2>1. PICK f \in [UpTo(n) -> Nat] : \A s \in UpTo(n) : f[s] = Sum(f, s)
    BY <1>4
  <2> DEFINE g == [s \in UpTo(n + 1) |-> Sum(f, s)]
  <2>2. ASSUME NEW s \in UpTo(n + 1), s # {}
        PROVE  s \ {Pick(s)} \in UpTo(n) /\ w[Pick(s)] \in Nat
    BY <2>2, PickIs
  <2>3. \A s \in UpTo(n) : s \in UpTo(n + 1) /\ g[s] = f[s]
    BY <1>2, <2>1
  <2>4. \A s \in UpTo(n + 1) : g[s] \in Nat
    BY <2>1, <2>2
  <2>5. ASSUME NEW s \in UpTo(n + 1) PROVE g[s] = Sum(g, s)
    BY <2>2, <2>3
  <2>6. g \in [UpTo(n + 1) -> Nat]
    BY <2>4
  <2> HIDE DEF g
  <2>7. QED
    BY <2>5, <2>6
<1>5. Bad = {}
  <2> SUFFICES ASSUME Bad # {} PROVE FALSE
    OBVIOUS
  <2>1. PICK n \in Bad : \A m \in Bad : ~(<<m, n>> \in R)
    <3>1. Bad \subseteq Nat
      OBVIOUS
    <3> HIDE DEF Bad, R
    <3>2. QED
      BY <1>1, <3>1, WFMin
  <2>2. n \in Nat /\ n # 0 /\ n - 1 \in Nat /\ ~Good(n)
    <3>1. n \in Nat /\ ~Good(n)
      BY <2>1
    <3> HIDE DEF Good
    <3>2. QED
      BY <1>3, <3>1
  <2>3. Good(n - 1)
    <3> HIDE DEF Good
    <3>1. <<n - 1, n>> \in R
      BY <2>2
    <3>2. n - 1 \notin Bad
      <4> HIDE DEF R, Bad
      <4>1. QED
        BY <2>1, <3>1
    <3>3. QED
      BY <2>2, <3>2
  <2> HIDE DEF Good
  <2>4. Good((n - 1) + 1)
    BY <1>4, <2>2, <2>3
  <2>5. QED
    BY <2>2, <2>4
<1>6. Good(Cardinality(S))
  BY <1>2, <1>5
<1>7. UpTo(Cardinality(S)) = SUBSET S
  <2>1. IsFiniteSet(S)
    BY FS_Subset
  <2>2. \A s \in SUBSET S : Cardinality(s) <= Cardinality(S)
    BY <2>1, FS_Subset
  <2>3. QED
    BY <2>2
<1>8. PICK f \in [SUBSET S -> Nat] : \A s \in SUBSET S : f[s] = Sum(f, s)
  BY <1>6, <1>7
<1>9. QED
  BY <1>8 DEF Totals

\* A sum does not depend on the set it is taken in, nor on the bytes of others.
LEMMA TotalsAgree ==
    ASSUME NEW D, IsFiniteSet(D), NEW w \in [D -> Nat], NEW v \in [D -> Nat],
           NEW S \in SUBSET D, NEW T \in SUBSET S, NEW f, NEW g,
           Totals(w, f, S), Totals(v, g, T), \A x \in T : w[x] = v[x]
    PROVE  \A s \in SUBSET T : f[s] = g[s]
<1> DEFINE C == {s \in SUBSET T : f[s] # g[s]}
<1> SUFFICES ASSUME C # {} PROVE FALSE
  OBVIOUS
<1>1. PICK s \in C : \A t \in C : Cardinality(s) <= Cardinality(t)
  <2>1. C \in SUBSET SUBSET D
    OBVIOUS
  <2> HIDE DEF C
  <2>2. QED
    BY <2>1, SmallestExists
<1>2. s # {}
  BY <1>1 DEF Totals
<1>3. f[s \ {Pick(s)}] = g[s \ {Pick(s)}]
  BY <1>1, <1>2, PickIs
<1>4. w[Pick(s)] = v[Pick(s)]
  BY <1>1, <1>2, PickIs
<1>5. /\ f[s] = w[Pick(s)] + f[s \ {Pick(s)}]
      /\ g[s] = v[Pick(s)] + g[s \ {Pick(s)}]
  BY <1>1, <1>2 DEF Totals
<1>6. QED
  BY <1>1, <1>3, <1>4, <1>5

LEMMA BytesAreTotals ==
    ASSUME NEW D, IsFiniteSet(D), NEW w \in [D -> Nat], NEW S \in SUBSET D
    PROVE  \E f : Totals(w, f, S) /\ BytesOf(w, S) = f[S]
<1>1. \E f : Totals(w, f, S)
  BY TotalsExist
<1>2. BytesOf(w, S) = (CHOOSE f : Totals(w, f, S))[S]
  BY DEF BytesOf, MapThenSumSet, MapThenFoldSet, Totals, Pick
<1>3. QED
  BY <1>1, <1>2

\* What a sum is built from.
LEMMA BytesAre ==
    ASSUME NEW D, IsFiniteSet(D), NEW w \in [D -> Nat],
           NEW S \in SUBSET D
    PROVE  /\ BytesOf(w, S) \in Nat
           /\ S = {} => BytesOf(w, S) = 0
           /\ S # {} => BytesOf(w, S) = w[Pick(S)] + BytesOf(w, S \ {Pick(S)})
<1>1. \A T \in SUBSET D : \E f : Totals(w, f, T) /\ BytesOf(w, T) = f[T]
  BY BytesAreTotals
<1>2. PICK f : Totals(w, f, S) /\ BytesOf(w, S) = f[S]
  BY <1>1
<1>3. PICK g \in [SUBSET S -> Nat] : Totals(w, g, S)
  BY TotalsExist
<1>4. BytesOf(w, S) = g[S]
  <2>1. \A s \in SUBSET S : f[s] = g[s]
    <3>1. PICK v \in [D -> Nat] : v = w
      OBVIOUS
    <3>2. S \in SUBSET S /\ \A x \in S : w[x] = v[x]
      BY <3>1
    <3>3. Totals(w, f, S) /\ Totals(v, g, S)
      BY <1>2, <1>3, <3>1
    <3>4. QED
      BY <3>2, <3>3, TotalsAgree
  <2>2. QED
    BY <1>2, <2>1
<1>5. S = {} => f[S] = 0
  BY <1>2 DEF Totals
<1>6. ASSUME S # {}
      PROVE  BytesOf(w, S) = w[Pick(S)] + BytesOf(w, S \ {Pick(S)})
  <2>1. S \ {Pick(S)} \in SUBSET S
    OBVIOUS
  <2>2. PICK h : Totals(w, h, S \ {Pick(S)}) /\ BytesOf(w, S \ {Pick(S)}) = h[S \ {Pick(S)}]
    BY <1>1, <2>1
  <2> DEFINE r == S \ {Pick(S)}
  <2>3. f[S \ {Pick(S)}] = h[S \ {Pick(S)}]
    <3>1. r \in SUBSET S /\ Totals(w, h, r)
      BY <2>1, <2>2
    <3> HIDE DEF r
    <3>2. \A s \in SUBSET r : f[s] = h[s]
      BY <1>2, <3>1, TotalsAgree
    <3>3. QED
      BY <3>2 DEF r
  <2>4. f[S] = w[Pick(S)] + f[S \ {Pick(S)}]
    BY <1>2, <1>6 DEF Totals
  <2>5. QED
    BY <1>2, <2>2, <2>3, <2>4
<1>7. g[S] \in Nat
  BY <1>3
<1>8. QED
  BY <1>2, <1>4, <1>5, <1>6, <1>7

\* One more element, and no fewer elements.
LEMMA BytesAdd ==
    ASSUME NEW D, IsFiniteSet(D), NEW w \in [D -> Nat],
           NEW S \in SUBSET D, NEW a \in D \ S
    PROVE  BytesOf(w, S \cup {a}) = BytesOf(w, S) + w[a]
<1> DEFINE C == {s \in SUBSET D :
                    \E x \in D \ s : BytesOf(w, s \cup {x}) # BytesOf(w, s) + w[x]}
<1> SUFFICES ASSUME C # {} PROVE FALSE
  OBVIOUS
<1>1. PICK s \in C : \A t \in C : Cardinality(s) <= Cardinality(t)
  <2>1. C \in SUBSET SUBSET D
    OBVIOUS
  <2> HIDE DEF C
  <2>2. QED
    BY <2>1, SmallestExists
<1>2. PICK x \in D \ s : BytesOf(w, s \cup {x}) # BytesOf(w, s) + w[x]
  BY <1>1
<1> DEFINE u == s \cup {x}
           p == Pick(u)
<1>3. s \in SUBSET D /\ u \in SUBSET D /\ u # {} /\ p \in u /\ w[p] \in Nat
  <2>1. s \in SUBSET D /\ u \in SUBSET D /\ u # {}
    BY <1>1, <1>2
  <2> HIDE DEF u
  <2>2. QED
    BY <2>1, PickIs
<1>4. BytesOf(w, u) = w[p] + BytesOf(w, u \ {p})
  <2>1. u \in SUBSET D /\ u # {}
    BY <1>3
  <2> HIDE DEF u
  <2>2. QED
    BY <2>1, BytesAre
<1>5. w[x] \in Nat /\ BytesOf(w, s) \in Nat
  BY <1>2, <1>3, BytesAre
<1> HIDE DEF p
<1>6. CASE p = x
  <2>1. u \ {p} = s
    BY <1>2, <1>6
  <2> HIDE DEF u
  <2>2. BytesOf(w, u \ {p}) = BytesOf(w, s)
    BY <2>1
  <2>3. BytesOf(w, u) = BytesOf(w, s) + w[x]
    BY <1>4, <1>5, <1>6, <2>2
  <2>4. QED
    BY <1>2, <2>3 DEF u
<1>7. CASE p # x
  <2> DEFINE t == s \ {p}
  <2>1. p \in s /\ p \in D \ t /\ x \in D \ t /\ t \in SUBSET D
    BY <1>2, <1>3, <1>7
  <2>2. u \ {p} = t \cup {x} /\ s = t \cup {p}
    BY <1>7, <2>1
  <2>3. Cardinality(t) < Cardinality(s) /\ Cardinality(t) \in Nat /\ Cardinality(s) \in Nat
    BY <1>3, <2>1, RemoveOne
  <2>4. t \notin C
    <3> HIDE DEF C, t
    <3>1. QED
      BY <1>1, <2>3
  <2>5. /\ BytesOf(w, t \cup {x}) = BytesOf(w, t) + w[x]
        /\ BytesOf(w, t \cup {p}) = BytesOf(w, t) + w[p]
    BY <2>1, <2>4
  <2>6. BytesOf(w, t) \in Nat
    BY <2>1, BytesAre
  <2> HIDE DEF t, u
  <2>7. BytesOf(w, u \ {p}) = BytesOf(w, t) + w[x] /\ BytesOf(w, s) = BytesOf(w, t) + w[p]
    BY <2>2, <2>5
  <2>8. BytesOf(w, u) = BytesOf(w, s) + w[x]
    BY <1>3, <1>4, <1>5, <2>6, <2>7
  <2>9. QED
    BY <1>2, <2>8 DEF u
<1>8. QED
  BY <1>6, <1>7

LEMMA BytesGrow ==
    ASSUME NEW D, IsFiniteSet(D), NEW w \in [D -> Nat],
           NEW T \in SUBSET D, NEW S \in SUBSET T
    PROVE  BytesOf(w, S) <= BytesOf(w, T)
<1> DEFINE C == {t \in SUBSET D : S \subseteq t /\ ~(BytesOf(w, S) <= BytesOf(w, t))}
<1> SUFFICES ASSUME C # {} PROVE FALSE
  OBVIOUS
<1>1. PICK t \in C : \A u \in C : Cardinality(t) <= Cardinality(u)
  <2>1. C \in SUBSET SUBSET D
    OBVIOUS
  <2> HIDE DEF C
  <2>2. QED
    BY <2>1, SmallestExists
<1>2. t \in SUBSET D /\ S \subseteq t /\ ~(BytesOf(w, S) <= BytesOf(w, t))
  BY <1>1
<1>3. BytesOf(w, S) \in Nat /\ BytesOf(w, t) \in Nat
  BY <1>2, BytesAre
<1>4. PICK x \in t : x \notin S
  BY <1>2, <1>3
<1> DEFINE u == t \ {x}
<1>5. u \in SUBSET D /\ S \subseteq u /\ x \in D \ u /\ t = u \cup {x}
  BY <1>2, <1>4
<1>6. Cardinality(u) < Cardinality(t) /\ Cardinality(u) \in Nat /\ Cardinality(t) \in Nat
  BY <1>2, <1>4, RemoveOne
<1>7. u \notin C
  <2> HIDE DEF C, u
  <2>1. QED
    BY <1>1, <1>6
<1>8. BytesOf(w, S) <= BytesOf(w, u) /\ BytesOf(w, u) \in Nat
  BY <1>5, <1>7, BytesAre
<1>9. BytesOf(w, t) = BytesOf(w, u) + w[x] /\ w[x] \in Nat
  BY <1>5, BytesAdd
<1>10. QED
  BY <1>2, <1>3, <1>8, <1>9

LEMMA BytesAgree ==
    ASSUME NEW D, IsFiniteSet(D), NEW w \in [D -> Nat], NEW v \in [D -> Nat],
           NEW S \in SUBSET D, \A x \in S : w[x] = v[x]
    PROVE  BytesOf(w, S) = BytesOf(v, S)
<1>1. PICK f : Totals(w, f, S) /\ BytesOf(w, S) = f[S]
  BY BytesAreTotals
<1>2. PICK g : Totals(v, g, S) /\ BytesOf(v, S) = g[S]
  BY BytesAreTotals
<1>3. S \in SUBSET S
  OBVIOUS
<1>4. \A s \in SUBSET S : f[s] = g[s]
  BY <1>1, <1>2, <1>3, TotalsAgree
<1>5. QED
  BY <1>1, <1>2, <1>4

\* What this says of the assets.
Total(S) == BytesOf(Size, S)

LEMMA SizeIs == \A a \in Assets : Size[a] \in Nat \ {0}
BY SizeAssumption

LEMMA TotalIs ==
    ASSUME NEW S \in SUBSET Assets
    PROVE  Total(S) \in Nat
<1>1. IsFiniteSet(Assets) /\ Size \in [Assets -> Nat]
  BY AssetsAssumption, SizeAssumption
<1>2. QED
  BY <1>1, BytesAre DEF Total

\* One more asset, and no fewer assets.
LEMMA TotalAdd ==
    ASSUME NEW S \in SUBSET Assets, NEW a \in Assets \ S
    PROVE  Total(S \cup {a}) = Total(S) + Size[a]
<1>1. IsFiniteSet(Assets) /\ Size \in [Assets -> Nat]
  BY AssetsAssumption, SizeAssumption
<1>2. QED
  BY <1>1, BytesAdd DEF Total

LEMMA TotalGrows ==
    ASSUME NEW T \in SUBSET Assets, NEW S \in SUBSET T
    PROVE  Total(S) <= Total(T)
<1>1. IsFiniteSet(Assets) /\ Size \in [Assets -> Nat]
  BY AssetsAssumption, SizeAssumption
<1>2. QED
  BY <1>1, BytesGrow DEF Total

-----------------------------------------------------------------------------
(* The inductive invariants *)

\* q has made the n-th call of its script, which is that of op.
Past(q, op, n) == call[q].op = op /\ at[q] > n

\* q has read an item.
Read(q) == call[q].op \in {"ref", "unref", "delete"} /\ at[q] > 1

\* The types, and where a request stands in its script.
Shapes ==
    /\ TypeOK
    /\ at \in [Requests -> Nat]
    /\ \A q \in Requests : /\ Idle(q) => answer[q] = "none"
                           /\ Active(q) => at[q] \in 1..Len(Script[call[q].op])
                           /\ answer[q] = "ok" => at[q] = Len(Script[call[q].op]) + 1

\* No item goes away, and a read item is not ahead of the table.
ItemsStay ==
    /\ \A a \in Assets : Exists(replica[a].item) => Exists(store[a].item)
    /\ \A q \in Requests :
          Read(q) => Exists(snap[q]) /\ Exists(store[call[q].asset].item)

\* What an item of asset a shows has its entries, in the table, in a replica or
\* in the hands of a request.
ItemIsJournaled(a, item) ==
    /\ Exists(item) => Entries(a, "created") > 0
    /\ item.state = "TOMBSTONED" => Entries(a, "tombstoned") > 0
    /\ item.state = "ORPHANED" => Entries(a, "unreferenced") > 0
    /\ item.state = "ORPHANED" => item.referenced_by = {}
    /\ ~Exists(item) => item.referenced_by = {}
    /\ IsFiniteSet(item.referenced_by)
    /\ Cardinality(item.referenced_by) <= Entries(a, "referenced")

Journaled ==
    /\ \A a \in Assets : /\ ItemIsJournaled(a, store[a].item)
                         /\ ItemIsJournaled(a, replica[a].item)
    /\ \A q \in Requests : Read(q) => ItemIsJournaled(call[q].asset, snap[q])

\* The entries of a request that is past its log.
EntriesAreMade ==
    \A q \in Requests : LET a == call[q].asset IN
        /\ Past(q, "complete", 4) => Entries(a, "created") > 0
        /\ Past(q, "delete", 4) => Entries(a, "tombstoned") > 0
        /\ Past(q, "unref", 2) => Entries(a, "unreferenced") > 0
        /\ Past(q, "ref", 2) => Cardinality(snap[q].referenced_by) + 1
                                   <= Entries(a, "referenced")

\* Only an upload makes an item ACTIVE without a reference.
Bare(item) == item.state = "ACTIVE" /\ item.referenced_by = {}

UnrefsOrphan ==
    \A q \in Requests : Past(q, "unref", 3) => ~Bare(store[call[q].asset].item)

AssetsInv == Shapes /\ ItemsStay /\ Journaled /\ EntriesAreMade /\ UnrefsOrphan

\* The assets that the quota has been charged for: they are stored, or a
\* complete_upload is about to store them.
Claims(q) == Active(q) /\ call[q].op = "complete" /\ at[q] \in {4, 5}

Claimed ==
    {a \in Assets : /\ released[a] = 0
                    /\ \/ Exists(store[a].item)
                       \/ \E q \in Requests : Claims(q) /\ call[q].asset = a}

QuotaInv == (\A a \in Assets : released[a] <= 1) => Total(Claimed) <= used

\* One request at a time: what it has read is what there still is, and a
\* reference of which log and table differ is that of a request between its log
\* and its update, or of one that died.
Differ(a, ref) == (ref \in store[a].item.referenced_by) # (ref \in gamma[a].open)

Untidy(q, a, ref) ==
    /\ call[q].op \in {"ref", "unref"} /\ call[q].asset = a /\ call[q].ref = ref
    /\ answer[q] = "lost" \/ (Active(q) /\ at[q] = 3)

\* q has read the item and not updated it yet.
Holds(q) ==
    /\ Active(q)
    /\ \/ call[q].op \in {"ref", "unref"} /\ at[q] \in 2..3
       \/ call[q].op = "delete" /\ at[q] \in 2..5

CalmInv ==
    /\ \A q \in Requests : Past(q, "delete", 1) => snap[q].referenced_by = {}
    /\ calm =>
        /\ \A p, q \in Requests : Active(p) /\ Active(q) => p = q
        /\ \A q \in Requests : Holds(q) => snap[q] = store[call[q].asset].item
        /\ \A q \in Requests : Active(q) /\ at[q] = 3 =>
              /\ call[q].op = "ref" => call[q].ref \in gamma[call[q].asset].open
              /\ call[q].op = "unref" => call[q].ref \notin gamma[call[q].asset].open
        /\ \A a \in Assets : store[a].item.state = "TOMBSTONED"
                                => store[a].item.referenced_by = {}
        /\ \A a \in Assets, ref \in References :
              Differ(a, ref) => \E q \in Requests : Untidy(q, a, ref)

-----------------------------------------------------------------------------
(* What the steps of the handlers are *)

LEMMA GammaOpsAre ==
    GammaOps = {"upload_initiated", "created", "upload_aborted", "referenced",
                "unreferenced", "tombstoned", "orphaned"}
BY DEF GammaOps, LogOp, AllOps

LEMMA ScriptsAre ==
    /\ Len(Script["init"]) = 3 /\ Len(Script["complete"]) = 6 /\ Len(Script["abort"]) = 4
    /\ Len(Script["ref"]) = 3 /\ Len(Script["unref"]) = 4 /\ Len(Script["delete"]) = 5
BY DEF Script

\* The place of each call in its script.
LEMMA PlacesAre ==
    ASSUME Shapes, NEW q \in Requests
    PROVE  /\ At(q, "init", "probe") => at[q] = 1
           /\ At(q, "init", "savePending") => at[q] = 2
           /\ At(q, "init", "log") => at[q] = 3
           /\ At(q, "complete", "getPending") => at[q] = 1
           /\ At(q, "complete", "head") => at[q] = 2
           /\ At(q, "complete", "reserve") => at[q] = 3
           /\ At(q, "complete", "log") => at[q] = 4
           /\ At(q, "complete", "putItem") => at[q] = 5
           /\ At(q, "complete", "dropPending") => at[q] = 6
           /\ At(q, "abort", "getPending") => at[q] = 1
           /\ At(q, "abort", "deleteObject") => at[q] = 2
           /\ At(q, "abort", "dropPending") => at[q] = 3
           /\ At(q, "abort", "log") => at[q] = 4
           /\ \A op \in {"ref", "unref", "delete"} : At(q, op, "getItem") => at[q] = 1
           /\ \A op \in {"ref", "unref"} : At(q, op, "log") => at[q] = 2
           /\ \A op \in {"ref", "unref"} : At(q, op, "update") => at[q] = 3
           /\ At(q, "unref", "logOrphaned") => at[q] = 4
           /\ At(q, "delete", "deleteObject") => at[q] = 2
           /\ At(q, "delete", "release") => at[q] = 3
           /\ At(q, "delete", "log") => at[q] = 4
           /\ At(q, "delete", "update") => at[q] = 5
<1> SUFFICES ASSUME Active(q)
             PROVE  \A op \in AllOps : call[q].op = op =>
                       \A step : Script[op][at[q]] = step =>
                          /\ op = "init" => \/ step = "probe" /\ at[q] = 1
                                            \/ step = "savePending" /\ at[q] = 2
                                            \/ step = "log" /\ at[q] = 3
                          /\ op = "complete" => \/ step = "getPending" /\ at[q] = 1
                                                \/ step = "head" /\ at[q] = 2
                                                \/ step = "reserve" /\ at[q] = 3
                                                \/ step = "log" /\ at[q] = 4
                                                \/ step = "putItem" /\ at[q] = 5
                                                \/ step = "dropPending" /\ at[q] = 6
                          /\ op = "abort" => \/ step = "getPending" /\ at[q] = 1
                                             \/ step = "deleteObject" /\ at[q] = 2
                                             \/ step = "dropPending" /\ at[q] = 3
                                             \/ step = "log" /\ at[q] = 4
                          /\ op = "ref" => \/ step = "getItem" /\ at[q] = 1
                                           \/ step = "log" /\ at[q] = 2
                                           \/ step = "update" /\ at[q] = 3
                          /\ op = "unref" => \/ step = "getItem" /\ at[q] = 1
                                             \/ step = "log" /\ at[q] = 2
                                             \/ step = "update" /\ at[q] = 3
                                             \/ step = "logOrphaned" /\ at[q] = 4
                          /\ op = "delete" => \/ step = "getItem" /\ at[q] = 1
                                              \/ step = "deleteObject" /\ at[q] = 2
                                              \/ step = "release" /\ at[q] = 3
                                              \/ step = "log" /\ at[q] = 4
                                              \/ step = "update" /\ at[q] = 5
  BY DEF At, AllOps
<1>1. at[q] \in 1..Len(Script[call[q].op])
  BY DEF Shapes
<1>2. CASE call[q].op = "init"
  <2>1. at[q] \in 1..3
    BY <1>1, <1>2, ScriptsAre
  <2>2. QED
    BY <1>2, <2>1 DEF Script
<1>3. CASE call[q].op = "complete"
  <2>1. at[q] \in 1..6
    BY <1>1, <1>3, ScriptsAre
  <2>2. QED
    BY <1>3, <2>1 DEF Script
<1>4. CASE call[q].op \in {"abort", "unref"}
  <2>1. at[q] \in 1..4
    BY <1>1, <1>4, ScriptsAre
  <2>2. QED
    BY <1>4, <2>1 DEF Script
<1>5. CASE call[q].op = "ref"
  <2>1. at[q] \in 1..3
    BY <1>1, <1>5, ScriptsAre
  <2>2. QED
    BY <1>5, <2>1 DEF Script
<1>6. CASE call[q].op = "delete"
  <2>1. at[q] \in 1..5
    BY <1>1, <1>6, ScriptsAre
  <2>2. QED
    BY <1>6, <2>1 DEF Script
<1>7. QED
  BY <1>2, <1>3, <1>4, <1>5, <1>6 DEF AllOps

\* The steps of a request that is under way.
Handler(q) ==
    \/ Probe(q) \/ SavePending(q) \/ GetPending(q) \/ HeadObject(q) \/ Reserve(q)
    \/ Log(q) \/ PutItem(q) \/ DropPending(q) \/ DeleteObject(q) \/ GetItem(q)
    \/ Update(q) \/ LogOrphaned(q) \/ Release(q) \/ Crash(q)

\* A request moves alone, and makes its next call or answers.
LEMMA HandlerMoves ==
    ASSUME Shapes, NEW q \in Requests, Handler(q)
    PROVE  /\ call' = call /\ Active(q) /\ at' \in [Requests -> Nat]
           /\ answer' \in [Requests -> Answers]
           /\ \A p \in Requests \ {q} :
                 at'[p] = at[p] /\ answer'[p] = answer[p] /\ snap'[p] = snap[p]
           /\ at'[q] \in {at[q], at[q] + 1} /\ at'[q] <= Len(Script[call[q].op]) + 1
           /\ Active(q)' => at'[q] = at[q] + 1 /\ at'[q] <= Len(Script[call[q].op])
           /\ answer'[q] = "ok" => at'[q] = Len(Script[call[q].op]) + 1
<1>1. /\ call' = call /\ Active(q)
      /\ Continue(q) \/ \E r \in Answers \ {"none", "ok"} : Answer(q, r)
      /\ snap' = snap \/ \E v : snap' = [snap EXCEPT ![q] = v]
  BY DEF Handler, Probe, SavePending, GetPending, HeadObject, Reserve, Log, PutItem,
         DropPending, DeleteObject, GetItem, Update, LogOrphaned, Release, Crash, At,
         Answers
<1>2. /\ at[q] \in Nat /\ at[q] \in 1..Len(Script[call[q].op])
      /\ Len(Script[call[q].op]) \in Nat
      /\ DOMAIN at = Requests /\ at \in [Requests -> Nat] /\ DOMAIN answer = Requests
      /\ answer \in [Requests -> Answers] /\ DOMAIN snap = Requests
      /\ answer[q] = "none"
  <2>1. call[q].op \in AllOps
    BY DEF Shapes, TypeOK, Call
  <2>2. Len(Script[call[q].op]) \in Nat
    BY <2>1, ScriptsAre DEF AllOps
  <2>3. QED
    BY <1>1, <2>2 DEF Shapes, TypeOK, Active, Done
<1>3. \A p \in Requests \ {q} : snap'[p] = snap[p]
  BY <1>1, <1>2
<1> HIDE DEF Handler
<1>4. CASE Continue(q)
  <2>1. /\ at' = [at EXCEPT ![q] = at[q] + 1]
        /\ answer' = [answer EXCEPT ![q] = IF at[q] = Len(Script[call[q].op])
                                           THEN "ok" ELSE answer[q]]
    BY <1>4 DEF Continue
  <2>2. "ok" \in Answers /\ "none" \in Answers
    BY DEF Answers
  <2>3. at'[q] = at[q] + 1 /\ (answer'[q] = "none" <=> at[q] # Len(Script[call[q].op]))
    BY <1>2, <2>1
  <2>4. at' \in [Requests -> Nat] /\ answer' \in [Requests -> Answers]
    BY <1>2, <2>1, <2>2
  <2>5. \A p \in Requests \ {q} : at'[p] = at[p] /\ answer'[p] = answer[p]
    BY <1>2, <2>1
  <2>6. Active(q)' => answer'[q] = "none"
    BY DEF Active, Done
  <2>7. QED
    BY <1>1, <1>2, <1>3, <2>3, <2>4, <2>5, <2>6
<1>5. CASE \E r \in Answers \ {"none", "ok"} : Answer(q, r)
  BY <1>1, <1>2, <1>3, <1>5 DEF Answer, Active, Done
<1>6. QED
  BY <1>1, <1>4, <1>5

\* One more entry in the log of an asset.
LEMMA LoggedIs ==
    ASSUME Shapes, NEW a \in Assets, NEW op \in GammaOps, NEW ref \in References,
           gamma' = Logged(a, op, ref)
    PROVE  /\ gamma' \in [Assets -> [entries: [GammaOps -> Nat], open: SUBSET References]]
           /\ \A b \in Assets, o \in GammaOps :
                 Entries(b, o)' = Entries(b, o) + (IF b = a /\ o = op THEN 1 ELSE 0)
           /\ \A b \in Assets \ {a} : gamma'[b] = gamma[b]
           /\ gamma'[a].open = CASE op = "referenced" -> gamma[a].open \cup {ref}
                                 [] op = "unreferenced" -> gamma[a].open \ {ref}
                                 [] OTHER -> gamma[a].open
<1>1. gamma \in [Assets -> [entries: [GammaOps -> Nat], open: SUBSET References]]
  BY DEF Shapes, TypeOK
<1> DEFINE es == [gamma[a].entries EXCEPT ![op] = @ + 1]
           os == CASE op = "referenced" -> gamma[a].open \cup {ref}
                   [] op = "unreferenced" -> gamma[a].open \ {ref}
                   [] OTHER -> gamma[a].open
<1>2. gamma' = [gamma EXCEPT ![a] = [entries |-> es, open |-> os]]
  BY DEF Logged
<1>3. es \in [GammaOps -> Nat] /\ os \in SUBSET References
  BY <1>1
<1>4. \A o \in GammaOps : es[o] = gamma[a].entries[o] + (IF o = op THEN 1 ELSE 0)
  BY <1>1
<1> HIDE DEF es, os
<1>5. gamma' \in [Assets -> [entries: [GammaOps -> Nat], open: SUBSET References]]
  BY <1>1, <1>2, <1>3
<1>6. gamma'[a] = [entries |-> es, open |-> os] /\ \A b \in Assets \ {a} : gamma'[b] = gamma[b]
  BY <1>1, <1>2
<1>7. ASSUME NEW b \in Assets, NEW o \in GammaOps
      PROVE  Entries(b, o)' = Entries(b, o) + (IF b = a /\ o = op THEN 1 ELSE 0)
  <2>1. gamma[b].entries[o] \in Nat
    BY <1>1
  <2>2. QED
    BY <1>4, <1>6, <2>1 DEF Entries
<1>8. QED
  BY <1>5, <1>6, <1>7 DEF os

\* The entry that a request makes.
LEMMA LogIs ==
    ASSUME Shapes, NEW q \in Requests, Log(q) \/ LogOrphaned(q)
    PROVE  \/ \E op \in GammaOps :
                /\ gamma' = Logged(call[q].asset, op, call[q].ref)
                /\ op = "orphaned" \/ (Log(q) /\ op = LogOp[call[q].op])
           \/ gamma' = gamma /\ LogOrphaned(q)
<1>1. call[q].op \in AllOps
  BY DEF Shapes, TypeOK, Call
<1>2. LogOp[call[q].op] \in GammaOps /\ "orphaned" \in GammaOps
  BY <1>1 DEF GammaOps
<1>3. QED
  BY <1>2 DEF Log, LogOrphaned

\* What ref_asset, unref_asset and delete_asset write.
LEMMA UpdateIs ==
    ASSUME Shapes, NEW q \in Requests, Update(q)
    PROVE  LET a == call[q].asset
               it == store'[a].item
               old == snap[q].referenced_by
               ref == call[q].ref
           IN
           /\ store' \in [Assets -> [pending: BOOLEAN, item: Item]]
           /\ \A b \in Assets \ {a} : store'[b] = store[b]
           /\ store'[a].pending = store[a].pending
           /\ call[q].op \in {"ref", "unref", "delete"}
           /\ call[q].op = "ref" => /\ at[q] = 3 /\ it.referenced_by = old \cup {ref}
                                    /\ it.state = IF ref \in old THEN snap[q].state ELSE "ACTIVE"
           /\ call[q].op = "unref" => /\ at[q] = 3 /\ it.referenced_by = old \ {ref}
                                      /\ it.state = IF it.referenced_by = {}
                                                    THEN "ORPHANED" ELSE "ACTIVE"
           /\ call[q].op = "delete" => /\ at[q] = 5 /\ it.state = "TOMBSTONED"
                                       /\ it.referenced_by = store[a].item.referenced_by
<1> DEFINE a == call[q].asset
           c == call[q].op
           ref == call[q].ref
           item == store[a].item
           old == snap[q].referenced_by
           next == CASE c = "ref" -> AfterRef(snap[q], ref)
                     [] c = "unref" -> AfterUnref(snap[q], ref)
                     [] OTHER -> [snap[q] EXCEPT !.referenced_by = item.referenced_by,
                                                 !.state = "TOMBSTONED"]
           rs == CASE c = "ref" -> old \cup {ref}
                   [] c = "unref" -> old \ {ref}
                   [] OTHER -> item.referenced_by
           st == CASE c = "ref" -> IF ref \in old THEN snap[q].state ELSE "ACTIVE"
                   [] c = "unref" -> IF old \ {ref} = {} THEN "ORPHANED" ELSE "ACTIVE"
                   [] OTHER -> "TOMBSTONED"
           on == item.indexed /\ c # "delete"
<1>1. /\ a \in Assets /\ ref \in References /\ item \in Item /\ snap[q] \in Item
      /\ store \in [Assets -> [pending: BOOLEAN, item: Item]]
      /\ store[a] \in [pending: BOOLEAN, item: Item]
  BY DEF Shapes, TypeOK, Call
<1>2. /\ c \in {"ref", "unref", "delete"}
      /\ c \in {"ref", "unref"} => at[q] = 3
      /\ c = "delete" => at[q] = 5
  BY PlacesAre DEF Update, At
<1>3. next = [state |-> st, referenced_by |-> rs, indexed |-> snap[q].indexed]
  <2>1. snap[q] = [state |-> snap[q].state, referenced_by |-> old,
                   indexed |-> snap[q].indexed]
    BY <1>1 DEF Item
  <2>2. CASE c = "ref"
    BY <2>1, <2>2 DEF AfterRef
  <2>3. CASE c = "unref"
    BY <2>1, <2>3 DEF AfterUnref
  <2>4. CASE c = "delete"
    BY <2>1, <2>4
  <2>5. QED
    BY <1>2, <2>2, <2>3, <2>4
<1>4. store' = [store EXCEPT ![a].item = [next EXCEPT !.indexed = on]]
  BY DEF Update
<1>5. st \in States /\ rs \in SUBSET References /\ on \in BOOLEAN
  BY <1>1 DEF Item, States
<1> HIDE DEF next, rs, st, on
<1>6. [next EXCEPT !.indexed = on] = [state |-> st, referenced_by |-> rs, indexed |-> on]
  BY <1>3
<1> DEFINE it == [state |-> st, referenced_by |-> rs, indexed |-> on]
<1>7. it \in Item
  BY <1>5 DEF Item
<1> HIDE DEF it
<1>8. /\ store' \in [Assets -> [pending: BOOLEAN, item: Item]]
      /\ \A b \in Assets \ {a} : store'[b] = store[b]
      /\ store'[a].pending = store[a].pending
      /\ store'[a].item = it
  <2>1. store' = [store EXCEPT ![a].item = it]
    BY <1>4, <1>6 DEF it
  <2>2. QED
    BY <1>1, <1>7, <2>1
<1>9. it.state = st /\ it.referenced_by = rs
  BY DEF it
<1>10. QED
  BY <1>2, <1>8, <1>9 DEF rs, st

\* What is there from the start: uploaded assets U and started uploads V.
LEMMA InitIs ==
    ASSUME Init
    PROVE  \E U \in SUBSET Assets, V \in SUBSET Assets :
              /\ U \cap V = {} /\ bytes = U /\ url = V /\ used = Total(U)
              /\ store = [a \in Assets |->
                            [pending |-> a \in V,
                             item |-> IF a \in U THEN NewItem ELSE NoItem]]
              /\ gamma = [a \in Assets |->
                            [entries |-> [op \in GammaOps |->
                                 IF \/ op = "upload_initiated" /\ a \in U \cup V
                                    \/ op = "created" /\ a \in U
                                 THEN 1 ELSE 0],
                             open |-> {}]]
<1>1. PICK start \in Starts :
        /\ store = [a \in Assets |->
                      [pending |-> a \in start.started,
                       item |-> IF a \in start.uploaded THEN NewItem ELSE NoItem]]
        /\ bytes = start.uploaded
        /\ url = start.started
        /\ used = BytesOf(Size, start.uploaded)
        /\ gamma = [a \in Assets |->
                      [entries |-> [op \in GammaOps |->
                           IF \/ op = "upload_initiated"
                                 /\ a \in start.uploaded \cup start.started
                              \/ op = "created" /\ a \in start.uploaded
                           THEN 1 ELSE 0],
                       open |-> {}]]
  BY DEF Init
<1>2. /\ start.uploaded \in SUBSET Assets /\ start.started \in SUBSET Assets
      /\ start.uploaded \cap start.started = {}
  BY StartsAssumption
<1>3. QED
  BY <1>1, <1>2 DEF Total

LEMMA ShapesInit == Init => Shapes
<1> SUFFICES ASSUME Init PROVE Shapes
  OBVIOUS
<1> DEFINE first == CHOOSE c \in Call : c.op = "init"
<1>1. first \in Call /\ first.op = "init"
  <2>1. PICK a \in Assets, ref \in References : TRUE
    BY AssetsAssumption
  <2>2. [op |-> "init", asset |-> a, ref |-> ref] \in Call
    BY DEF Call, AllOps
  <2>3. \E c \in Call : c.op = "init"
    BY <2>2
  <2>4. QED
    BY <2>3
<1>2. call = [q \in Requests |-> first] /\ call \in [Requests -> Call]
  BY <1>1 DEF Init
<1>3. NewItem \in Item /\ NoItem \in Item
  BY DEF NewItem, NoItem, Item, States
<1>4. store \in [Assets -> [pending: BOOLEAN, item: Item]] /\ replica = store
  <2>1. PICK U \in SUBSET Assets, V \in SUBSET Assets :
          store = [a \in Assets |-> [pending |-> a \in V,
                                     item |-> IF a \in U THEN NewItem ELSE NoItem]]
    BY InitIs
  <2>2. QED
    BY <1>3, <2>1 DEF Init
<1>5. used \in Nat
  BY InitIs, TotalIs
<1>6. gamma \in [Assets -> [entries: [GammaOps -> Nat], open: SUBSET References]]
  BY DEF Init
<1>7. /\ at = [q \in Requests |-> 0] /\ answer = [q \in Requests |-> "none"]
      /\ bytes \subseteq Assets /\ url \subseteq Assets /\ calm = TRUE /\ twice = {}
      /\ released = [a \in Assets |-> 0] /\ snap = [q \in Requests |-> NoItem]
  BY InitIs DEF Init
<1>8. \A q \in Requests : at[q] \in 0..(Len(Script[call[q].op]) + 1)
  BY <1>1, <1>2, <1>7, ScriptsAre
<1>9. TypeOK
  BY <1>2, <1>3, <1>4, <1>5, <1>6, <1>7, <1>8 DEF TypeOK, Answers
<1>10. QED
  BY <1>7, <1>9 DEF Shapes, Idle, Active, Done

LEMMA SubmitKeepsShapes ==
    ASSUME Shapes, NEW q \in Requests, Submit(q)
    PROVE  Shapes'
<1>1. PICK c \in Call : call' = [call EXCEPT ![q] = c]
  <2>1. PICK a \in Assets, op \in AllOps, ref \in References :
          call' = [call EXCEPT ![q] = [op |-> op, asset |-> a, ref |-> ref]]
    BY OpsAssumption DEF Submit
  <2>2. [op |-> op, asset |-> a, ref |-> ref] \in Call
    BY DEF Call
  <2>3. QED
    BY <2>1, <2>2
<1>2. /\ call \in [Requests -> Call] /\ at \in [Requests -> Nat]
      /\ \A p \in Requests : at[p] \in 0..(Len(Script[call[p].op]) + 1)
  BY DEF Shapes, TypeOK
<1>3. /\ at' = [at EXCEPT ![q] = 1] /\ answer[q] = "none"
      /\ UNCHANGED <<store, replica, bytes, url, used, gamma, snap, answer, released,
                     twice>>
      /\ calm' \in BOOLEAN
  BY DEF Submit, Done
<1>4. 1 \in 1..Len(Script[c.op]) /\ Len(Script[c.op]) \in Nat
  <2>1. c.op \in AllOps
    BY <1>1 DEF Call
  <2>2. Len(Script[c.op]) \in {3, 4, 5, 6}
    BY <2>1, ScriptsAre DEF AllOps
  <2>3. QED
    BY <2>2
<1>5. /\ call' \in [Requests -> Call] /\ at' \in [Requests -> Nat]
      /\ call'[q] = c /\ at'[q] = 1
      /\ \A p \in Requests \ {q} : call'[p] = call[p] /\ at'[p] = at[p]
  BY <1>1, <1>2, <1>3
<1>6. ASSUME NEW p \in Requests PROVE at'[p] \in 0..(Len(Script[call'[p].op]) + 1)
  <2>1. CASE p = q
    BY <1>4, <1>5, <2>1
  <2>2. CASE p # q
    BY <1>2, <1>5, <2>2
  <2>3. QED
    BY <2>1, <2>2
<1>7. TypeOK'
  BY <1>3, <1>5, <1>6 DEF Shapes, TypeOK
<1>8. ASSUME NEW p \in Requests
      PROVE  /\ Idle(p)' => answer'[p] = "none"
             /\ Active(p)' => at'[p] \in 1..Len(Script[call'[p].op])
             /\ answer'[p] = "ok" => at'[p] = Len(Script[call'[p].op]) + 1
  BY <1>3, <1>4, <1>5 DEF Shapes, Idle, Active, Done
<1>9. QED
  BY <1>5, <1>7, <1>8 DEF Shapes

LEMMA HandlerKeepsShapes ==
    ASSUME Shapes, NEW q \in Requests, Handler(q)
    PROVE  Shapes'
<1>1. /\ call' = call /\ Active(q) /\ at' \in [Requests -> Nat]
      /\ answer' \in [Requests -> Answers]
      /\ \A p \in Requests \ {q} :
            at'[p] = at[p] /\ answer'[p] = answer[p] /\ snap'[p] = snap[p]
      /\ at'[q] \in {at[q], at[q] + 1} /\ at'[q] <= Len(Script[call[q].op]) + 1
      /\ Active(q)' => at'[q] = at[q] + 1 /\ at'[q] <= Len(Script[call[q].op])
      /\ answer'[q] = "ok" => at'[q] = Len(Script[call[q].op]) + 1
  BY HandlerMoves
<1>2. /\ call[q].asset \in Assets /\ call[q].ref \in References /\ call[q].op \in AllOps
      /\ call \in [Requests -> Call] /\ at[q] \in Nat /\ at[q] # 0
      /\ store \in [Assets -> [pending: BOOLEAN, item: Item]]
      /\ replica \in [Assets -> [pending: BOOLEAN, item: Item]]
  BY <1>1 DEF Shapes, TypeOK, Call, Active, Idle
<1>3. Len(Script[call[q].op]) \in Nat
  BY <1>2, ScriptsAre DEF AllOps
<1>4. store' \in [Assets -> [pending: BOOLEAN, item: Item]]
  <2>1. CASE store' = store
    BY <1>2, <2>1
  <2>2. CASE Update(q)
    BY <2>2, UpdateIs
  <2>3. CASE \E b \in BOOLEAN : store' = [store EXCEPT ![call[q].asset].pending = b]
    BY <1>2, <2>3
  <2>4. CASE store' = [store EXCEPT ![call[q].asset].item = NewItem]
    <3>1. NewItem \in Item
      BY DEF NewItem, Item, States
    <3>2. QED
      BY <1>2, <2>4, <3>1
  <2>5. QED
    BY <2>1, <2>2, <2>3, <2>4
    DEF Handler, Probe, SavePending, GetPending, HeadObject, Reserve, Log, PutItem,
        DropPending, DeleteObject, GetItem, LogOrphaned, Release, Crash
<1>5. snap' \in [Requests -> Item]
  <2>1. snap' = snap \/ \E v \in Readable(call[q].asset) : snap' = [snap EXCEPT ![q] = v.item]
    BY DEF Handler, Probe, SavePending, GetPending, HeadObject, Reserve, Log, PutItem,
           DropPending, DeleteObject, GetItem, Update, LogOrphaned, Release, Crash
  <2>2. \A v \in Readable(call[q].asset) : v.item \in Item
    BY <1>2 DEF Readable
  <2>3. QED
    BY <2>1, <2>2 DEF Shapes, TypeOK
<1>6. gamma' \in [Assets -> [entries: [GammaOps -> Nat], open: SUBSET References]]
  <2>1. CASE gamma' = gamma
    BY <2>1 DEF Shapes, TypeOK
  <2>2. CASE Log(q) \/ LogOrphaned(q)
    BY <1>2, <2>1, <2>2, LogIs, LoggedIs
  <2>3. QED
    BY <2>1, <2>2
    DEF Handler, Probe, SavePending, GetPending, HeadObject, Reserve, PutItem,
        DropPending, DeleteObject, GetItem, Update, Release, Crash
<1>7. used' \in Nat /\ released' \in [Assets -> Nat]
  <2>1. Size[call[q].asset] \in Nat /\ used \in Nat /\ released \in [Assets -> Nat]
    BY <1>2, SizeIs DEF Shapes, TypeOK
  <2>2. CASE Reserve(q)
    BY <2>1, <2>2 DEF Reserve
  <2>3. CASE Release(q)
    <3>1. /\ used' = IF used >= Size[call[q].asset] THEN used - Size[call[q].asset] ELSE used
          /\ released' = [released EXCEPT ![call[q].asset] = @ + 1]
      BY <2>3 DEF Release
    <3>2. QED
      BY <1>2, <2>1, <3>1
  <2>4. QED
    BY <2>1, <2>2, <2>3
    DEF Handler, Probe, SavePending, GetPending, HeadObject, Log, PutItem, DropPending,
        DeleteObject, GetItem, Update, LogOrphaned, Crash
<1>8. bytes' \subseteq Assets /\ url' \subseteq Assets /\ replica' = replica /\ calm' \in BOOLEAN
      /\ twice' = twice
  <2>1. bytes \subseteq Assets /\ url \subseteq Assets /\ calm \in BOOLEAN
    BY DEF Shapes, TypeOK
  <2>2. QED
    BY <1>2, <2>1 DEF Handler, Probe, SavePending, GetPending, HeadObject, Reserve, Log,
           PutItem, DropPending, DeleteObject, GetItem, Update, LogOrphaned, Release, Crash
<1>9. \A p \in Requests : at'[p] \in 0..(Len(Script[call'[p].op]) + 1)
  <2>1. at'[q] \in 0..(Len(Script[call[q].op]) + 1)
    BY <1>1, <1>2, <1>3
  <2>2. QED
    BY <1>1, <2>1 DEF Shapes, TypeOK
<1>10. TypeOK'
  BY <1>1, <1>2, <1>4, <1>5, <1>6, <1>7, <1>8, <1>9 DEF Shapes, TypeOK
<1>11. ASSUME NEW p \in Requests
       PROVE  /\ Idle(p)' => answer'[p] = "none"
              /\ Active(p)' => at'[p] \in 1..Len(Script[call'[p].op])
              /\ answer'[p] = "ok" => at'[p] = Len(Script[call'[p].op]) + 1
  <2>1. CASE p = q
    BY <1>1, <1>2, <1>3, <2>1 DEF Idle
  <2>2. CASE p # q
    BY <1>1, <2>2 DEF Shapes, Idle, Active, Done
  <2>3. QED
    BY <2>1, <2>2
<1>12. QED
  BY <1>1, <1>10, <1>11 DEF Shapes

\* What clients, clocks and replicas do beside the requests.
Surroundings(a) == ClientPut(a) \/ Expire(a) \/ Replicate(a)

LEMMA SurroundingsAre ==
    ASSUME Shapes, NEW a \in Assets, Surroundings(a)
    PROVE  /\ UNCHANGED <<used, gamma, call, at, snap, answer, released, twice, calm>>
           /\ bytes \subseteq bytes' /\ bytes' \subseteq Assets
           /\ store' \in [Assets -> [pending: BOOLEAN, item: Item]]
           /\ replica' \in [Assets -> [pending: BOOLEAN, item: Item]]
           /\ \A b \in Assets : /\ store'[b].item = store[b].item
                                /\ replica'[b].item \in {replica[b].item, store[b].item}
<1>1. /\ store \in [Assets -> [pending: BOOLEAN, item: Item]]
      /\ replica \in [Assets -> [pending: BOOLEAN, item: Item]]
      /\ bytes \subseteq Assets /\ url \subseteq Assets
  BY DEF Shapes, TypeOK
<1>2. CASE ClientPut(a)
  BY <1>1, <1>2 DEF ClientPut
<1>3. CASE Expire(a)
  <2>1. store' = store \/ store' = [store EXCEPT ![a].pending = FALSE]
    BY <1>3 DEF Expire
  <2>2. /\ store' \in [Assets -> [pending: BOOLEAN, item: Item]]
        /\ \A b \in Assets : store'[b].item = store[b].item
    <3>1. CASE store' = store
      BY <1>1, <3>1
    <3>2. CASE store' = [store EXCEPT ![a].pending = FALSE]
      BY <1>1, <3>2
    <3>3. QED
      BY <2>1, <3>1, <3>2
  <2>3. UNCHANGED <<replica, bytes, used, gamma, call, at, snap, answer, released, twice,
                     calm>>
    BY <1>3 DEF Expire
  <2>4. QED
    BY <1>1, <2>2, <2>3
<1>4. CASE Replicate(a)
  BY <1>1, <1>4 DEF Replicate
<1>5. QED
  BY <1>2, <1>3, <1>4 DEF Surroundings

LEMMA NextIs ==
    ASSUME [Next]_vars
    PROVE  \/ UNCHANGED vars
           \/ \E q \in Requests : Submit(q) \/ Handler(q) \/ Resend(q)
           \/ \E a \in Assets : Surroundings(a)
BY DEF Next, Step, Handler, Surroundings

LEMMA NextKeepsShapes == Shapes /\ [Next]_vars => Shapes'
<1> SUFFICES ASSUME Shapes, [Next]_vars PROVE Shapes'
  OBVIOUS
<1>1. CASE UNCHANGED vars
  BY <1>1 DEF vars, Shapes, TypeOK, Idle, Active, Done
<1>2. ASSUME NEW a \in Assets, Surroundings(a) PROVE Shapes'
  <2>1. url' \subseteq Assets
    BY <1>2 DEF Surroundings, ClientPut, Expire, Replicate, Shapes, TypeOK
  <2>2. QED
    BY <1>2, <2>1, SurroundingsAre DEF Shapes, TypeOK, Idle, Active, Done
<1>3. ASSUME NEW q \in Requests, Resend(q) PROVE Shapes'
  <2>1. /\ call[q].asset \in Assets /\ used \in Nat /\ released \in [Assets -> Nat]
        /\ Size[call[q].asset] \in Nat
    BY SizeIs DEF Shapes, TypeOK, Call
  <2>2. used' \in Nat /\ released' \in [Assets -> Nat]
    BY <1>3, <2>1 DEF Resend
  <2>3. /\ UNCHANGED <<store, replica, bytes, url, gamma, call, at, snap, answer, calm>>
        /\ twice' = twice \cup {q}
    BY <1>3 DEF Resend
  <2>4. QED
    BY <2>2, <2>3 DEF Shapes, TypeOK, Idle, Active, Done
<1>4. QED
  BY <1>1, <1>2, <1>3, NextIs, SubmitKeepsShapes, HandlerKeepsShapes

-----------------------------------------------------------------------------
(* How each part of the state goes on *)

\* The call that takes a request past a place of its script.
LEMMA StepsAre ==
    ASSUME Shapes, NEW q \in Requests, Handler(q), at'[q] # at[q]
    PROVE  /\ call[q].op \in {"ref", "unref", "delete"} /\ at[q] = 1 => GetItem(q)
           /\ call[q].op \in {"ref", "unref"} /\ at[q] = 2 => Log(q)
           /\ call[q].op \in {"ref", "unref"} /\ at[q] = 3 => Update(q)
           /\ call[q].op = "delete" /\ at[q] = 4 => Log(q)
           /\ call[q].op = "delete" /\ at[q] = 5 => Update(q)
           /\ call[q].op = "complete" /\ at[q] = 2 => HeadObject(q)
           /\ call[q].op = "complete" /\ at[q] = 3 => Reserve(q)
           /\ call[q].op = "complete" /\ at[q] = 4 => Log(q)
           /\ call[q].op = "complete" /\ at[q] = 5 => PutItem(q)
           /\ call[q].op = "complete" /\ at[q] = 6 => DropPending(q)
           /\ call[q].op = "abort" /\ at[q] = 1 => GetPending(q)
<1>1. CASE Probe(q) \/ SavePending(q)
  BY <1>1 DEF Probe, SavePending, At
<1>2. CASE GetPending(q)
  BY <1>2, PlacesAre DEF GetPending, At
<1>3. CASE Reserve(q)
  BY <1>3, PlacesAre DEF Reserve, At
<1>4. CASE PutItem(q)
  BY <1>4, PlacesAre DEF PutItem, At
<1>5. CASE DropPending(q)
  BY <1>5, PlacesAre DEF DropPending, At
<1>6. CASE DeleteObject(q)
  BY <1>6, PlacesAre DEF DeleteObject, At
<1>7. CASE LogOrphaned(q)
  BY <1>7, PlacesAre DEF LogOrphaned, At
<1>8. CASE Release(q)
  BY <1>8, PlacesAre DEF Release, At
<1>9. CASE HeadObject(q)
  BY <1>9, PlacesAre DEF HeadObject, At
<1>10. CASE Log(q)
  BY <1>10, PlacesAre DEF Log, At
<1>11. CASE GetItem(q)
  BY <1>11, PlacesAre DEF GetItem, At
<1>12. CASE Update(q)
  BY <1>12, PlacesAre DEF Update, At
<1>13. CASE Crash(q)
  BY <1>13 DEF Crash, Answer
<1>14. QED
  BY <1>1, <1>2, <1>3, <1>4, <1>5, <1>6, <1>7, <1>8, <1>9, <1>10, <1>11, <1>12, <1>13
  DEF Handler

\* What was sent stays as it was sent, and goes on.
LEMMA CallsStay ==
    ASSUME Shapes, [Next]_vars
    PROVE  \A q \in Requests : /\ at[q] \in Nat /\ at'[q] \in Nat
                               /\ at[q] > 0 => call'[q] = call[q] /\ at'[q] >= at[q]
                               /\ at'[q] > 1 => at[q] > 0
                               /\ at'[q] > 1 /\ at'[q] # at[q] => Handler(q)
                               /\ at'[q] > 1 /\ at'[q] # at[q] => at'[q] = at[q] + 1
<1>1. at \in [Requests -> Nat] /\ call \in [Requests -> Call]
  BY DEF Shapes, TypeOK
<1>2. QED
  <2>1. CASE UNCHANGED vars
    BY <1>1, <2>1 DEF vars
  <2>2. ASSUME NEW p \in Requests, Submit(p)
        PROVE  /\ at[p] = 0 /\ at'[p] = 1
               /\ \A q \in Requests \ {p} : at'[q] = at[q] /\ call'[q] = call[q]
    BY <1>1, <2>2 DEF Submit, Idle
  <2>3. ASSUME NEW p \in Requests, Handler(p)
        PROVE  /\ at'[p] \in {at[p], at[p] + 1} /\ at[p] # 0 /\ call' = call
               /\ \A q \in Requests \ {p} : at'[q] = at[q]
    BY <2>3, HandlerMoves DEF Active, Idle
  <2>4. ASSUME NEW a \in Assets, Surroundings(a) PROVE at' = at /\ call' = call
    BY <2>4, SurroundingsAre
  <2>5. CASE \E p \in Requests : Submit(p)
    BY <1>1, <2>2, <2>5
  <2>6. CASE \E p \in Requests : Handler(p)
    <3>1. PICK p \in Requests : Handler(p)
      BY <2>6
    <3>2. ASSUME NEW q \in Requests
          PROVE  /\ at[q] \in Nat /\ at'[q] \in {at[q], at[q] + 1}
                 /\ call'[q] = call[q]
                 /\ at'[q] # at[q] => Handler(q) /\ at[q] # 0
      BY <1>1, <2>3, <3>1
    <3>3. QED
      BY <3>2
  <2>7. ASSUME NEW p \in Requests, Resend(p) PROVE at' = at /\ call' = call
    BY <2>7 DEF Resend
  <2>8. QED
    BY <1>1, <2>1, <2>4, <2>5, <2>6, <2>7, NextIs

\* Entries are never taken back.
LEMMA EntriesGrow ==
    ASSUME Shapes, [Next]_vars
    PROVE  \A a \in Assets, op \in GammaOps :
              /\ Entries(a, op) \in Nat /\ Entries(a, op)' \in Nat
              /\ Entries(a, op)' >= Entries(a, op)
<1>1. \A a \in Assets, op \in GammaOps : Entries(a, op) \in Nat
  BY DEF Shapes, TypeOK, Entries
<1>2. CASE gamma' = gamma
  BY <1>1, <1>2 DEF Entries
<1>3. ASSUME NEW q \in Requests, Log(q) \/ LogOrphaned(q), gamma' # gamma
      PROVE  \A a \in Assets, op \in GammaOps :
                Entries(a, op)' = Entries(a, op) \/ Entries(a, op)' = Entries(a, op) + 1
  <2>1. call[q].asset \in Assets /\ call[q].ref \in References
    BY DEF Shapes, TypeOK, Call
  <2>2. PICK op \in GammaOps : gamma' = Logged(call[q].asset, op, call[q].ref)
    BY <1>3, LogIs
  <2>3. \A a \in Assets, o \in GammaOps :
           Entries(a, o)' = Entries(a, o) + (IF a = call[q].asset /\ o = op THEN 1 ELSE 0)
    BY <2>1, <2>2, LoggedIs DEF Entries
  <2>4. QED
    BY <1>1, <2>3
<1>4. gamma' = gamma \/ \E q \in Requests : Log(q) \/ LogOrphaned(q)
  <2>1. ASSUME NEW q \in Requests, Handler(q), ~Log(q), ~LogOrphaned(q)
        PROVE  gamma' = gamma
    BY <2>1 DEF Handler, Probe, SavePending, GetPending, HeadObject, Reserve, PutItem,
                DropPending, DeleteObject, GetItem, Update, Release, Crash
  <2>2. QED
    BY <2>1, NextIs, SurroundingsAre DEF Submit, Resend, vars
<1>5. QED
  BY <1>1, <1>2, <1>3, <1>4

\* Who writes an item.
LEMMA ItemsAre ==
    ASSUME Shapes, [Next]_vars, NEW a \in Assets
    PROVE  /\ \/ store'[a].item = store[a].item
              \/ \E q \in Requests : Update(q) /\ call[q].asset = a
              \/ \E q \in Requests : /\ PutItem(q) /\ call[q].asset = a
                                     /\ ~Exists(store[a].item) /\ store'[a].item = NewItem
           /\ replica'[a].item \in {replica[a].item, store[a].item}
<1>1. store \in [Assets -> [pending: BOOLEAN, item: Item]]
  BY DEF Shapes, TypeOK
<1>2. CASE UNCHANGED vars \/ \E q \in Requests : Submit(q) \/ Resend(q)
  BY <1>2 DEF vars, Submit, Resend
<1>3. CASE \E b \in Assets : Surroundings(b)
  BY <1>3, SurroundingsAre
<1>4. ASSUME NEW q \in Requests, Handler(q)
      PROVE  /\ \/ store'[a].item = store[a].item
                \/ Update(q) /\ call[q].asset = a
                \/ /\ PutItem(q) /\ call[q].asset = a
                   /\ ~Exists(store[a].item) /\ store'[a].item = NewItem
             /\ replica' = replica
  <2> SUFFICES \/ store'[a].item = store[a].item
               \/ Update(q) /\ call[q].asset = a
               \/ /\ PutItem(q) /\ call[q].asset = a
                  /\ ~Exists(store[a].item) /\ store'[a].item = NewItem
    BY <1>4 DEF Handler, Probe, SavePending, GetPending, HeadObject, Reserve, Log, PutItem,
           DropPending, DeleteObject, GetItem, Update, LogOrphaned, Release, Crash
  <2>1. CASE store' = store
    BY <2>1
  <2>2. CASE Update(q)
    BY <2>2, UpdateIs
  <2>3. CASE \E b \in BOOLEAN : store' = [store EXCEPT ![call[q].asset].pending = b]
    <3>1. PICK b \in BOOLEAN : store' = [store EXCEPT ![call[q].asset].pending = b]
      BY <2>3
    <3>2. store[a] \in [pending: BOOLEAN, item: Item]
      BY <1>1
    <3>3. QED
      BY <1>1, <3>1, <3>2
  <2>4. CASE PutItem(q)
    <3>1. CASE store' = store
      BY <3>1
    <3>2. CASE /\ ~Exists(store[call[q].asset].item)
               /\ store' = [store EXCEPT ![call[q].asset].item = NewItem]
      BY <1>1, <2>4, <3>2
    <3>3. QED
      BY <2>4, <3>1, <3>2 DEF PutItem
  <2>5. \/ store' = store \/ Update(q) \/ PutItem(q)
        \/ \E b \in BOOLEAN : store' = [store EXCEPT ![call[q].asset].pending = b]
    BY <1>4 DEF Handler, Probe, SavePending, GetPending, HeadObject, Reserve, Log,
           DropPending, DeleteObject, GetItem, LogOrphaned, Release, Crash
  <2>6. QED
    BY <2>1, <2>2, <2>3, <2>4, <2>5
<1>5. QED
  BY <1>2, <1>3, <1>4, NextIs

\* What a request has in its hands it has just read, or had before.
LEMMA SnapsAre ==
    ASSUME Shapes, [Next]_vars, NEW q \in Requests, Read(q)'
    PROVE  /\ call'[q] = call[q]
           /\ \/ Read(q) /\ snap'[q] = snap[q]
              \/ /\ GetItem(q) /\ ~Read(q)
                 /\ \E v \in Readable(call[q].asset) :
                      /\ Exists(v.item) /\ snap'[q] = v.item
                      /\ call[q].op = "delete" => MayDelete(v.item)
                      /\ calm' => calm /\ v = store[call[q].asset]
<1>1. /\ at[q] \in Nat /\ at[q] > 0 /\ call'[q] = call[q]
      /\ at'[q] # at[q] => Handler(q) /\ at'[q] = at[q] + 1
  BY CallsStay DEF Read
<1>2. DOMAIN snap = Requests
  BY DEF Shapes, TypeOK
<1>3. CASE GetItem(q)
  <2>1. at[q] = 1
    BY <1>3, PlacesAre DEF GetItem, At
  <2>2. at' # at
    BY <2>1 DEF Read
  <2>3. PICK v \in Readable(call[q].asset) :
          /\ Exists(v.item) /\ snap' = [snap EXCEPT ![q] = v.item]
          /\ call[q].op = "delete" => MayDelete(v.item)
          /\ calm' = (calm /\ v = store[call[q].asset])
    BY <1>3, <2>2 DEF GetItem, Answer
  <2>4. ~Read(q) /\ snap'[q] = v.item
    BY <1>2, <2>1, <2>3 DEF Read
  <2>5. /\ Exists(v.item) /\ (call[q].op = "delete" => MayDelete(v.item))
        /\ calm' => calm /\ v = store[call[q].asset]
    BY <2>3
  <2>6. QED
    BY <1>1, <1>3, <2>4, <2>5
<1>4. CASE ~GetItem(q)
  <2>1. snap'[q] = snap[q]
    <3>1. ASSUME NEW p \in Requests, Handler(p) PROVE snap'[q] = snap[q]
      <4>1. CASE p # q
        BY <3>1, <4>1, HandlerMoves
      <4>2. CASE p = q
        BY <1>4, <3>1, <4>2
        DEF Handler, Probe, SavePending, GetPending, HeadObject, Reserve, Log, PutItem,
            DropPending, DeleteObject, Update, LogOrphaned, Release, Crash
      <4>3. QED
        BY <4>1, <4>2
    <3>2. QED
      BY <3>1, NextIs, SurroundingsAre DEF Submit, Resend, vars
  <2>2. at[q] > 1
    <3>1. at'[q] # at[q] => at[q] # 1
      BY <1>1, <1>4, StepsAre DEF Read
    <3>2. QED
      BY <1>1, <3>1 DEF Read
  <2>3. QED
    BY <1>1, <2>1, <2>2 DEF Read
<1>5. QED
  BY <1>3, <1>4

-----------------------------------------------------------------------------
(* Items, entries and bytes *)

LEMMA AssetsInit == Init => AssetsInv
<1> SUFFICES ASSUME Init PROVE AssetsInv
  OBVIOUS
<1>1. Shapes
  BY ShapesInit
<1>2. PICK U \in SUBSET Assets :
        /\ at = [q \in Requests |-> 0] /\ replica = store
        /\ \A a \in Assets : /\ a \in U => store[a].item = NewItem
                             /\ a \notin U => store[a].item = NoItem
        /\ \A a \in Assets, op \in GammaOps : Entries(a, op) \in Nat
        /\ \A a \in U : Entries(a, "created") = 1
  <2>1. PICK U \in SUBSET Assets, V \in SUBSET Assets :
          /\ store = [a \in Assets |->
                        [pending |-> a \in V,
                         item |-> IF a \in U THEN NewItem ELSE NoItem]]
          /\ gamma = [a \in Assets |->
                        [entries |-> [op \in GammaOps |->
                             IF \/ op = "upload_initiated" /\ a \in U \cup V
                                \/ op = "created" /\ a \in U
                             THEN 1 ELSE 0],
                         open |-> {}]]
    BY InitIs
  <2>2. at = [q \in Requests |-> 0] /\ replica = store
    BY DEF Init
  <2>3. \A a \in Assets, op \in GammaOps : Entries(a, op) \in Nat
    BY <1>1 DEF Entries, Shapes, TypeOK
  <2>4. \A a \in U : Entries(a, "created") = 1
    BY <2>1, GammaOpsAre DEF Entries
  <2>5. \A a \in Assets : /\ a \in U => store[a].item = NewItem
                          /\ a \notin U => store[a].item = NoItem
    BY <2>1
  <2>6. QED
    BY <2>2, <2>3, <2>4, <2>5
<1>3. NewItem.state = "ACTIVE" /\ NewItem.referenced_by = {}
  BY DEF NewItem
<1>4. NoItem.state = "NONE" /\ NoItem.referenced_by = {}
  BY DEF NoItem
<1>5. ItemsStay /\ EntriesAreMade /\ UnrefsOrphan
  BY <1>2 DEF ItemsStay, EntriesAreMade, UnrefsOrphan, Read, Past
<1>6. Journaled
  <2>1. ASSUME NEW a \in Assets PROVE ItemIsJournaled(a, store[a].item)
    <3>1. IsFiniteSet({}) /\ Cardinality({}) = 0
      BY FS_EmptySet
    <3>2. Entries(a, "referenced") \in Nat
      BY <1>2, GammaOpsAre
    <3>3. CASE a \in U
      <4>1. /\ store[a].item.state = "ACTIVE" /\ store[a].item.referenced_by = {}
            /\ Entries(a, "created") = 1
        BY <1>2, <1>3, <3>3
      <4>2. QED
        BY <3>1, <3>2, <4>1 DEF ItemIsJournaled, Exists
    <3>4. CASE a \notin U
      <4>1. store[a].item.state = "NONE" /\ store[a].item.referenced_by = {}
        BY <1>2, <1>4, <3>4
      <4>2. QED
        BY <3>1, <3>2, <4>1 DEF ItemIsJournaled, Exists
    <3>5. QED
      BY <3>3, <3>4
  <2>2. QED
    BY <1>2, <2>1 DEF Journaled, Read
<1>7. QED
  BY <1>1, <1>5, <1>6 DEF AssetsInv

\* An update leaves an item, and one that is not ACTIVE without a reference.
LEMMA UpdateLeaves ==
    ASSUME Shapes, ItemsStay, NEW q \in Requests, Update(q)
    PROVE  Exists(store'[call[q].asset].item) /\ ~Bare(store'[call[q].asset].item)
<1>1. Read(q)
  BY UpdateIs DEF Read
<1>2. Exists(snap[q])
  BY <1>1 DEF ItemsStay
<1>3. QED
  BY <1>2, UpdateIs DEF Exists, Bare

LEMMA NextKeepsItems ==
    ASSUME Shapes, ItemsStay, [Next]_vars
    PROVE  /\ ItemsStay'
           /\ \A a \in Assets : Exists(store[a].item) => Exists(store'[a].item)
<1>1. ASSUME NEW a \in Assets, Exists(store[a].item) PROVE Exists(store'[a].item)
  BY <1>1, ItemsAre, UpdateLeaves
<1>2. ASSUME NEW a \in Assets, Exists(replica'[a].item) PROVE Exists(store'[a].item)
  BY <1>1, <1>2, ItemsAre DEF ItemsStay
<1>3. ASSUME NEW q \in Requests, Read(q)'
      PROVE  Exists(snap'[q]) /\ Exists(store'[call'[q].asset].item)
  <2>1. call[q].asset \in Assets
    BY DEF Shapes, TypeOK, Call
  <2>2. Exists(snap'[q]) /\ Exists(store[call[q].asset].item) /\ call'[q] = call[q]
    BY <1>3, <2>1, SnapsAre DEF ItemsStay, Readable
  <2>3. QED
    BY <1>1, <2>1, <2>2
<1>4. QED
  BY <1>1, <1>2, <1>3 DEF ItemsStay, Exists

\* What is journaled stays so.
LEMMA JournalGrows ==
    ASSUME Shapes, [Next]_vars, NEW a \in Assets, NEW it, ItemIsJournaled(a, it)
    PROVE  ItemIsJournaled(a, it)'
<1>1. \A op \in {"created", "tombstoned", "unreferenced", "referenced"} :
         /\ Entries(a, op) \in Nat /\ Entries(a, op)' \in Nat
         /\ Entries(a, op)' >= Entries(a, op)
  BY EntriesGrow, GammaOpsAre
<1>2. Cardinality(it.referenced_by) \in Nat
  BY FS_CardinalityType DEF ItemIsJournaled
<1>3. QED
  BY <1>1, <1>2 DEF ItemIsJournaled

LEMMA WriteIsJournaled ==
    ASSUME AssetsInv, [Next]_vars, NEW q \in Requests,
           NEW it, it = store'[call[q].asset].item,
           Update(q) \/ (PutItem(q) /\ it = NewItem)
    PROVE  ItemIsJournaled(call[q].asset, it)
<1> DEFINE a == call[q].asset
           old == snap[q].referenced_by
<1>1. /\ a \in Assets /\ call[q].ref \in References
      /\ \A op \in {"created", "tombstoned", "unreferenced", "referenced"} :
            Entries(a, op) \in Nat
  BY GammaOpsAre DEF AssetsInv, Shapes, TypeOK, Call, Entries
<1>2. CASE PutItem(q) /\ it = NewItem
  <2>1. Past(q, "complete", 4)
    BY <1>2, PlacesAre DEF PutItem, At, AssetsInv, Past
  <2>2. Entries(a, "created") > 0
    BY <2>1 DEF AssetsInv, EntriesAreMade
  <2>3. it.state = "ACTIVE" /\ it.referenced_by = {}
    BY <1>2 DEF NewItem
  <2>4. QED
    BY <1>1, <2>2, <2>3, FS_EmptySet DEF ItemIsJournaled, Exists
<1>3. CASE Update(q)
  <2>1. Read(q) /\ Shapes
    BY <1>3, UpdateIs DEF AssetsInv, Read
  <2>2. ItemIsJournaled(a, snap[q]) /\ ItemIsJournaled(a, store[a].item) /\ Exists(snap[q])
    BY <1>1, <2>1 DEF AssetsInv, Journaled, ItemsStay
  <2>3. IsFiniteSet(old) /\ Cardinality(old) \in Nat /\ Entries(a, "created") > 0
    BY <2>2, FS_CardinalityType DEF ItemIsJournaled
  <2>4. CASE call[q].op = "ref"
    <3>1. /\ it.referenced_by = old \cup {call[q].ref}
          /\ it.state = IF call[q].ref \in old THEN snap[q].state ELSE "ACTIVE"
          /\ Past(q, "ref", 2)
      BY <1>3, <2>1, <2>4, UpdateIs DEF Past
    <3>2. Cardinality(old) + 1 <= Entries(a, "referenced")
      BY <3>1 DEF AssetsInv, EntriesAreMade
    <3>3. /\ IsFiniteSet(it.referenced_by) /\ Cardinality(it.referenced_by) \in Nat
          /\ Cardinality(it.referenced_by) <= Cardinality(old) + 1
      <4> DEFINE new == old \cup {call[q].ref}
      <4>1. /\ IsFiniteSet(new)
            /\ Cardinality(new) \in {Cardinality(old), Cardinality(old) + 1}
        <5> HIDE DEF old
        <5>1. QED
          BY <2>3, FS_AddElement
      <4>2. it.referenced_by = new
        BY <3>1
      <4> HIDE DEF old, new
      <4>3. QED
        BY <2>3, <4>1, <4>2
    <3>4. Cardinality(it.referenced_by) <= Entries(a, "referenced")
      BY <1>1, <2>3, <3>2, <3>3
    <3>5. QED
      BY <2>2, <2>3, <3>1, <3>3, <3>4 DEF ItemIsJournaled, Exists
  <2>5. CASE call[q].op = "unref"
    <3>1. /\ it.referenced_by = old \ {call[q].ref}
          /\ it.state = IF it.referenced_by = {} THEN "ORPHANED" ELSE "ACTIVE"
          /\ Past(q, "unref", 2)
      BY <1>3, <2>1, <2>5, UpdateIs DEF Past
    <3>2. Entries(a, "unreferenced") > 0
      BY <3>1 DEF AssetsInv, EntriesAreMade
    <3>3. /\ IsFiniteSet(it.referenced_by)
          /\ Cardinality(it.referenced_by) <= Cardinality(old)
          /\ Cardinality(it.referenced_by) \in Nat
      BY <2>3, <3>1, FS_Subset, FS_CardinalityType
    <3>4. Cardinality(it.referenced_by) <= Entries(a, "referenced")
      BY <1>1, <2>2, <2>3, <3>3 DEF ItemIsJournaled
    <3>5. QED
      BY <2>3, <3>1, <3>2, <3>3, <3>4 DEF ItemIsJournaled, Exists
  <2>6. CASE call[q].op = "delete"
    <3>1. /\ it.referenced_by = store[a].item.referenced_by /\ it.state = "TOMBSTONED"
          /\ Past(q, "delete", 4)
      BY <1>3, <2>1, <2>6, UpdateIs DEF Past
    <3>2. Entries(a, "tombstoned") > 0
      BY <3>1 DEF AssetsInv, EntriesAreMade
    <3>3. QED
      BY <2>2, <2>3, <3>1, <3>2 DEF ItemIsJournaled, Exists
  <2>7. QED
    BY <1>3, <2>1, <2>4, <2>5, <2>6, UpdateIs
<1>4. QED
  BY <1>2, <1>3

LEMMA NextKeepsJournal ==
    ASSUME AssetsInv, [Next]_vars
    PROVE  Journaled'
<1>1. Shapes /\ Journaled
  BY DEF AssetsInv
<1>2. ASSUME NEW a \in Assets, NEW it, it = store'[a].item
      PROVE  ItemIsJournaled(a, it)'
  <2>1. ItemIsJournaled(a, it)
    <3>1. CASE it = store[a].item
      BY <1>1, <3>1 DEF Journaled
    <3>2. CASE \E q \in Requests : /\ Update(q) \/ (PutItem(q) /\ it = NewItem)
                                   /\ call[q].asset = a
      BY <1>2, <3>2, WriteIsJournaled
    <3>3. QED
      BY <1>1, <1>2, <3>1, <3>2, ItemsAre
  <2>2. QED
    BY <1>1, <2>1, JournalGrows
<1>3. ASSUME NEW a \in Assets, NEW it, it = replica'[a].item
      PROVE  ItemIsJournaled(a, it)'
  <2>1. ItemIsJournaled(a, it)
    BY <1>1, <1>3, ItemsAre DEF Journaled
  <2>2. QED
    BY <1>1, <2>1, JournalGrows
<1>4. ASSUME NEW q \in Requests, Read(q)', NEW it, it = snap'[q],
             NEW a \in Assets, a = call'[q].asset
      PROVE  ItemIsJournaled(a, it)'
  <2>1. ItemIsJournaled(a, it)
    BY <1>1, <1>4, SnapsAre DEF Journaled, Readable
  <2>2. QED
    BY <1>1, <2>1, JournalGrows
<1>5. \A q \in Requests : call'[q].asset \in Assets
  BY <1>1, NextKeepsShapes DEF Shapes, TypeOK, Call
<1>6. QED
  BY <1>2, <1>3, <1>4, <1>5 DEF Journaled, ItemIsJournaled

\* A request gets past its log by making its entry.
LEMMA LogsAre ==
    ASSUME Shapes, [Next]_vars, NEW q \in Requests, NEW op \in AllOps, NEW n \in 1..5,
           Past(q, op, n)', ~Past(q, op, n)
    PROVE  /\ call'[q] = call[q] /\ call[q].op = op /\ Handler(q) /\ at[q] = n
           /\ at'[q] = n + 1
           /\ Log(q) => gamma'[call[q].asset].entries[LogOp[op]]
                          = gamma[call[q].asset].entries[LogOp[op]] + 1
<1>1. /\ call'[q] = call[q] /\ call[q].op = op /\ Handler(q) /\ at[q] = n
      /\ at'[q] = n + 1
  BY CallsStay DEF Past
<1>2. ASSUME Log(q)
      PROVE  gamma'[call[q].asset].entries[LogOp[op]]
               = gamma[call[q].asset].entries[LogOp[op]] + 1
  <2>1. call[q].asset \in Assets /\ call[q].ref \in References /\ LogOp[op] \in GammaOps
    BY DEF Shapes, TypeOK, Call, GammaOps
  <2>2. gamma' = Logged(call[q].asset, LogOp[op], call[q].ref)
    BY <1>1, <1>2 DEF Log
  <2> DEFINE a == call[q].asset
             o == LogOp[op]
  <2> HIDE DEF o, a
  <2>3. a \in Assets /\ call[q].ref \in References /\ o \in GammaOps
    BY <2>1 DEF o, a
  <2>4. gamma' = Logged(a, o, call[q].ref)
    BY <2>2 DEF o, a
  <2>5. gamma'[a].entries[o] = gamma[a].entries[o] + (IF a = a /\ o = o THEN 1 ELSE 0)
    BY <2>3, <2>4, LoggedIs DEF Entries
  <2>6. QED
    BY <2>5 DEF o, a
<1>3. QED
  BY <1>1, <1>2

LEMMA NextKeepsEntries ==
    ASSUME AssetsInv, [Next]_vars
    PROVE  EntriesAreMade'
<1> SUFFICES ASSUME NEW q \in Requests
             PROVE  LET es == gamma'[call'[q].asset].entries IN
                    /\ Past(q, "complete", 4)' => es["created"] > 0
                    /\ Past(q, "delete", 4)' => es["tombstoned"] > 0
                    /\ Past(q, "unref", 2)' => es["unreferenced"] > 0
                    /\ Past(q, "ref", 2)' => Cardinality(snap'[q].referenced_by) + 1
                                                <= es["referenced"]
  BY DEF EntriesAreMade, Entries, Past
<1> DEFINE a == call[q].asset
<1>1. Shapes /\ a \in Assets
  BY DEF AssetsInv, Shapes, TypeOK, Call
<1>2. \A op \in {"created", "tombstoned", "unreferenced", "referenced"} :
         /\ gamma[a].entries[op] \in Nat /\ gamma'[a].entries[op] \in Nat
         /\ gamma'[a].entries[op] >= gamma[a].entries[op]
  BY <1>1, EntriesGrow, GammaOpsAre DEF Entries
<1>3. at[q] \in Nat /\ (at[q] > 0 => call'[q] = call[q])
  BY <1>1, CallsStay
<1>4. ASSUME Past(q, "complete", 4)' PROVE gamma'[call'[q].asset].entries["created"] > 0
  <2>1. CASE Past(q, "complete", 4)
    BY <1>2, <1>3, <2>1 DEF AssetsInv, EntriesAreMade, Entries, Past
  <2>2. CASE ~Past(q, "complete", 4)
    <3>1. call'[q] = call[q] /\ Log(q)
      BY <1>1, <1>4, <2>2, LogsAre, StepsAre DEF AllOps
    <3>2. gamma'[a].entries["created"] = gamma[a].entries["created"] + 1
      BY <1>1, <1>4, <2>2, <3>1, LogsAre DEF AllOps, LogOp
    <3>3. QED
      BY <1>2, <3>1, <3>2
  <2>3. QED
    BY <2>1, <2>2
<1>5. ASSUME Past(q, "delete", 4)' PROVE gamma'[call'[q].asset].entries["tombstoned"] > 0
  <2>1. CASE Past(q, "delete", 4)
    BY <1>2, <1>3, <2>1 DEF AssetsInv, EntriesAreMade, Entries, Past
  <2>2. CASE ~Past(q, "delete", 4)
    <3>1. call'[q] = call[q] /\ Log(q)
      BY <1>1, <1>5, <2>2, LogsAre, StepsAre DEF AllOps
    <3>2. gamma'[a].entries["tombstoned"] = gamma[a].entries["tombstoned"] + 1
      BY <1>1, <1>5, <2>2, <3>1, LogsAre DEF AllOps, LogOp
    <3>3. QED
      BY <1>2, <3>1, <3>2
  <2>3. QED
    BY <2>1, <2>2
<1>6. ASSUME Past(q, "unref", 2)' PROVE gamma'[call'[q].asset].entries["unreferenced"] > 0
  <2>1. CASE Past(q, "unref", 2)
    BY <1>2, <1>3, <2>1 DEF AssetsInv, EntriesAreMade, Entries, Past
  <2>2. CASE ~Past(q, "unref", 2)
    <3>1. call'[q] = call[q] /\ Log(q)
      BY <1>1, <1>6, <2>2, LogsAre, StepsAre DEF AllOps
    <3>2. gamma'[a].entries["unreferenced"] = gamma[a].entries["unreferenced"] + 1
      BY <1>1, <1>6, <2>2, <3>1, LogsAre DEF AllOps, LogOp
    <3>3. QED
      BY <1>2, <3>1, <3>2
  <2>3. QED
    BY <2>1, <2>2
<1>7. ASSUME Past(q, "ref", 2)'
      PROVE  Cardinality(snap'[q].referenced_by) + 1
               <= gamma'[call'[q].asset].entries["referenced"]
  <2>1. at[q] > 1 /\ call'[q] = call[q] /\ call[q].op = "ref" /\ Read(q) /\ Read(q)'
    <3>1. CASE Past(q, "ref", 2)
      BY <1>1, <1>3, <1>7, <3>1, CallsStay DEF Past, Read
    <3>2. CASE ~Past(q, "ref", 2)
      BY <1>1, <1>7, <3>2, LogsAre DEF AllOps, Past, Read
    <3>3. QED
      BY <3>1, <3>2
  <2>2. snap'[q] = snap[q]
    BY <1>1, <2>1, SnapsAre
  <2>3. /\ Cardinality(snap[q].referenced_by) \in Nat
        /\ Cardinality(snap[q].referenced_by) <= gamma[a].entries["referenced"]
    BY <2>1, FS_CardinalityType DEF AssetsInv, Journaled, ItemIsJournaled, Entries
  <2>4. CASE Past(q, "ref", 2)
    <3>1. Cardinality(snap[q].referenced_by) + 1 <= gamma[a].entries["referenced"]
      BY <2>4 DEF AssetsInv, EntriesAreMade, Entries
    <3>2. QED
      BY <1>2, <2>1, <2>2, <2>3, <3>1
  <2>5. CASE ~Past(q, "ref", 2)
    <3>1. gamma'[a].entries["referenced"] = gamma[a].entries["referenced"] + 1
      <4>1. Log(q)
        BY <1>1, <1>7, <2>5, LogsAre, StepsAre DEF AllOps
      <4>2. QED
        BY <1>1, <1>7, <2>5, <4>1, LogsAre DEF AllOps, LogOp
    <3>2. QED
      BY <1>2, <2>1, <2>2, <2>3, <3>1
  <2>6. QED
    BY <2>4, <2>5
<1>8. QED
  BY <1>4, <1>5, <1>6, <1>7

LEMMA NextKeepsUnrefs ==
    ASSUME AssetsInv, [Next]_vars
    PROVE  UnrefsOrphan'
<1> SUFFICES ASSUME NEW q \in Requests, Past(q, "unref", 3)'
             PROVE  ~Bare(store'[call'[q].asset].item)
  BY DEF UnrefsOrphan, Bare
<1> DEFINE a == call[q].asset
<1>1. Shapes /\ ItemsStay /\ a \in Assets
  BY DEF AssetsInv, Shapes, TypeOK, Call
<1>2. CASE Past(q, "unref", 3)
  <2>1. call'[q] = call[q] /\ Read(q)
    BY <1>1, <1>2, CallsStay DEF Past, Read
  <2>2. Exists(store[a].item) /\ ~Bare(store[a].item)
    BY <1>2, <2>1 DEF AssetsInv, ItemsStay, UnrefsOrphan
  <2>3. QED
    BY <1>1, <2>1, <2>2, ItemsAre, UpdateLeaves
<1>3. CASE ~Past(q, "unref", 3)
  <2>1. call'[q] = call[q] /\ Update(q)
    BY <1>1, <1>3, LogsAre, StepsAre DEF AllOps
  <2>2. QED
    BY <1>1, <2>1, UpdateLeaves
<1>4. QED
  BY <1>2, <1>3

LEMMA NextKeepsAssets == AssetsInv /\ [Next]_vars => AssetsInv'
<1> SUFFICES ASSUME AssetsInv, [Next]_vars PROVE AssetsInv'
  OBVIOUS
<1>1. Shapes' /\ ItemsStay'
  BY NextKeepsShapes, NextKeepsItems DEF AssetsInv
<1>2. QED
  BY <1>1, NextKeepsJournal, NextKeepsEntries, NextKeepsUnrefs DEF AssetsInv

LEMMA AssetsAlways == Spec => []AssetsInv
BY AssetsInit, NextKeepsAssets, PTL DEF Spec

\* The types of the tables, the quota, the log and the requests hold for any numbers
\* of assets, references and requests.
THEOREM AssetsTypeCorrect == Spec => []TypeOK
<1>1. AssetsInv => TypeOK
  BY DEF AssetsInv, Shapes
<1>2. QED
  BY <1>1, AssetsAlways, PTL

\* What the table shows of an asset has its entries in gamma, also when the handler
\* died right after its write, or wrote what it had read from a replica.
THEOREM TablesAreJournaled == Spec => []TableIsJournaled
<1>1. AssetsInv => TableIsJournaled
  BY DEF AssetsInv, Journaled, ItemIsJournaled, TableIsJournaled
<1>2. QED
  BY <1>1, AssetsAlways, PTL

\* An ORPHANED asset has no reference, and after an unref_asset has answered an
\* asset without a reference is not ACTIVE, however the updates overwrite each other.
THEOREM StatesMatch == Spec => []StateMatchesReferences
<1>1. ASSUME AssetsInv, NEW a \in Assets, NEW q \in Requests,
             call[q].op = "unref", call[q].asset = a, answer[q] = "ok"
      PROVE  ~Bare(store[a].item)
  <2>1. at[q] = 5
    <3>1. at[q] = Len(Script["unref"]) + 1
      BY <1>1 DEF AssetsInv, Shapes
    <3>2. QED
      BY <3>1, ScriptsAre
  <2>2. QED
    BY <1>1, <2>1 DEF AssetsInv, UnrefsOrphan, Past
<1>2. AssetsInv => StateMatchesReferences
  BY <1>1 DEF AssetsInv, Journaled, ItemIsJournaled, StateMatchesReferences, Bare
<1>3. QED
  BY <1>2, AssetsAlways, PTL

-----------------------------------------------------------------------------
(* The quota *)

LEMMA QuotaInit == Init => QuotaInv
<1> SUFFICES ASSUME Init PROVE QuotaInv
  OBVIOUS
<1>1. PICK U \in SUBSET Assets : /\ used = Total(U)
                                /\ \A a \in Assets : Exists(store[a].item) => a \in U
  BY InitIs DEF Exists, NoItem
<1>2. Claimed \subseteq U
  <2>1. \A q \in Requests : ~Claims(q)
    BY DEF Init, Claims, Active, Idle
  <2>2. QED
    BY <1>1, <2>1 DEF Claimed
<1>3. QED
  BY <1>1, <1>2, TotalGrows DEF QuotaInv

\* A delete_asset, or the client of DynamoDB in its name, takes its bytes off.
GivesBack(q) ==
    LET b == call[q].asset IN
    /\ Read(q) /\ released' = [released EXCEPT ![b] = @ + 1]
    /\ used' = IF used >= Size[b] THEN used - Size[b] ELSE used
    /\ UNCHANGED store

\* An ADD for a new asset is sent again.
ReservesAgain(q) ==
    /\ Resend(q) /\ released' = released /\ used' = used + Size[call[q].asset]

LEMMA ReleaseGivesBack ==
    ASSUME Shapes, NEW q \in Requests, Release(q) \/ Resend(q)
    PROVE  GivesBack(q) \/ ReservesAgain(q)
<1>1. CASE Release(q)
  <2>1. Read(q)
    BY <1>1, PlacesAre DEF Release, At, Read
  <2>2. QED
    BY <1>1, <2>1 DEF Release, GivesBack
<1>2. CASE Resend(q) /\ At(q, "complete", "reserve")
  <2>1. ~At(q, "delete", "release")
    BY <1>2 DEF At
  <2>2. QED
    BY <1>2, <2>1 DEF Resend, ReservesAgain
<1>3. CASE Resend(q) /\ ~At(q, "complete", "reserve")
  <2>1. At(q, "delete", "release")
    BY <1>3 DEF Resend
  <2>2. Read(q)
    BY <2>1, PlacesAre DEF At, Read
  <2>3. QED
    BY <1>3, <2>2 DEF Resend, GivesBack
<1>4. QED
  BY <1>1, <1>2, <1>3

\* Who changes the counter.
LEMMA UsedIs ==
    ASSUME Shapes, [Next]_vars
    PROVE  \/ used' = used /\ released' = released
           \/ \E q \in Requests : GivesBack(q) \/ ReservesAgain(q)
           \/ \E q \in Requests : Reserve(q) /\ released' = released
                                  /\ used' = used + Size[call[q].asset]
<1>1. ASSUME NEW q \in Requests, Handler(q), ~Release(q), ~Reserve(q)
      PROVE  used' = used /\ released' = released
  BY <1>1 DEF Handler, Probe, SavePending, GetPending, HeadObject, Log, PutItem,
              DropPending, DeleteObject, GetItem, Update, LogOrphaned, Crash
<1>2. ASSUME NEW q \in Requests, Reserve(q)
      PROVE  released' = released /\ used' \in {used, used + Size[call[q].asset]}
  BY <1>2 DEF Reserve
<1>3. QED
  BY <1>1, <1>2, ReleaseGivesBack, NextIs, SurroundingsAre DEF Submit, vars

\* Charged for is what was, and what a request has reserved room for just now.
LEMMA ClaimsAre ==
    ASSUME AssetsInv, [Next]_vars, NEW a \in Assets, a \in Claimed', released'[a] = released[a]
    PROVE  \/ a \in Claimed
           \/ \E q \in Requests : /\ Reserve(q) /\ call[q].asset = a
                                  /\ used' = used + Size[a]
<1>1. Shapes /\ released[a] = 0
  BY DEF AssetsInv, Claimed
<1>2. CASE Exists(store'[a].item) /\ ~Exists(store[a].item)
  <2>1. ASSUME NEW q \in Requests, Update(q), call[q].asset = a PROVE FALSE
    <3>1. Read(q)
      BY <1>1, <2>1, UpdateIs DEF Read
    <3>2. QED
      BY <1>2, <2>1, <3>1 DEF AssetsInv, ItemsStay
  <2>2. PICK q \in Requests : PutItem(q) /\ call[q].asset = a
    BY <1>1, <1>2, <2>1, ItemsAre
  <2>3. Claims(q)
    BY <1>1, <2>2, PlacesAre DEF PutItem, At, Claims
  <2>4. QED
    BY <1>1, <2>2, <2>3 DEF Claimed
<1>3. ASSUME NEW q \in Requests, Claims(q)', call'[q].asset = a, a \notin Claimed
      PROVE  Reserve(q) /\ call[q].asset = a /\ used' = used + Size[a]
  <2>1. /\ at'[q] \in {4, 5} /\ at[q] \in Nat /\ call'[q] = call[q]
        /\ at'[q] # at[q] => Handler(q) /\ at'[q] = at[q] + 1
        /\ call[q].op = "complete" /\ call[q].asset = a
    BY <1>1, <1>3, CallsStay DEF Claims
  <2>2. ~Claims(q)
    BY <1>1, <1>3, <2>1 DEF Claimed
  <2>3. at'[q] # at[q]
    <3> SUFFICES ASSUME at'[q] = at[q] PROVE FALSE
      OBVIOUS
    <3>1. ~Handler(q)
      BY <1>1, <1>3, <2>1, HandlerMoves DEF Claims
    <3>2. answer'[q] = answer[q]
      <4>1. ASSUME NEW p \in Requests, Handler(p) PROVE answer'[q] = answer[q]
        BY <1>1, <3>1, <4>1, HandlerMoves
      <4>2. QED
        BY <1>1, <4>1, NextIs, SurroundingsAre DEF Submit, Resend, vars
    <3>3. QED
      BY <1>3, <2>1, <2>2, <3>2 DEF Claims, Active, Idle, Done
  <2>4. at[q] \in {3, 4} /\ Active(q)
    BY <1>1, <2>1, <2>3, HandlerMoves
  <2>5. at[q] = 3 /\ Reserve(q)
    BY <1>1, <2>1, <2>2, <2>3, <2>4, StepsAre DEF Claims
  <2>6. used' = used + Size[a]
    BY <2>1, <2>3, <2>5 DEF Reserve, Answer
  <2>7. QED
    BY <2>1, <2>5, <2>6
<1>4. QED
  BY <1>1, <1>2, <1>3 DEF Claimed

LEMMA NextKeepsQuota ==
    ASSUME AssetsInv, QuotaInv, [Next]_vars
    PROVE  QuotaInv'
<1> SUFFICES ASSUME \A a \in Assets : released'[a] <= 1
             PROVE  Total(Claimed') <= used'
  BY DEF QuotaInv
<1>1. /\ Shapes /\ used \in Nat /\ released \in [Assets -> Nat]
      /\ \A q \in Requests : call[q].asset \in Assets
  BY DEF AssetsInv, Shapes, TypeOK, Call
<1>2. Claimed \in SUBSET Assets /\ Claimed' \in SUBSET Assets
  BY DEF Claimed
<1>3. Total(Claimed) \in Nat /\ Total(Claimed') \in Nat
  BY <1>2, TotalIs
<1>4. CASE used' = used /\ released' = released
  <2>1. Total(Claimed) <= used
    BY <1>4 DEF QuotaInv
  <2>2. Claimed' \subseteq Claimed
    <3>1. \A a \in Assets : Size[a] \in Nat \ {0}
      BY SizeIs
    <3>2. ASSUME NEW a \in Claimed' PROVE a \in Claimed
      BY <1>1, <1>2, <1>4, <3>1, <3>2, ClaimsAre
    <3>3. QED
      BY <3>2
  <2>3. Total(Claimed') <= Total(Claimed)
    BY <1>2, <2>2, TotalGrows
  <2>4. QED
    BY <1>1, <1>3, <1>4, <2>1, <2>3
<1>5. ASSUME NEW q \in Requests, Reserve(q), released' = released,
             used' = used + Size[call[q].asset]
      PROVE  Total(Claimed') <= used'
  <2> DEFINE b == call[q].asset
             new == Claimed \cup {b}
  <2>1. Total(Claimed) <= used
    BY <1>5 DEF QuotaInv
  <2>2. b \in Assets /\ Size[b] \in Nat \ {0} /\ new \in SUBSET Assets
    BY <1>1, <1>2, SizeIs
  <2>3. Claimed' \subseteq new
    <3>1. ASSUME NEW a \in Claimed', a \notin Claimed PROVE a = b
      <4>1. PICK p \in Requests : Reserve(p) /\ call[p].asset = a
        BY <1>2, <1>5, <3>1, ClaimsAre
      <4>2. p = q
        <5>1. Handler(p) /\ Handler(q) /\ at'[q] = at[q] + 1
          <6>1. used' # used
            BY <1>1, <1>5, <2>2
          <6>2. QED
            BY <1>1, <1>5, <4>1, <6>1 DEF Handler, Reserve, Continue, Shapes
        <5>2. at[q] \in Nat
          BY <1>1 DEF Shapes
        <5>3. QED
          BY <1>1, <5>1, <5>2, HandlerMoves
      <4>3. QED
        BY <4>1, <4>2
    <3>2. QED
      BY <3>1
  <2>4. Total(Claimed') <= Total(new) /\ Total(new) \in Nat
    BY <2>2, <2>3, TotalGrows, TotalIs
  <2>5. Total(new) <= Total(Claimed) + Size[b]
    <3>1. CASE b \in Claimed
      <4>1. new = Claimed
        BY <3>1
      <4> HIDE DEF new
      <4>2. QED
        BY <1>3, <2>2, <4>1
    <3>2. CASE b \notin Claimed
      <4>1. Total(new) = Total(Claimed) + Size[b]
        BY <1>2, <2>2, <3>2, TotalAdd
      <4> HIDE DEF new
      <4>2. QED
        BY <1>3, <2>2, <4>1
    <3>3. QED
      BY <3>1, <3>2
  <2> HIDE DEF new
  <2>6. QED
    BY <1>1, <1>3, <1>5, <2>1, <2>2, <2>4, <2>5
<1>6. ASSUME NEW q \in Requests, GivesBack(q)
      PROVE  Total(Claimed') <= used'
  <2> DEFINE b == call[q].asset
             rest == Claimed \ {b}
  <2>1. /\ released' = [released EXCEPT ![b] = @ + 1] /\ b \in Assets
        /\ used' = IF used >= Size[b] THEN used - Size[b] ELSE used
    BY <1>1, <1>6 DEF GivesBack
  <2>2. /\ released'[b] = released[b] + 1 /\ released[b] = 0
        /\ \A a \in Assets \ {b} : released'[a] = released[a]
    BY <1>1, <2>1
  <2>3. Total(Claimed) <= used
    BY <1>1, <2>1, <2>2 DEF QuotaInv
  <2>4. b \in Claimed
    <3>1. Read(q)
      BY <1>6 DEF GivesBack
    <3>2. QED
      BY <2>1, <2>2, <3>1 DEF AssetsInv, ItemsStay, Claimed
  <2>5. Claimed' \subseteq rest
    <3>1. b \notin Claimed'
      BY <2>2 DEF Claimed
    <3>2. ~\E p \in Requests : Reserve(p)
      <4> SUFFICES ASSUME NEW p \in Requests, Reserve(p) PROVE FALSE
        OBVIOUS
      <4>1. released' = released
        BY DEF Reserve
      <4>2. QED
        BY <2>2, <4>1
    <3>3. \A a \in Claimed' : a \in Claimed
      BY <1>2, <2>2, <3>1, <3>2, ClaimsAre
    <3>4. QED
      BY <3>1, <3>3
  <2>6. Total(Claimed) = Total(rest) + Size[b] /\ Total(rest) \in Nat /\ Size[b] \in Nat
    <3>1. rest \in SUBSET Assets /\ b \in Assets \ rest /\ rest \cup {b} = Claimed
      BY <1>2, <2>1, <2>4
    <3> HIDE DEF rest, b
    <3>2. QED
      BY <3>1, TotalAdd, TotalIs, SizeIs
  <2>7. Total(Claimed') <= Total(rest)
    BY <1>2, <2>5, TotalGrows
  <2> HIDE DEF rest, b
  <2>8. QED
    BY <1>1, <1>3, <2>1, <2>3, <2>6, <2>7
<1>7. ASSUME NEW q \in Requests, ReservesAgain(q)
      PROVE  Total(Claimed') <= used'
  <2>1. Total(Claimed) <= used /\ Size[call[q].asset] \in Nat
    BY <1>1, <1>7, SizeIs DEF QuotaInv, ReservesAgain
  <2>2. ~\E p \in Requests : Reserve(p)
    BY <1>7 DEF ReservesAgain, Resend, Reserve
  <2>3. Claimed' \subseteq Claimed
    BY <1>2, <1>7, <2>2, ClaimsAre DEF ReservesAgain
  <2>4. Total(Claimed') <= Total(Claimed)
    BY <1>2, <2>3, TotalGrows
  <2>5. QED
    BY <1>1, <1>3, <1>7, <2>1, <2>4 DEF ReservesAgain
<1>8. QED
  BY <1>1, <1>4, <1>5, <1>6, <1>7, UsedIs

\* As long as no asset is deleted twice, the quota covers what is stored: over
\* crashes of complete_upload at any point, completes that run twice and any order of
\* overlapping requests.
THEOREM QuotaCovers == Spec => []UsedCoversStored
<1>1. Init => AssetsInv /\ QuotaInv
  BY AssetsInit, QuotaInit
<1>2. AssetsInv /\ QuotaInv /\ [Next]_vars => (AssetsInv /\ QuotaInv)'
  BY NextKeepsAssets, NextKeepsQuota
<1>3. AssetsInv /\ QuotaInv => UsedCoversStored
  <2> SUFFICES ASSUME AssetsInv, QuotaInv, \A a \in Assets : released[a] <= 1
               PROVE  Total(Held) <= used
    BY DEF UsedCoversStored, Total
  <2>1. Held \subseteq Claimed /\ Claimed \in SUBSET Assets /\ Held \in SUBSET Assets
    BY DEF Claimed, Held
  <2>2. Total(Held) <= Total(Claimed) /\ Total(Claimed) \in Nat /\ Total(Held) \in Nat
    BY <2>1, TotalGrows, TotalIs
  <2>3. Total(Claimed) <= used /\ used \in Nat
    BY DEF QuotaInv, AssetsInv, Shapes, TypeOK
  <2>4. QED
    BY <2>2, <2>3
<1>4. QED
  BY <1>1, <1>2, <1>3, PTL DEF Spec

-----------------------------------------------------------------------------
(* What the counter has too much *)

\* The requests whose bytes were charged and are not stored.
Pending == {q \in Requests : Unsettled(q)}

Loads(S) == BytesOf(Load, S)

DriftInv ==
    /\ \A q \in twice : ~Idle(q)
    /\ \A a \in Assets : released[a] > 0 => Exists(store[a].item)
    /\ (\A a \in Assets : released[a] <= 1) =>
           used <= Total(Held) + Loads(Pending) + Loads(twice)

LEMMA UnsettledIs ==
    ASSUME NEW q
    PROVE  Unsettled(q) <=> call[q].op = "complete" /\ at[q] \in {4, 5}
BY DEF Unsettled, Script

LEMMA LoadIs ==
    ASSUME Shapes
    PROVE  /\ Load \in [Requests -> Nat]
           /\ \A q \in Requests : Load[q] = Size[call[q].asset]
BY SizeIs DEF Shapes, TypeOK, Call, Load

LEMMA LoadsAre ==
    ASSUME Shapes, NEW S \in SUBSET Requests
    PROVE  Loads(S) \in Nat
<1>1. Load \in [Requests -> Nat]
  BY LoadIs
<1>2. QED
  BY <1>1, RequestsAssumption, BytesAre DEF Loads

LEMMA LoadsAdd ==
    ASSUME Shapes, NEW S \in SUBSET Requests, NEW q \in Requests \ S
    PROVE  Loads(S \cup {q}) = Loads(S) + Size[call[q].asset]
<1>1. Load \in [Requests -> Nat] /\ Load[q] = Size[call[q].asset]
  BY LoadIs
<1>2. BytesOf(Load, S \cup {q}) = BytesOf(Load, S) + Load[q]
  BY <1>1, RequestsAssumption, BytesAdd
<1>3. QED
  BY <1>1, <1>2 DEF Loads

LEMMA LoadsGrow ==
    ASSUME Shapes, NEW T \in SUBSET Requests, NEW S \in SUBSET T
    PROVE  Loads(S) <= Loads(T)
<1>1. Load \in [Requests -> Nat]
  BY LoadIs
<1>2. QED
  BY <1>1, RequestsAssumption, BytesGrow DEF Loads

\* What was sent is about the same bytes as before.
LEMMA LoadsStay ==
    ASSUME Shapes, [Next]_vars, NEW S \in SUBSET Requests, \A q \in S : ~Idle(q)
    PROVE  Loads(S)' = Loads(S)
<1>1. Load \in [Requests -> Nat] /\ Load' \in [Requests -> Nat]
  <2>1. Shapes'
    BY NextKeepsShapes
  <2>2. Load' \in [Requests -> Nat]
    BY <2>1, SizeIs DEF Shapes, TypeOK, Call, Load
  <2>3. QED
    BY <2>2, LoadIs
<1>2. ASSUME NEW q \in S PROVE Load[q] = Load'[q]
  <2>1. call'[q] = call[q]
    BY CallsStay DEF Idle
  <2>2. QED
    BY <2>1 DEF Load
<1> DEFINE v == Load'
<1>3. v \in [Requests -> Nat] /\ \A q \in S : Load[q] = v[q]
  BY <1>1, <1>2
<1> HIDE DEF v
<1>4. BytesOf(Load, S) = BytesOf(v, S)
  BY <1>1, <1>3, RequestsAssumption, BytesAgree
<1>5. QED
  BY <1>4 DEF v, Loads

\* A request comes to be charged by Reserve, and is no more once its item is put.
LEMMA PendingIs ==
    ASSUME Shapes, [Next]_vars, NEW q \in Requests
    PROVE  Unsettled(q)' <=> \/ Unsettled(q) /\ ~(PutItem(q) /\ at'[q] # at[q])
                             \/ Reserve(q) /\ at'[q] # at[q]
<1>1. /\ at[q] \in Nat /\ at'[q] \in Nat
      /\ at[q] > 0 => call'[q] = call[q]
      /\ at'[q] > 1 => at[q] > 0
      /\ at'[q] > 1 /\ at'[q] # at[q] => Handler(q) /\ at'[q] = at[q] + 1
      /\ at[q] > 0 => at'[q] >= at[q]
  BY CallsStay
<1>2. CASE at'[q] = at[q]
  <2>1. at[q] = 0 => ~Unsettled(q) /\ ~Unsettled(q)'
    BY <1>2, UnsettledIs DEF Unsettled, Script
  <2>2. at[q] > 0 => (Unsettled(q)' <=> Unsettled(q))
    BY <1>1, <1>2 DEF Unsettled
  <2>3. QED
    BY <1>1, <1>2, <2>1, <2>2
<1>3. CASE at'[q] # at[q] /\ at'[q] <= 1
  <2>1. at[q] = 0
    BY <1>1, <1>3
  <2>2. ~Unsettled(q) /\ ~Unsettled(q)'
    <3>1. at'[q] \in {0, 1}
      BY <1>1, <1>3
    <3>2. QED
      BY <2>1, <3>1 DEF Unsettled, Script
  <2>3. ~Reserve(q)
    BY <2>1 DEF Reserve, At, Active, Idle
  <2>4. QED
    BY <2>2, <2>3
<1>4. CASE at'[q] # at[q] /\ at'[q] > 1
  <2>1. Handler(q) /\ at'[q] = at[q] + 1 /\ call'[q] = call[q] /\ at[q] > 0
    BY <1>1, <1>4
  <2>2. Unsettled(q)' <=> call[q].op = "complete" /\ at[q] \in {3, 4}
    <3>1. Unsettled(q)' <=> call'[q].op = "complete" /\ at'[q] \in {4, 5}
      BY DEF Unsettled, Script
    <3>2. QED
      BY <1>1, <2>1, <3>1
  <2>3. Reserve(q) <=> call[q].op = "complete" /\ at[q] = 3
    BY <1>4, <2>1, StepsAre, PlacesAre DEF Reserve, At
  <2>4. PutItem(q) <=> call[q].op = "complete" /\ at[q] = 5
    BY <1>4, <2>1, StepsAre, PlacesAre DEF PutItem, At
  <2>5. QED
    BY <1>1, <1>4, <2>2, <2>3, <2>4, UnsettledIs
<1>5. QED
  BY <1>1, <1>2, <1>3, <1>4

LEMMA DriftInit == Init => DriftInv
<1> SUFFICES ASSUME Init PROVE DriftInv
  OBVIOUS
<1>1. Shapes
  BY ShapesInit
<1>2. PICK U \in SUBSET Assets : /\ used = Total(U)
                                /\ \A a \in U : store[a].item = NewItem
  BY InitIs
<1>3. U \subseteq Held
  <2>1. released = [a \in Assets |-> 0] /\ Exists(NewItem)
    BY DEF Init, Exists, NewItem
  <2>2. \A a \in U : a \in Assets /\ Exists(store[a].item) /\ released[a] = 0
    BY <1>2, <2>1
  <2>3. QED
    BY <2>2 DEF Held
<1>4. Held \in SUBSET Assets /\ Pending \in SUBSET Requests /\ twice \in SUBSET Requests
  BY DEF Held, Pending, Init
<1>5. Total(U) <= Total(Held) /\ Total(U) \in Nat /\ Total(Held) \in Nat
  BY <1>3, <1>4, TotalGrows, TotalIs
<1>6. Loads(Pending) \in Nat /\ Loads(twice) \in Nat
  BY <1>1, <1>4, LoadsAre
<1>7. QED
  BY <1>2, <1>5, <1>6 DEF DriftInv, Init

\* The item that complete_upload stores.
LEMMA StoredIs ==
    ASSUME AssetsInv, [Next]_vars, NEW a \in Assets,
           ~Exists(store[a].item), Exists(store'[a].item)
    PROVE  \E q \in Requests : PutItem(q) /\ call[q].asset = a /\ at'[q] # at[q]
<1>1. Shapes
  BY DEF AssetsInv
<1>2. ASSUME NEW q \in Requests, Update(q), call[q].asset = a PROVE FALSE
  <2>1. Read(q)
    BY <1>1, <1>2, UpdateIs DEF Read
  <2>2. QED
    BY <1>2, <2>1 DEF AssetsInv, ItemsStay
<1>3. PICK q \in Requests : PutItem(q) /\ call[q].asset = a
  BY <1>1, <1>2, ItemsAre
<1>4. at'[q] # at[q]
  <2>1. store' # store
    OBVIOUS
  <2>2. Continue(q)
    BY <1>3, <2>1 DEF PutItem
  <2>3. QED
    BY <1>1, <2>2 DEF Continue, Shapes
<1>5. QED
  BY <1>3, <1>4

\* Two requests do not move in one step.
LEMMA OneMoves ==
    ASSUME Shapes, NEW p \in Requests, NEW q \in Requests, Handler(p), at'[q] # at[q]
    PROVE  p = q
BY HandlerMoves

LEMMA NextKeepsDrift ==
    ASSUME AssetsInv, QuotaInv, DriftInv, [Next]_vars
    PROVE  DriftInv'
<1>1. /\ Shapes /\ Shapes' /\ used \in Nat /\ used' \in Nat
      /\ released \in [Assets -> Nat] /\ released' \in [Assets -> Nat]
      /\ at \in [Requests -> Nat]
      /\ \A q \in Requests : call[q].asset \in Assets /\ Size[call[q].asset] \in Nat
  BY NextKeepsShapes, SizeIs DEF AssetsInv, Shapes, TypeOK, Call
<1>2. \A a \in Assets : Exists(store[a].item) => Exists(store'[a].item)
  BY <1>1, NextKeepsItems DEF AssetsInv
<1>3. twice' = twice \/ \E q \in Requests : Resend(q)
  <2>1. ASSUME NEW q \in Requests, Handler(q) PROVE twice' = twice
    BY <2>1 DEF Handler, Probe, SavePending, GetPending, HeadObject, Reserve, Log, PutItem,
           DropPending, DeleteObject, GetItem, Update, LogOrphaned, Release, Crash
  <2>2. QED
    BY <1>1, <2>1, NextIs, SurroundingsAre DEF Submit, vars
<1>4. ASSUME NEW q \in twice' PROVE ~Idle(q)'
  <2>1. q \in Requests /\ ~Idle(q)
    <3>1. CASE twice' = twice
      BY <1>1, <3>1 DEF DriftInv, Shapes, TypeOK
    <3>2. ASSUME NEW p \in Requests, Resend(p) PROVE q \in Requests /\ ~Idle(q)
      BY <1>1, <3>2 DEF DriftInv, Shapes, TypeOK, Resend, At, Active
    <3>3. QED
      BY <1>3, <3>1, <3>2
  <2>2. QED
    BY <1>1, <2>1, CallsStay DEF Idle
<1>5. ASSUME NEW a \in Assets, released'[a] > 0 PROVE Exists(store'[a].item)
  <2>1. CASE released[a] > 0
    BY <1>2, <2>1 DEF DriftInv
  <2>2. CASE ~(released[a] > 0)
    <3>1. released' # released
      BY <1>5, <2>2
    <3>2. PICK q \in Requests : GivesBack(q)
      BY <1>1, <3>1, UsedIs DEF ReservesAgain
    <3>3. call[q].asset = a
      BY <1>1, <1>5, <2>2, <3>2 DEF GivesBack
    <3>4. Exists(store[a].item)
      BY <3>2, <3>3 DEF GivesBack, AssetsInv, ItemsStay
    <3>5. QED
      BY <1>2, <3>4
  <2>3. QED
    BY <2>1, <2>2
<1> DEFINE H == Total(Held)
           P == Loads(Pending)
           T == Loads(twice)
<1>6. ASSUME \A a \in Assets : released'[a] <= 1
      PROVE  used' <= H' + P' + T'
  <2>1. ASSUME NEW a \in Assets PROVE released[a] <= released'[a] /\ released[a] \in Nat
    <3>1. CASE released' = released
      BY <1>1, <3>1
    <3>2. ASSUME NEW q \in Requests, GivesBack(q)
          PROVE  released[a] <= released'[a] /\ released[a] \in Nat
      BY <1>1, <3>2 DEF GivesBack
    <3>3. QED
      BY <1>1, <3>1, <3>2, UsedIs DEF ReservesAgain
  <2>2. \A a \in Assets : released[a] <= 1
    BY <1>1, <1>6, <2>1
  <2>3. used <= H + P + T
    BY <2>2 DEF DriftInv
  <2>4. /\ Held \in SUBSET Assets /\ Held' \in SUBSET Assets
        /\ Pending \in SUBSET Requests /\ Pending' \in SUBSET Requests
        /\ twice \in SUBSET Requests /\ twice' \in SUBSET Requests
    BY <1>1 DEF Held, Pending, Shapes, TypeOK
  <2>5. /\ H \in Nat /\ P \in Nat /\ T \in Nat
        /\ H' \in Nat /\ P' \in Nat /\ T' \in Nat
    <3>1. H \in Nat /\ H' \in Nat
      BY <2>4, TotalIs
    <3>2. P \in Nat /\ T \in Nat
      BY <1>1, <2>4, LoadsAre
    <3>3. Load' \in [Requests -> Nat]
      BY <1>1, SizeIs DEF Shapes, TypeOK, Call, Load
    <3>4. BytesOf(Load', Pending') \in Nat /\ BytesOf(Load', twice') \in Nat
      BY <2>4, <3>3, RequestsAssumption, BytesAre
    <3>5. QED
      BY <3>1, <3>2, <3>4 DEF Loads
  <2>6. \A q \in Pending : ~Idle(q)
    BY UnsettledIs DEF Pending, Idle
  <2>7. \A q \in twice : ~Idle(q)
    BY DEF DriftInv
  <2>8. ASSUME NEW S \in SUBSET Requests, \A q \in S : ~Idle(q), NEW R, R = S
        PROVE  BytesOf(Load', R) = BytesOf(Load, S)
    BY <1>1, <2>8, LoadsStay DEF Loads
  <2>9. /\ Pending' = Pending => P' = P
        /\ twice' = twice => T' = T
    BY <2>4, <2>6, <2>7, <2>8 DEF Loads
  <2>10. ASSUME NEW q \in Requests, Handler(q)
         PROVE  \A p \in Requests \ {q} : p \in Pending' <=> p \in Pending
    BY <1>1, <2>10, OneMoves, PendingIs DEF Pending
  <2>11. (\A q \in Requests : at'[q] # at[q] => ~PutItem(q) /\ ~Reserve(q)) => P' = P
    BY <1>1, <2>9, PendingIs DEF Pending
  <2>12. (\A q \in Requests : at'[q] # at[q] => ~PutItem(q)) /\ released' = released
            => H' = H
    <3> SUFFICES ASSUME \A q \in Requests : at'[q] # at[q] => ~PutItem(q),
                        released' = released
                 PROVE  Held' = Held
      OBVIOUS
    <3>1. ASSUME NEW a \in Assets PROVE Exists(store'[a].item) <=> Exists(store[a].item)
      BY <1>2, StoredIs
    <3>2. QED
      BY <3>1 DEF Held, Exists
  <2>13. ASSUME NEW q \in Requests, Reserve(q), at'[q] # at[q]
         PROVE  used' <= H' + P' + T'
    <3> DEFINE S == Pending \cup {q}
    <3>1. /\ used' = used + Size[call[q].asset] /\ UNCHANGED <<store, released, twice>>
          /\ Handler(q) /\ ~Idle(q)
      BY <2>13 DEF Reserve, Answer, Handler, At, Active
    <3>2. q \notin Pending /\ q \in Pending'
      BY <1>1, <2>13, PlacesAre, UnsettledIs, PendingIs DEF Pending, Reserve
    <3>3. Pending' = S
      BY <2>10, <3>1, <3>2, <2>4
    <3>4. S \in SUBSET Requests /\ \A p \in S : ~Idle(p)
      BY <2>4, <2>6, <3>1
    <3>5. Loads(S) = P + Size[call[q].asset]
      BY <1>1, <2>4, <3>2, LoadsAdd
    <3>6. P' = P + Size[call[q].asset]
      <4> HIDE DEF S
      <4>1. BytesOf(Load', Pending') = BytesOf(Load, S)
        BY <2>8, <3>3, <3>4
      <4>2. QED
        BY <3>5, <4>1 DEF Loads
    <3>7. H' = H /\ T' = T
      BY <2>9, <3>1 DEF Held, Exists
    <3> HIDE DEF H, P, T
    <3>8. QED
      BY <1>1, <2>3, <2>5, <3>1, <3>6, <3>7
  <2>14. ASSUME NEW q \in Requests, PutItem(q), at'[q] # at[q]
         PROVE  used' <= H' + P' + T'
    <3> DEFINE S == Pending \ {q}
               b == call[q].asset
    <3>1. /\ UNCHANGED <<used, released, twice>> /\ Handler(q) /\ b \in Assets
          /\ Size[b] \in Nat
          /\ ~Exists(store[b].item)
          /\ store' = [store EXCEPT ![b].item = NewItem]
      BY <1>1, <2>14 DEF PutItem, Answer, Handler
    <3>2. q \in Pending /\ q \notin Pending'
      <4>1. call[q].op = "complete" /\ at[q] = 5
        BY <1>1, <2>14, PlacesAre DEF PutItem, At
      <4>2. ~Reserve(q)
        BY <1>1, <4>1, PlacesAre DEF Reserve
      <4>3. QED
        BY <1>1, <2>14, <4>1, <4>2, UnsettledIs, PendingIs DEF Pending
    <3>3. Pending' = S /\ S \in SUBSET Requests /\ \A p \in S : ~Idle(p)
      BY <2>4, <2>6, <2>10, <3>1, <3>2
    <3>4. P = P' + Size[b]
      <4>1. Pending = S \cup {q} /\ q \in Requests \ S
        BY <3>2
      <4> HIDE DEF S
      <4>2. P = Loads(S) + Size[b]
        BY <1>1, <3>3, <4>1, LoadsAdd
      <4>3. BytesOf(Load', Pending') = BytesOf(Load, S)
        BY <2>8, <3>3
      <4>4. QED
        BY <4>2, <4>3 DEF Loads
    <3>5. released[b] = 0 /\ b \notin Held
      BY <1>1, <3>1 DEF DriftInv, Held
    <3>6. Held' = Held \cup {b}
      <4>1. store \in [Assets -> [pending: BOOLEAN, item: Item]]
        BY <1>1 DEF Shapes, TypeOK
      <4>2. /\ \A a \in Assets \ {b} : store'[a] = store[a]
            /\ store'[b].item = NewItem
        BY <3>1, <4>1
      <4>3. Exists(NewItem)
        BY DEF Exists, NewItem
      <4>4. QED
        BY <3>1, <3>5, <4>2, <4>3 DEF Held, Exists
    <3>7. H' = H + Size[b] /\ T' = T
      BY <2>4, <2>9, <3>1, <3>5, <3>6, TotalAdd
    <3> HIDE DEF H, P, T, b
    <3>8. QED
      BY <1>1, <2>3, <2>5, <3>1, <3>4, <3>7
  <2>15. ASSUME NEW q \in Requests, GivesBack(q), at'[q] = at[q] \/ Handler(q),
                twice' = twice \/ Resend(q)
         PROVE  used' <= H' + P' + T'
    <3> DEFINE b == call[q].asset
               rest == Held \ {b}
    <3>1. /\ released' = [released EXCEPT ![b] = @ + 1] /\ b \in Assets
          /\ used' = IF used >= Size[b] THEN used - Size[b] ELSE used
          /\ store' = store /\ Size[b] \in Nat /\ Exists(store[b].item)
      BY <1>1, <2>15 DEF GivesBack, AssetsInv, ItemsStay
    <3>2. /\ released[b] = 0 /\ released'[b] = 1
          /\ \A a \in Assets \ {b} : released'[a] = released[a]
      <4>1. released'[b] = released[b] + 1 /\ released[b] \in Nat
        BY <1>1, <3>1
      <4>2. QED
        BY <1>1, <1>6, <3>1, <4>1
    <3>3. b \in Held /\ Held' = rest
      BY <3>1, <3>2 DEF Held, Exists
    <3>4. H = H' + Size[b]
      <4>1. rest \in SUBSET Assets /\ b \in Assets \ rest /\ Held = rest \cup {b}
        BY <2>4, <3>1, <3>3
      <4> HIDE DEF rest, b
      <4>2. Total(Held) = Total(rest) + Size[b]
        BY <4>1, TotalAdd
      <4>3. QED
        BY <3>3, <4>2
    <3>5. H <= used
      <4>1. Held \subseteq Claimed /\ Claimed \in SUBSET Assets
        BY DEF Held, Claimed
      <4>2. Total(Held) <= Total(Claimed) /\ Total(Claimed) \in Nat
        BY <4>1, TotalGrows, TotalIs
      <4>3. Total(Claimed) <= used
        BY <2>2 DEF QuotaInv
      <4> HIDE DEF H
      <4>4. QED
        BY <1>1, <2>5, <4>2, <4>3 DEF H
    <3>6. P' = P
      <4>1. ~\E p \in Requests : PutItem(p) \/ Reserve(p)
        <5>1. released' # released
          BY <3>2
        <5>2. QED
          BY <5>1 DEF PutItem, Reserve
      <4>2. QED
        BY <2>11, <4>1
    <3>7. T <= T'
      <4>1. CASE twice' = twice
        BY <2>5, <2>9, <4>1
      <4>2. CASE Resend(q)
        <5>1. twice' = twice \cup {q} /\ ~Idle(q)
          BY <4>2 DEF Resend, At, Active
        <5> DEFINE S == twice \cup {q}
        <5>2. S \in SUBSET Requests /\ (\A p \in S : ~Idle(p)) /\ twice \in SUBSET S
          BY <2>4, <2>7, <5>1
        <5>3. twice' = S
          BY <5>1
        <5> HIDE DEF S
        <5>4. BytesOf(Load', twice') = BytesOf(Load, S)
          BY <2>8, <5>2, <5>3
        <5>5. Loads(twice) <= Loads(S)
          BY <1>1, <5>2, LoadsGrow
        <5>6. QED
          BY <5>4, <5>5 DEF Loads
      <4>3. QED
        BY <2>15, <4>1, <4>2
    <3> HIDE DEF H, P, T, b
    <3>8. QED
      BY <1>1, <2>3, <2>5, <3>1, <3>4, <3>5, <3>6, <3>7
  <2>16. ASSUME NEW q \in Requests, ReservesAgain(q)
         PROVE  used' <= H' + P' + T'
    <3> DEFINE S == twice \cup {q}
    <3>1. /\ used' = used + Size[call[q].asset] /\ UNCHANGED <<store, released, at, call>>
          /\ twice' = S /\ q \notin twice /\ ~Idle(q)
      BY <2>16 DEF ReservesAgain, Resend, At, Active
    <3>2. S \in SUBSET Requests /\ \A p \in S : ~Idle(p)
      BY <2>4, <2>7, <3>1
    <3>3. Loads(S) = T + Size[call[q].asset]
      BY <1>1, <2>4, <3>1, LoadsAdd
    <3>4. T' = T + Size[call[q].asset]
      <4> HIDE DEF S
      <4>1. BytesOf(Load', twice') = BytesOf(Load, S)
        BY <2>8, <3>1, <3>2
      <4>2. QED
        BY <3>3, <4>1 DEF Loads
    <3>5. H' = H /\ P' = P
      BY <2>11, <2>12, <3>1
    <3> HIDE DEF H, P, T
    <3>6. QED
      BY <1>1, <2>3, <2>5, <3>1, <3>4, <3>5
  <2>17. ASSUME used' = used, released' = released, twice' = twice,
                \A q \in Requests : at'[q] # at[q] => ~PutItem(q) /\ ~Reserve(q)
         PROVE  used' <= H' + P' + T'
    BY <2>3, <2>9, <2>11, <2>12, <2>17
  <2>18. CASE \E q \in Requests : Resend(q)
    <3>1. PICK q \in Requests : Resend(q)
      BY <2>18
    <3>2. at'[q] = at[q]
      BY <3>1 DEF Resend
    <3>3. QED
      BY <1>1, <2>15, <2>16, <3>1, <3>2, ReleaseGivesBack
  <2>19. CASE \E q \in Requests : Release(q)
    <3>1. PICK q \in Requests : Release(q)
      BY <2>19
    <3>2. Handler(q) /\ twice' = twice
      BY <3>1 DEF Release, Handler
    <3>3. ~ReservesAgain(q)
      BY <3>1 DEF ReservesAgain, Resend, Release
    <3>4. QED
      BY <1>1, <2>15, <3>1, <3>2, <3>3, ReleaseGivesBack
  <2>20. CASE /\ ~\E q \in Requests : Resend(q) \/ Release(q)
              /\ \A q \in Requests : at'[q] # at[q] => ~PutItem(q) /\ ~Reserve(q)
    <3>1. twice' = twice
      BY <1>3, <2>20
    <3>2. used' = used /\ released' = released
      <4>1. ASSUME NEW q \in Requests, Handler(q)
            PROVE  used' = used /\ released' = released
        <5>1. CASE Reserve(q)
          <6>1. at'[q] = at[q]
            BY <2>20, <5>1
          <6>2. ~Continue(q)
            BY <1>1, <6>1 DEF Continue
          <6>3. QED
            BY <5>1, <6>2 DEF Reserve
        <5>2. CASE ~Reserve(q)
          BY <2>20, <4>1, <5>2
          DEF Handler, Probe, SavePending, GetPending, HeadObject, Log, PutItem,
              DropPending, DeleteObject, GetItem, Update, LogOrphaned, Crash
        <5>3. QED
          BY <5>1, <5>2
      <4>2. QED
        BY <1>1, <2>20, <4>1, NextIs, SurroundingsAre DEF Submit, vars
    <3>3. QED
      BY <2>17, <2>20, <3>1, <3>2
  <2>21. QED
    BY <2>13, <2>14, <2>18, <2>19, <2>20
<1>7. QED
  BY <1>4, <1>5, <1>6 DEF DriftInv

\* The counter has too much only by the bytes of complete_uploads that reserved and
\* did not store, and by ADDs that were made twice.
THEOREM DriftIsBounded == Spec => []DriftIsExplained
<1>1. Init => AssetsInv /\ QuotaInv /\ DriftInv
  BY AssetsInit, QuotaInit, DriftInit
<1>2. AssetsInv /\ QuotaInv /\ DriftInv /\ [Next]_vars => (AssetsInv /\ QuotaInv /\ DriftInv)'
  BY NextKeepsAssets, NextKeepsQuota, NextKeepsDrift
<1>3. DriftInv => DriftIsExplained
  BY DEF DriftInv, DriftIsExplained, Pending, Total, Loads
<1>4. QED
  BY <1>1, <1>2, <1>3, PTL DEF Spec

-----------------------------------------------------------------------------
(* One request at a time *)

\* Who changes the references of an item, and who what the log says of them.
LEMMA RefsAre ==
    ASSUME AssetsInv, [Next]_vars, NEW a \in Assets
    PROVE  \/ store'[a].item.referenced_by = store[a].item.referenced_by
           \/ \E q \in Requests : /\ Update(q) /\ call[q].asset = a
                                  /\ call[q].op \in {"ref", "unref"}
<1>1. Shapes
  BY DEF AssetsInv
<1>2. ASSUME NEW q \in Requests, Update(q), call[q].asset = a,
             call[q].op \notin {"ref", "unref"}
      PROVE  store'[a].item.referenced_by = store[a].item.referenced_by
  BY <1>1, <1>2, UpdateIs
<1>3. ASSUME ~Exists(store[a].item), store'[a].item = NewItem
      PROVE  store'[a].item.referenced_by = store[a].item.referenced_by
  BY <1>3 DEF AssetsInv, Journaled, ItemIsJournaled, NewItem
<1>4. QED
  BY <1>1, <1>2, <1>3, ItemsAre

LEMMA OpenIs ==
    ASSUME Shapes, NEW q \in Requests, Handler(q), NEW a \in Assets
    PROVE  \/ gamma'[a].open = gamma[a].open
           \/ /\ Log(q) /\ call[q].asset = a /\ call[q].op = "ref"
              /\ gamma'[a].open = gamma[a].open \cup {call[q].ref}
           \/ /\ Log(q) /\ call[q].asset = a /\ call[q].op = "unref"
              /\ gamma'[a].open = gamma[a].open \ {call[q].ref}
<1>1. CASE gamma' = gamma
  BY <1>1
<1>2. ASSUME NEW op \in GammaOps, gamma' = Logged(call[q].asset, op, call[q].ref),
             op = "orphaned" \/ (Log(q) /\ op = LogOp[call[q].op])
      PROVE  \/ gamma'[a].open = gamma[a].open
             \/ /\ Log(q) /\ call[q].asset = a /\ call[q].op = "ref"
                /\ gamma'[a].open = gamma[a].open \cup {call[q].ref}
             \/ /\ Log(q) /\ call[q].asset = a /\ call[q].op = "unref"
                /\ gamma'[a].open = gamma[a].open \ {call[q].ref}
  <2>1. call[q].asset \in Assets /\ call[q].ref \in References /\ call[q].op \in AllOps
    BY DEF Shapes, TypeOK, Call
  <2>2. /\ \A b \in Assets \ {call[q].asset} : gamma'[b] = gamma[b]
        /\ gamma'[call[q].asset].open =
              CASE op = "referenced" -> gamma[call[q].asset].open \cup {call[q].ref}
                [] op = "unreferenced" -> gamma[call[q].asset].open \ {call[q].ref}
                [] OTHER -> gamma[call[q].asset].open
    BY <1>2, <2>1, LoggedIs
  <2>3. CASE op = "orphaned"
    BY <2>2, <2>3
  <2>4. CASE Log(q) /\ op = LogOp[call[q].op]
    <3>1. /\ op = "referenced" <=> call[q].op = "ref"
          /\ op = "unreferenced" <=> call[q].op = "unref"
      BY <2>1, <2>4 DEF LogOp, AllOps
    <3>2. CASE a = call[q].asset
      BY <2>2, <2>4, <3>1, <3>2
    <3>3. CASE a # call[q].asset
      BY <2>2, <3>3
    <3>4. QED
      BY <3>2, <3>3
  <2>5. QED
    BY <1>2, <2>3, <2>4
<1>3. gamma' = gamma \/ Log(q) \/ LogOrphaned(q)
  BY DEF Handler, Probe, SavePending, GetPending, HeadObject, Reserve, PutItem,
         DropPending, DeleteObject, GetItem, Update, Release, Crash
<1>4. QED
  BY <1>1, <1>2, <1>3, LogIs

LEMMA CalmInit == Init => CalmInv
<1> SUFFICES ASSUME Init PROVE CalmInv
  OBVIOUS
<1>1. /\ \A q \in Requests : ~Active(q) /\ at[q] = 0
      /\ \A a \in Assets : /\ gamma[a].open = {}
                           /\ store[a].item.state # "TOMBSTONED"
                           /\ store[a].item.referenced_by = {}
  <2>1. /\ NewItem.referenced_by = {} /\ NoItem.referenced_by = {}
        /\ NewItem.state = "ACTIVE" /\ NoItem.state = "NONE"
    BY DEF NewItem, NoItem
  <2>2. \A a \in Assets : store[a].item \in {NewItem, NoItem}
    BY DEF Init
  <2>3. \A a \in Assets : gamma[a].open = {}
    BY DEF Init
  <2>4. \A q \in Requests : at[q] = 0
    BY DEF Init
  <2>5. QED
    BY <2>1, <2>2, <2>3, <2>4 DEF Active, Idle
<1>2. QED
  BY <1>1 DEF CalmInv, Past, Holds, Differ

LEMMA NextKeepsDeletes ==
    ASSUME Shapes, CalmInv, [Next]_vars, NEW q \in Requests, Past(q, "delete", 1)'
    PROVE  snap'[q].referenced_by = {}
<1>1. Read(q)'
  BY DEF Past, Read
<1>2. CASE Read(q) /\ snap'[q] = snap[q] /\ call'[q] = call[q]
  BY <1>2 DEF CalmInv, Past, Read
<1>3. ASSUME call'[q] = call[q], NEW v, snap'[q] = v.item,
             call[q].op = "delete" => MayDelete(v.item)
      PROVE  snap'[q].referenced_by = {}
  BY <1>3 DEF MayDelete, Past
<1>4. QED
  BY <1>1, <1>2, <1>3, SnapsAre

\* Nobody is at work when a request is sent.
LEMMA SubmitIsCalm ==
    ASSUME Shapes, CalmInv, [Next]_vars, calm', NEW q \in Requests, Submit(q)
    PROVE  CalmInv'
<1>1. /\ calm /\ \A p \in Requests : ~Active(p)
      /\ at' = [at EXCEPT ![q] = 1] /\ at[q] = 0 /\ answer[q] = "none"
      /\ UNCHANGED <<store, gamma, snap, answer>>
      /\ \A p \in Requests \ {q} : call'[p] = call[p] /\ at'[p] = at[p]
      /\ at'[q] = 1
  BY DEF Submit, Idle, Done, Shapes, TypeOK
<1>2. \A p \in Requests : Active(p)' => p = q
  BY <1>1 DEF Active, Idle, Done
<1>3. ASSUME NEW p \in Requests, NEW a, NEW ref, Untidy(p, a, ref)
      PROVE  Untidy(p, a, ref)'
  BY <1>1, <1>3 DEF Untidy
<1>4. \A p \in Requests : ~Holds(p)'
  BY <1>1, <1>2 DEF Holds
<1>5. \A a \in Assets, ref \in References :
         Differ(a, ref)' => \E p \in Requests : Untidy(p, a, ref)'
  BY <1>1, <1>3 DEF CalmInv, Differ
<1>6. QED
  BY <1>1, <1>2, <1>4, <1>5, NextKeepsDeletes DEF CalmInv

LEMMA SurroundingsAreCalm ==
    ASSUME Shapes, CalmInv, [Next]_vars, calm', NEW b \in Assets, Surroundings(b)
    PROVE  CalmInv'
<1>1. /\ UNCHANGED <<gamma, call, at, snap, answer, calm>>
      /\ \A a \in Assets : store'[a].item = store[a].item
  BY SurroundingsAre
<1>2. \A q \in Requests : call[q].asset \in Assets
  BY DEF Shapes, TypeOK, Call
<1>3. QED
  BY <1>1, <1>2, NextKeepsDeletes DEF CalmInv, Active, Idle, Done, Holds, Differ, Untidy

\* A reference of which log and table come to differ, or still do.
LEMMA DifferIs ==
    ASSUME AssetsInv, CalmInv, [Next]_vars, calm, calm', NEW q \in Requests, Handler(q),
           NEW a \in Assets, NEW ref \in References, Differ(a, ref)'
    PROVE  \/ /\ Log(q) /\ call[q].op \in {"ref", "unref"}
              /\ call[q].asset = a /\ call[q].ref = ref
           \/ /\ Differ(a, ref)
              /\ ~(/\ Update(q) /\ call[q].op \in {"ref", "unref"}
                   /\ call[q].asset = a /\ call[q].ref = ref)
<1>1. Shapes /\ Active(q)
  BY HandlerMoves DEF AssetsInv
<1>2. \A p \in Requests : Update(p) => p = q
  BY <1>1 DEF CalmInv, Update, At
<1>3. CASE /\ Update(q) /\ call[q].op \in {"ref", "unref"} /\ call[q].asset = a
  <2>1. at[q] = 3 /\ snap[q] = store[a].item
    BY <1>1, <1>3, UpdateIs DEF CalmInv, Holds
  <2>2. gamma'[a].open = gamma[a].open
    BY <1>3 DEF Update
  <2>3. /\ call[q].op = "ref" => store'[a].item.referenced_by
                                   = store[a].item.referenced_by \cup {call[q].ref}
        /\ call[q].op = "unref" => store'[a].item.referenced_by
                                     = store[a].item.referenced_by \ {call[q].ref}
    BY <1>1, <1>3, <2>1, UpdateIs
  <2>4. /\ call[q].op = "ref" => call[q].ref \in gamma[a].open
        /\ call[q].op = "unref" => call[q].ref \notin gamma[a].open
    BY <1>1, <1>3, <2>1 DEF CalmInv
  <2>5. QED
    BY <1>3, <2>2, <2>3, <2>4 DEF Differ
<1>4. CASE ~(/\ Update(q) /\ call[q].op \in {"ref", "unref"} /\ call[q].asset = a)
  <2>1. store'[a].item.referenced_by = store[a].item.referenced_by
    BY <1>2, <1>4, RefsAre
  <2>2. QED
    BY <1>1, <1>4, <2>1, OpenIs DEF Differ
<1>5. QED
  BY <1>3, <1>4

LEMMA HandlerIsCalm ==
    ASSUME AssetsInv, CalmInv, [Next]_vars, calm', NEW q \in Requests, Handler(q)
    PROVE  CalmInv'
<1>1. /\ Shapes /\ ItemsStay /\ Active(q) /\ call' = call /\ at[q] \in Nat
      /\ \A p \in Requests \ {q} : at'[p] = at[p] /\ answer'[p] = answer[p]
      /\ at'[q] \in {at[q], at[q] + 1}
      /\ Active(q)' => at'[q] = at[q] + 1
      /\ call[q].asset \in Assets /\ call[q].op \in AllOps
  BY HandlerMoves DEF AssetsInv, Shapes, TypeOK, Call
<1>2. calm
  BY DEF Handler, Probe, SavePending, GetPending, HeadObject, Reserve, Log, PutItem,
         DropPending, DeleteObject, GetItem, Update, LogOrphaned, Release, Crash
<1>3. \A p \in Requests : (Active(p) => p = q) /\ (Active(p)' => p = q)
  BY <1>1, <1>2 DEF CalmInv, Active, Idle, Done
<1>4. \A p \in Requests : Update(p) \/ PutItem(p) => p = q
  BY <1>3 DEF Update, PutItem, At
<1>5. ASSUME Holds(q)' PROVE snap'[q] = store'[call[q].asset].item
  <2> DEFINE a == call[q].asset
  <2>1. at'[q] = at[q] + 1 /\ at'[q] > 1 /\ call[q].op \in {"ref", "unref", "delete"}
    BY <1>1, <1>5 DEF Holds
  <2>2. Read(q)'
    BY <1>1, <2>1 DEF Read
  <2>3. store'[a].item = store[a].item
    <3>1. ~Update(q)
      BY <1>1, <1>5, UpdateIs DEF Holds
    <3>2. ~PutItem(q)
      BY <2>1 DEF PutItem, At
    <3>3. QED
      BY <1>1, <1>4, <3>1, <3>2, ItemsAre
  <2>4. snap'[q] = store[a].item
    <3>1. CASE Read(q) /\ snap'[q] = snap[q]
      <4>1. Holds(q)
        BY <1>1, <1>5, <2>1, <3>1 DEF Holds, Read
      <4>2. QED
        BY <1>2, <3>1, <4>1 DEF CalmInv
    <3>2. QED
      BY <1>1, <2>2, <3>1, SnapsAre
  <2>5. QED
    BY <2>3, <2>4
<1>6. ASSUME Active(q)', at'[q] = 3
      PROVE  /\ call[q].op = "ref" => call[q].ref \in gamma'[call[q].asset].open
             /\ call[q].op = "unref" => call[q].ref \notin gamma'[call[q].asset].open
  <2> SUFFICES ASSUME call[q].op \in {"ref", "unref"}
               PROVE  /\ call[q].op = "ref" => call[q].ref \in gamma'[call[q].asset].open
                      /\ call[q].op = "unref" => call[q].ref \notin gamma'[call[q].asset].open
    OBVIOUS
  <2>1. Log(q)
    BY <1>1, <1>6, StepsAre
  <2>2. LogOp[call[q].op] \in GammaOps /\ call[q].ref \in References
    BY <1>1 DEF GammaOps, Shapes, TypeOK, Call
  <2>3. gamma' = Logged(call[q].asset, LogOp[call[q].op], call[q].ref)
    BY <2>1 DEF Log
  <2>4. gamma'[call[q].asset].open =
           CASE LogOp[call[q].op] = "referenced" ->
                   gamma[call[q].asset].open \cup {call[q].ref}
             [] LogOp[call[q].op] = "unreferenced" ->
                   gamma[call[q].asset].open \ {call[q].ref}
             [] OTHER -> gamma[call[q].asset].open
    <3> DEFINE a == call[q].asset
               o == LogOp[call[q].op]
    <3>1. a \in Assets /\ o \in GammaOps /\ gamma' = Logged(a, o, call[q].ref)
      BY <1>1, <2>2, <2>3
    <3> HIDE DEF a, o
    <3>2. gamma'[a].open = CASE o = "referenced" -> gamma[a].open \cup {call[q].ref}
                             [] o = "unreferenced" -> gamma[a].open \ {call[q].ref}
                             [] OTHER -> gamma[a].open
      BY <1>1, <2>2, <3>1, LoggedIs
    <3>3. QED
      BY <3>2 DEF a, o
  <2>5. LogOp["ref"] = "referenced" /\ LogOp["unref"] = "unreferenced"
    BY DEF LogOp, AllOps
  <2>6. CASE call[q].op = "ref"
    BY <2>4, <2>5, <2>6
  <2>7. CASE call[q].op = "unref"
    BY <2>4, <2>5, <2>7
  <2>8. QED
    BY <2>6, <2>7
<1>7. ASSUME NEW a \in Assets, store'[a].item.state = "TOMBSTONED"
      PROVE  store'[a].item.referenced_by = {}
  <2>1. CASE store'[a].item = store[a].item
    BY <1>2, <1>7, <2>1 DEF CalmInv
  <2>2. CASE Update(q) /\ call[q].asset = a
    <3>1. /\ call[q].op \in {"ref", "unref"} => at[q] = 3
          /\ call[q].op = "delete" => at[q] = 5
          /\ call[q].op \in {"ref", "unref", "delete"}
      BY <1>1, <2>2, UpdateIs
    <3>2. Holds(q)
      BY <1>1, <3>1 DEF Holds
    <3>3. snap[q] = store[a].item
      BY <1>2, <2>2, <3>2 DEF CalmInv
    <3>4. snap[q].state = "TOMBSTONED" => snap[q].referenced_by = {}
      BY <1>2, <3>3, <1>7 DEF CalmInv
    <3>5. CASE call[q].op = "delete"
      <4>1. snap[q].referenced_by = {}
        BY <3>1, <3>5 DEF CalmInv, Past
      <4>2. QED
        BY <1>1, <2>2, <3>3, <3>5, <4>1, UpdateIs
    <3>6. CASE call[q].op \in {"ref", "unref"}
      BY <1>1, <1>7, <2>2, <3>4, <3>6, UpdateIs
    <3>7. QED
      BY <3>1, <3>5, <3>6
  <2>3. CASE store'[a].item = NewItem
    BY <1>7, <2>3 DEF NewItem
  <2>4. QED
    BY <1>1, <1>4, <2>1, <2>2, <2>3, ItemsAre
<1>8. ASSUME NEW a \in Assets, NEW ref \in References, Differ(a, ref)'
      PROVE  \E p \in Requests : Untidy(p, a, ref)'
  <2>1. CASE /\ Log(q) /\ call[q].op \in {"ref", "unref"}
             /\ call[q].asset = a /\ call[q].ref = ref
    <3>1. at[q] = 2
      BY <1>1, <2>1, PlacesAre DEF Log, At
    <3>2. at'[q] = 3 /\ answer'[q] = answer[q]
      <4>1. Len(Script["ref"]) = 3 /\ Len(Script["unref"]) = 4
        BY ScriptsAre
      <4>2. at' = [at EXCEPT ![q] = @ + 1]
        BY <2>1 DEF Log, Continue
      <4>3. answer' = [answer EXCEPT ![q] = IF at[q] = Len(Script[call[q].op]) THEN "ok" ELSE @]
        BY <2>1 DEF Log, Continue
      <4>4. Len(Script[call[q].op]) # 2
        BY <2>1, <4>1
      <4>5. QED
        BY <1>1, <3>1, <4>2, <4>3, <4>4 DEF Shapes, TypeOK
    <3>3. QED
      BY <1>1, <2>1, <3>2 DEF Untidy, Active, Idle, Done
  <2>2. CASE /\ Differ(a, ref)
             /\ ~(/\ Update(q) /\ call[q].op \in {"ref", "unref"}
                  /\ call[q].asset = a /\ call[q].ref = ref)
    <3>1. PICK p \in Requests : Untidy(p, a, ref)
      BY <1>2, <2>2 DEF CalmInv
    <3>2. CASE p # q
      BY <1>1, <3>1, <3>2 DEF Untidy, Active, Idle, Done
    <3>3. CASE p = q
      <4>1. at[q] = 3
        BY <1>1, <3>1, <3>3 DEF Untidy, Active, Done
      <4>2. at'[q] = at[q]
        BY <1>1, <2>2, <3>1, <3>3, <4>1, StepsAre DEF Untidy
      <4>3. Crash(q)
        <5>1. ~Continue(q)
          BY <1>1, <4>2 DEF Continue, Shapes
        <5>2. ~At(q, "init", "probe") /\ ~At(q, "complete", "getPending")
              /\ ~At(q, "abort", "getPending") /\ ~At(q, "complete", "head")
              /\ ~At(q, "complete", "reserve") /\ ~At(q, "complete", "putItem")
              /\ \A op \in {"ref", "unref", "delete"} : ~At(q, op, "getItem")
          BY <1>1, <3>1, <3>3, <4>1, PlacesAre DEF Untidy, At
        <5>3. QED
          BY <5>1, <5>2
          DEF Handler, Probe, SavePending, GetPending, HeadObject, Reserve, Log, PutItem,
              DropPending, DeleteObject, GetItem, Update, LogOrphaned, Release
      <4>4. answer'[q] = "lost"
        BY <4>3 DEF Crash, Answer, Shapes, TypeOK, AssetsInv
      <4>5. QED
        BY <1>1, <3>1, <3>3, <4>4 DEF Untidy
    <3>4. QED
      BY <3>2, <3>3
  <2>3. QED
    BY <1>2, <1>8, <2>1, <2>2, DifferIs
<1>9. QED
  BY <1>1, <1>3, <1>5, <1>6, <1>7, <1>8, NextKeepsDeletes DEF CalmInv, Holds

LEMMA NextKeepsCalm == AssetsInv /\ CalmInv /\ [Next]_vars => CalmInv'
<1> SUFFICES ASSUME AssetsInv, CalmInv, [Next]_vars PROVE CalmInv'
  OBVIOUS
<1>1. Shapes
  BY DEF AssetsInv
<1>2. CASE ~calm'
  BY <1>1, <1>2, NextKeepsDeletes DEF CalmInv
<1>3. CASE calm' /\ UNCHANGED vars
  BY <1>3 DEF vars, CalmInv, Past, Active, Idle, Done, Holds, Differ, Untidy
<1>4. CASE calm' /\ \E q \in Requests : Resend(q)
  BY <1>4 DEF Resend, CalmInv, Past, Active, Idle, Done, Holds, Differ, Untidy
<1>5. QED
  BY <1>1, <1>2, <1>3, <1>4, NextIs, SubmitIsCalm, SurroundingsAreCalm, HandlerIsCalm

LEMMA CalmAlways == Spec => [](AssetsInv /\ CalmInv)
<1>1. Init => AssetsInv /\ CalmInv
  BY AssetsInit, CalmInit
<1>2. AssetsInv /\ CalmInv /\ [Next]_vars => (AssetsInv /\ CalmInv)'
  BY NextKeepsAssets, NextKeepsCalm
<1>3. QED
  BY <1>1, <1>2, PTL DEF Spec

\* No reference points at a tombstone as long as requests came one at a time,
\* wherever they died and were sent again.
THEOREM CalmTombstones == Spec => []CalmTombstoneIsUnreferenced
<1>1. CalmInv => CalmTombstoneIsUnreferenced
  BY DEF CalmInv, CalmTombstoneIsUnreferenced
<1>2. QED
  BY <1>1, CalmAlways, PTL

\* As long as requests came one at a time, table and log differ on a reference only
\* because of a request about it that is under way or died.
THEOREM IndexFollows == Spec => []IndexFollowsLog
<1>1. CalmInv => IndexFollowsLog
  BY DEF CalmInv, IndexFollowsLog, Differ, Untidy
<1>2. QED
  BY <1>1, CalmAlways, PTL

\* The table and the log of gamma tell one story.
THEOREM TablesAgree == Spec => []TableAgreesWithLog
BY AssetsTypeCorrect, TablesAreJournaled, StatesMatch, IndexFollows, PTL
DEF TableAgreesWithLog
-----------------------------------------------------------------------------
(* The bytes of what is stored *)

\* Somebody may have deleted the bytes of a.
Gone(a) == \E q \in Requests : call[q].asset = a /\ Destroys(q)

\* A complete_upload of a died.
Died(a) ==
    \E q \in Requests : /\ call[q].op = "complete" /\ call[q].asset = a
                        /\ answer[q] = "lost"

\* What is stored, or asked about, no init_upload is at work on any more; a stored
\* asset has a session only behind a complete_upload that is about to drop it or
\* died; and an abort_upload that read a session finds no item, or such a one.
BytesInv ==
    /\ \A a \in Assets : Exists(store[a].item) /\ a \notin bytes => Gone(a)
    /\ \A q \in Requests :
          Active(q) /\ call[q].op = "complete" /\ at[q] \in 3..5
             /\ call[q].asset \notin bytes => Gone(call[q].asset)
    /\ \A a \in Assets : Exists(store[a].item) => a \in Known
    /\ \A q \in Requests : ~Idle(q) /\ call[q].op # "init" => call[q].asset \in Known
    /\ \A a \in Assets : Exists(store[a].item) /\ store[a].pending =>
          \/ Died(a)
          \/ \E q \in Requests : /\ call[q].op = "complete" /\ call[q].asset = a
                                 /\ Active(q) /\ at[q] = 6
    /\ calm => \A q \in Requests :
          Active(q) /\ call[q].op = "abort" /\ at[q] = 2
             /\ Exists(store[call[q].asset].item) => Died(call[q].asset)

LEMMA BytesInit == Init => BytesInv
<1> SUFFICES ASSUME Init PROVE BytesInv
  OBVIOUS
<1>1. PICK U \in SUBSET Assets, V \in SUBSET Assets :
        /\ U \cap V = {} /\ bytes = U
        /\ store = [a \in Assets |->
                      [pending |-> a \in V,
                       item |-> IF a \in U THEN NewItem ELSE NoItem]]
        /\ gamma = [a \in Assets |->
                      [entries |-> [op \in GammaOps |->
                           IF \/ op = "upload_initiated" /\ a \in U \cup V
                              \/ op = "created" /\ a \in U
                           THEN 1 ELSE 0],
                       open |-> {}]]
  BY InitIs
<1>2. \A q \in Requests : at[q] = 0
  BY DEF Init
<1>3. \A a \in Assets : Exists(store[a].item) => a \in U
  BY <1>1 DEF Exists, NoItem
<1>4. \A a \in U : Entries(a, "upload_initiated") = 1 /\ InitsOf(a) = {} /\ a \notin V
  BY <1>1, <1>2, GammaOpsAre DEF Entries, InitsOf, Idle
<1>5. \A a \in U : a \in Known
  BY <1>4 DEF Known, Fresh
<1>6. \A a \in U : a \in bytes /\ ~store[a].pending
  BY <1>1
<1>7. QED
  BY <1>2, <1>3, <1>5, <1>6 DEF BytesInv, Active, Idle

\* What happened has happened.
LEMMA PastStays ==
    ASSUME Shapes, [Next]_vars
    PROVE  /\ \A a : Gone(a) => Gone(a)'
           /\ \A a : Died(a) => Died(a)'
           /\ \A q \in Requests : answer[q] # "none" => answer'[q] = answer[q]
           /\ calm' => calm
<1>1. \A q \in Requests : answer[q] # "none" => answer'[q] = answer[q]
  <2>1. ASSUME NEW q \in Requests, Handler(q), NEW p \in Requests, answer[p] # "none"
        PROVE  answer'[p] = answer[p]
    BY <2>1, HandlerMoves DEF Active, Done
  <2>2. QED
    BY <2>1, NextIs, SurroundingsAre DEF Submit, Resend, vars
<1>2. calm' => calm
  <2>1. ASSUME NEW q \in Requests, Handler(q) PROVE calm' => calm
    BY <2>1 DEF Handler, Probe, SavePending, GetPending, HeadObject, Reserve, Log, PutItem,
           DropPending, DeleteObject, GetItem, Update, LogOrphaned, Release, Crash
  <2>2. QED
    BY <2>1, NextIs, SurroundingsAre DEF Submit, Resend, vars
<1>3. ASSUME NEW q \in Requests, at[q] > 0
      PROVE  call'[q] = call[q] /\ at[q] \in Nat /\ at'[q] \in Nat /\ at'[q] >= at[q]
  BY <1>3, CallsStay
<1>4. ASSUME NEW q \in Requests, answer[q] = "lost"
      PROVE  call'[q] = call[q] /\ answer'[q] = "lost"
  <2>1. ~Idle(q)
    BY <1>4 DEF Shapes
  <2>2. at[q] > 0
    BY <2>1, CallsStay DEF Idle
  <2>3. QED
    BY <1>1, <1>3, <1>4, <2>2
<1>5. ASSUME NEW q \in Requests, Destroys(q)
      PROVE  call'[q] = call[q] /\ Destroys(q)'
  <2>1. call'[q] = call[q] /\ at'[q] > 2
    BY <1>3, <1>5, CallsStay DEF Destroys
  <2>2. QED
    BY <1>2, <1>4, <1>5, <2>1 DEF Destroys
<1>6. \A a : Gone(a) => Gone(a)'
  BY <1>5 DEF Gone
<1>7. \A a : Died(a) => Died(a)'
  BY <1>4 DEF Died
<1>8. QED
  BY <1>1, <1>2, <1>6, <1>7

\* An asset that clients know is not given to another one.
LEMMA KnownStays ==
    ASSUME Shapes, [Next]_vars, NEW a \in Known
    PROVE  a \in Known'
<1>1. a \in Assets /\ a \notin Fresh /\ \A q \in InitsOf(a) : answer[q] = "ok"
  BY DEF Known
<1>2. ASSUME NEW q \in InitsOf(a) PROVE q \in InitsOf(a)' /\ q \in Requests
  BY <1>2, CallsStay DEF InitsOf, Idle
<1>3. a \notin Fresh'
  <2>1. Entries(a, "upload_initiated") # 0 \/ InitsOf(a) # {}
    BY <1>1 DEF Fresh
  <2>2. Entries(a, "upload_initiated") # 0 => Entries(a, "upload_initiated")' # 0
    BY <1>1, EntriesGrow, GammaOpsAre
  <2>3. InitsOf(a) # {} => InitsOf(a)' # {}
    BY <1>2
  <2>4. QED
    BY <2>1, <2>2, <2>3 DEF Fresh, InitsOf, Entries
<1>4. ASSUME NEW q \in InitsOf(a)' PROVE q \in InitsOf(a)
  <2>1. q \in Requests /\ at'[q] # 0 /\ call'[q].op = "init" /\ call'[q].asset = a
    BY <1>4 DEF InitsOf, Idle
  <2>2. CASE at[q] # 0
    BY <2>1, <2>2, CallsStay DEF InitsOf, Idle
  <2>3. CASE at[q] = 0
    <3>1. Submit(q)
      <4>1. ASSUME NEW p \in Requests, Handler(p) PROVE at'[q] = at[q]
        <5>1. p # q
          BY <2>3, <4>1, HandlerMoves DEF Active, Idle
        <5>2. QED
          BY <2>1, <4>1, <5>1, HandlerMoves
      <4>2. ASSUME NEW p \in Requests, Submit(p), p # q PROVE at'[q] = at[q]
        BY <4>2 DEF Submit, Shapes
      <4>3. QED
        BY <2>1, <2>3, <4>1, <4>2, NextIs, SurroundingsAre DEF Resend, vars
    <3>2. a \in Fresh
      BY <2>1, <3>1 DEF Submit, Shapes, TypeOK
    <3>3. QED
      BY <1>1, <3>2
  <2>4. QED
    BY <2>2, <2>3
<1>5. \A q \in InitsOf(a)' : answer'[q] = "ok"
  BY <1>1, <1>2, <1>4, PastStays
<1>6. QED
  BY <1>1, <1>3, <1>5 DEF Known, InitsOf

\* Whose step takes bytes away.
LEMMA LostBytes ==
    ASSUME AssetsInv, [Next]_vars, NEW a \in Assets, a \in bytes, a \notin bytes'
    PROVE  \E q \in Requests : /\ Active(q) /\ call'[q] = call[q] /\ call[q].asset = a
                              /\ call[q].op \in {"abort", "delete"}
                              /\ at[q] = 2 /\ at'[q] = 3 /\ UNCHANGED store
<1>1. Shapes
  BY DEF AssetsInv
<1>2. PICK q \in Requests : Handler(q)
  BY <1>1, NextIs, SurroundingsAre DEF Submit, Resend, vars
<1>3. DeleteObject(q)
  BY <1>2 DEF Handler, Probe, SavePending, GetPending, HeadObject, Reserve, Log, PutItem,
         DropPending, GetItem, Update, LogOrphaned, Release, Crash
<1>4. call[q].asset = a /\ call' = call /\ Continue(q) /\ store' = store /\ Active(q)
  BY <1>3 DEF DeleteObject, At
<1>5. call[q].op \in {"abort", "delete"} /\ at[q] = 2
  BY <1>1, <1>3, PlacesAre DEF DeleteObject, At
<1>6. at'[q] = 3
  BY <1>1, <1>4, <1>5 DEF Continue, Shapes
<1>7. QED
  BY <1>4, <1>5, <1>6

LEMMA NextKeepsBytes ==
    ASSUME AssetsInv, CalmInv, BytesInv, [Next]_vars
    PROVE  BytesInv'
<1>1. /\ Shapes /\ ItemsStay /\ Shapes'
      /\ \A q \in Requests : call[q].asset \in Assets /\ call'[q].asset \in Assets
  BY NextKeepsShapes DEF AssetsInv, Shapes, TypeOK, Call
<1>2. ASSUME NEW a \in Assets, Exists(store'[a].item), ~Exists(store[a].item)
      PROVE  \E q \in Requests : /\ PutItem(q) /\ call[q].asset = a /\ Active(q)
                                /\ call[q].op = "complete" /\ at[q] = 5 /\ at'[q] = 6
                                /\ Continue(q) /\ call'[q] = call[q] /\ bytes' = bytes
  <2>1. PICK q \in Requests : PutItem(q) /\ call[q].asset = a /\ at'[q] # at[q]
    BY <1>2, StoredIs
  <2>2. at[q] = 5 /\ call[q].op = "complete" /\ Active(q) /\ call'[q] = call[q] /\ bytes' = bytes
    BY <1>1, <2>1, PlacesAre DEF PutItem, At
  <2>3. Continue(q)
    BY <2>1 DEF PutItem, Answer
  <2>4. at'[q] = 6
    BY <1>1, <2>2, <2>3 DEF Continue, Shapes
  <2>5. QED
    BY <2>1, <2>2, <2>3, <2>4
<1>3. ASSUME NEW a \in Assets, a \in bytes, a \notin bytes', ~Gone(a)'
      PROVE  /\ calm
             /\ \E q \in Requests : /\ Active(q) /\ call[q].asset = a /\ at[q] = 2
                                   /\ call[q].op = "abort" /\ UNCHANGED store
             /\ ~Died(a)'
  <2>1. PICK q \in Requests : /\ Active(q) /\ call'[q] = call[q] /\ call[q].asset = a
                             /\ call[q].op \in {"abort", "delete"}
                             /\ at[q] = 2 /\ at'[q] = 3 /\ UNCHANGED store
    BY <1>3, LostBytes
  <2>2. ~Destroys(q)'
    BY <1>3, <2>1 DEF Gone
  <2>3. call[q].op = "abort" /\ calm' /\ ~Died(a)'
    BY <2>1, <2>2 DEF Destroys, Died
  <2>4. QED
    BY <1>1, <2>1, <2>3, PastStays
<1>4. ASSUME NEW a \in Assets, Exists(store'[a].item), a \notin bytes'
      PROVE  Gone(a)'
  <2>1. CASE a \notin bytes /\ Exists(store[a].item)
    BY <1>1, <2>1, PastStays DEF BytesInv
  <2>2. CASE ~Exists(store[a].item)
    <3>1. PICK q \in Requests : /\ call[q].asset = a /\ Active(q)
                               /\ call[q].op = "complete" /\ at[q] = 5 /\ bytes' = bytes
      BY <1>2, <1>4, <2>2
    <3>2. Gone(a)
      BY <1>4, <3>1 DEF BytesInv
    <3>3. QED
      BY <1>1, <3>2, PastStays
  <2>3. CASE a \in bytes /\ Exists(store[a].item)
    <3> SUFFICES ASSUME ~Gone(a)' PROVE FALSE
      OBVIOUS
    <3>1. PICK q \in Requests : /\ Active(q) /\ call[q].asset = a /\ at[q] = 2
                               /\ call[q].op = "abort"
      BY <1>3, <1>4, <2>3
    <3>2. calm /\ ~Died(a)'
      BY <1>3, <1>4, <2>3
    <3>3. Died(a)
      BY <2>3, <3>1, <3>2 DEF BytesInv
    <3>4. QED
      BY <1>1, <3>2, <3>3, PastStays
  <2>4. QED
    BY <2>1, <2>2, <2>3
<1>5. ASSUME NEW q \in Requests, Active(q)', call'[q].op = "complete", at'[q] \in 3..5,
             NEW a \in Assets, call'[q].asset = a, a \notin bytes'
      PROVE  Gone(a)'
  <2>1. /\ call'[q] = call[q] /\ call[q].asset = a /\ at[q] \in Nat /\ at[q] > 0
        /\ at'[q] # at[q] => Handler(q) /\ at'[q] = at[q] + 1
    BY <1>1, <1>5, CallsStay
  <2>2. Active(q)
    BY <1>1, <1>5, <2>1, PastStays DEF Active, Idle, Done
  <2>3. CASE a \notin bytes
    <3>1. at[q] \in 3..5
      <4>1. CASE at'[q] = at[q]
        BY <1>5, <4>1
      <4>2. CASE at'[q] # at[q] /\ at[q] = 2
        <5>1. HeadObject(q)
          BY <1>1, <1>5, <2>1, <4>2, StepsAre
        <5>2. call[q].asset \notin bytes
          BY <2>1, <2>3
        <5>3. at' = at
          BY <5>1, <5>2 DEF HeadObject, Answer
        <5>4. QED
          BY <4>2, <5>3
      <4>3. CASE at'[q] # at[q] /\ at[q] # 2
        BY <1>5, <2>1, <4>3
      <4>4. QED
        BY <4>1, <4>2, <4>3
    <3>2. Gone(a)
      BY <1>5, <2>1, <2>2, <2>3, <3>1 DEF BytesInv
    <3>3. QED
      BY <1>1, <2>1, <3>2, PastStays
  <2>4. CASE a \in bytes
    <3> SUFFICES ASSUME ~Gone(a)' PROVE FALSE
      OBVIOUS
    <3>1. PICK p \in Requests : Active(p) /\ call[p].op = "abort"
      BY <1>3, <1>5, <2>4
    <3>2. calm
      BY <1>3, <1>5, <2>4
    <3>3. p = q
      BY <2>2, <3>1, <3>2 DEF CalmInv
    <3>4. QED
      BY <1>5, <2>1, <3>1, <3>3
  <2>5. QED
    BY <2>3, <2>4
<1>6. ASSUME NEW q \in Requests, ~Idle(q)', call'[q].op # "init"
      PROVE  call'[q].asset \in Known'
  <2>1. CASE ~Idle(q)
    <3>1. call'[q] = call[q]
      BY <1>1, <2>1, CallsStay DEF Idle
    <3>2. call[q].asset \in Known
      BY <1>6, <2>1, <3>1 DEF BytesInv
    <3>3. QED
      BY <1>1, <3>1, <3>2, KnownStays
  <2>2. CASE Idle(q)
    <3>1. Submit(q)
      <4>1. ASSUME NEW p \in Requests, Handler(p) PROVE at'[q] = at[q]
        <5>1. p # q
          BY <1>1, <2>2, <4>1, HandlerMoves DEF Active
        <5>2. QED
          BY <1>1, <4>1, <5>1, HandlerMoves
      <4>2. ASSUME NEW p \in Requests, Submit(p), p # q PROVE at'[q] = at[q]
        BY <1>1, <4>2 DEF Submit, Shapes
      <4>3. at'[q] # at[q]
        BY <1>6, <2>2 DEF Idle
      <4>4. QED
        BY <1>1, <4>1, <4>2, <4>3, NextIs, SurroundingsAre DEF Resend, vars
    <3>2. call'[q].asset \in Known
      BY <1>1, <1>6, <3>1 DEF Submit, Shapes, TypeOK
    <3>3. QED
      BY <1>1, <3>2, KnownStays
  <2>3. QED
    BY <2>1, <2>2
<1>7. ASSUME NEW a \in Assets, Exists(store'[a].item)
      PROVE  a \in Known'
  <2>1. CASE Exists(store[a].item)
    BY <1>1, <2>1, KnownStays DEF BytesInv
  <2>2. CASE ~Exists(store[a].item)
    <3>1. PICK q \in Requests : /\ call[q].asset = a /\ Active(q) /\ call[q].op = "complete"
      BY <1>2, <1>7, <2>2
    <3>2. a \in Known
      BY <3>1 DEF BytesInv, Active
    <3>3. QED
      BY <1>1, <3>2, KnownStays
  <2>3. QED
    BY <2>1, <2>2
<1>8. ASSUME NEW a \in Assets, Exists(store'[a].item), store'[a].pending
      PROVE  \/ Died(a)'
             \/ \E q \in Requests : /\ call'[q].op = "complete" /\ call'[q].asset = a
                                    /\ Active(q)' /\ at'[q] = 6
  <2>1. CASE ~Exists(store[a].item)
    <3>1. PICK q \in Requests : /\ call[q].asset = a /\ Active(q) /\ call[q].op = "complete"
                               /\ at[q] = 5 /\ at'[q] = 6 /\ Continue(q) /\ call'[q] = call[q]
      BY <1>2, <1>8, <2>1
    <3>2. answer'[q] = answer[q]
      <4>1. Len(Script[call[q].op]) = 6
        BY <3>1, ScriptsAre
      <4>2. QED
        BY <1>1, <3>1, <4>1 DEF Continue, Shapes, TypeOK
    <3>3. Active(q)'
      BY <3>1, <3>2 DEF Active, Idle, Done
    <3>4. QED
      BY <3>1, <3>3
  <2>2. CASE Exists(store[a].item) /\ ~store[a].pending
    <3>1. PICK q \in Requests : SavePending(q) /\ call[q].asset = a
      <4>1. store \in [Assets -> [pending: BOOLEAN, item: Item]] /\ store' # store
        BY <1>1, <1>8, <2>2 DEF Shapes, TypeOK
      <4>2. ASSUME NEW q \in Requests, Handler(q)
            PROVE  SavePending(q) /\ call[q].asset = a
        <5>1. ~Update(q)
          BY <1>1, <1>8, <2>2, UpdateIs
        <5>2. ~PutItem(q)
          BY <1>8, <2>2, <4>1 DEF PutItem
        <5>3. ~DropPending(q)
          BY <1>8, <2>2, <4>1 DEF DropPending
        <5>4. SavePending(q)
          BY <4>1, <4>2, <5>1, <5>2, <5>3
          DEF Handler, Probe, GetPending, HeadObject, Reserve, Log, DeleteObject, GetItem,
              LogOrphaned, Release, Crash
        <5>5. QED
          BY <1>8, <2>2, <4>1, <5>4 DEF SavePending
      <4>3. ~\E b \in Assets : Surroundings(b)
        BY <1>8, <2>2, <4>1 DEF Surroundings, ClientPut, Expire, Replicate
      <4>4. QED
        BY <4>1, <4>2, <4>3, NextIs DEF Submit, Resend, vars
    <3>2. q \in InitsOf(a) /\ ~Done(q)
      BY <3>1 DEF SavePending, At, Active, InitsOf
    <3>3. a \in Known
      BY <2>2 DEF BytesInv
    <3>4. QED
      BY <3>2, <3>3 DEF Known, Done
  <2>3. CASE Exists(store[a].item) /\ store[a].pending
    <3>1. CASE Died(a)
      BY <1>1, <3>1, PastStays
    <3>2. ASSUME NEW q \in Requests, call[q].op = "complete", call[q].asset = a, Active(q),
                 at[q] = 6
          PROVE  Died(a)' \/ (Active(q)' /\ at'[q] = 6 /\ call'[q] = call[q])
      <4>1. call'[q] = call[q]
        BY <1>1, <3>2, CallsStay
      <4>2. CASE Handler(q)
        <5>1. ~DropPending(q)
          BY <1>1, <1>8, <3>2 DEF DropPending, Shapes, TypeOK
        <5>2. at'[q] = at[q]
          BY <1>1, <3>2, <4>2, <5>1, StepsAre
        <5>3. ~Continue(q)
          BY <1>1, <3>2, <5>2 DEF Continue, Shapes
        <5>4. Crash(q)
          <6>1. /\ ~At(q, "complete", "getPending") /\ ~At(q, "complete", "head")
                /\ ~At(q, "complete", "reserve") /\ ~At(q, "complete", "putItem")
                /\ \A op \in AllOps \ {"complete"} : \A step : ~At(q, op, step)
            BY <1>1, <3>2, PlacesAre DEF At
          <6>2. ~Probe(q) /\ ~GetPending(q) /\ ~HeadObject(q) /\ ~Reserve(q) /\ ~PutItem(q)
                /\ ~GetItem(q)
            BY <6>1 DEF Probe, GetPending, HeadObject, Reserve, PutItem, GetItem, AllOps
          <6>3. QED
            BY <4>2, <5>3, <6>2
            DEF Handler, SavePending, Log, DropPending, DeleteObject, Update, LogOrphaned,
                Release
        <5>5. answer'[q] = "lost"
          BY <1>1, <5>4 DEF Crash, Answer, Shapes, TypeOK
        <5>6. QED
          BY <3>2, <4>1, <5>5 DEF Died
      <4>3. CASE ~Handler(q)
        <5>1. at'[q] = 6
          BY <1>1, <3>2, <4>3, CallsStay
        <5>2. answer'[q] = answer[q]
          <6>1. ASSUME NEW p \in Requests, Handler(p) PROVE answer'[q] = answer[q]
            BY <1>1, <4>3, <6>1, HandlerMoves
          <6>2. QED
            BY <1>1, <6>1, NextIs, SurroundingsAre DEF Submit, Resend, vars
        <5>3. QED
          BY <3>2, <4>1, <5>1, <5>2 DEF Active, Idle, Done
      <4>4. QED
        BY <4>2, <4>3
    <3>3. QED
      BY <2>3, <3>1, <3>2 DEF BytesInv
  <2>4. QED
    BY <2>1, <2>2, <2>3
<1>9. ASSUME calm', NEW q \in Requests, Active(q)', call'[q].op = "abort", at'[q] = 2,
             NEW a \in Assets, call'[q].asset = a, Exists(store'[a].item)
      PROVE  Died(a)'
  <2>1. /\ call'[q] = call[q] /\ call[q].asset = a /\ at[q] \in Nat /\ at[q] > 0 /\ calm
        /\ at'[q] # at[q] => Handler(q) /\ at'[q] = at[q] + 1
    BY <1>1, <1>9, CallsStay, PastStays
  <2>2. Active(q)
    BY <1>1, <1>9, <2>1, PastStays DEF Active, Idle, Done
  <2>3. Exists(store[a].item)
    <3> SUFFICES ASSUME ~Exists(store[a].item) PROVE FALSE
      OBVIOUS
    <3>1. PICK p \in Requests : Active(p) /\ call[p].op = "complete"
      BY <1>1, <1>2, <1>9, <2>1
    <3>2. p = q
      BY <2>1, <2>2, <3>1 DEF CalmInv
    <3>3. QED
      BY <1>9, <2>1, <3>1, <3>2
  <2>4. CASE at[q] = 2
    <3>1. Died(a)
      BY <1>9, <2>1, <2>2, <2>3, <2>4 DEF BytesInv
    <3>2. QED
      BY <1>1, <2>1, <3>1, PastStays
  <2>5. CASE at[q] # 2
    <3>1. at[q] = 1 /\ at'[q] # at[q] /\ Handler(q)
      BY <1>9, <2>1, <2>5
    <3>2. GetPending(q)
      BY <1>1, <1>9, <2>1, <3>1, StepsAre
    <3>3. store[a].pending
      BY <1>9, <3>1, <3>2 DEF GetPending, Answer
    <3>4. ~\E p \in Requests : call[p].op = "complete" /\ Active(p)
      BY <1>9, <2>1, <2>2 DEF CalmInv
    <3>5. Died(a)
      BY <1>1, <2>3, <3>3, <3>4 DEF BytesInv
    <3>6. QED
      BY <1>1, <2>1, <3>5, PastStays
  <2>6. QED
    BY <2>4, <2>5
<1>10. QED
  <2>1. \A q \in Requests :
           Active(q)' /\ call'[q].op = "complete" /\ at'[q] \in 3..5
              /\ call'[q].asset \notin bytes' => Gone(call[q].asset)'
    BY <1>1, <1>5 DEF Gone, Destroys
  <2>2. calm' => \A q \in Requests :
           Active(q)' /\ call'[q].op = "abort" /\ at'[q] = 2
              /\ Exists(store[call[q].asset].item)' => Died(call[q].asset)'
    BY <1>1, <1>9 DEF Died, Exists
  <2>3. QED
    BY <1>4, <1>6, <1>7, <1>8, <2>1, <2>2 DEF BytesInv, Exists, Active, Idle, Done

\* A stored asset has its bytes unless a delete_asset passed its check, or an
\* abort_upload found the session that a complete_upload was storing.
THEOREM StoredKeepsBytes == Spec => []StoredHasBytes
<1>1. Init => AssetsInv /\ CalmInv /\ BytesInv
  BY AssetsInit, CalmInit, BytesInit
<1>2. AssetsInv /\ CalmInv /\ BytesInv /\ [Next]_vars => (AssetsInv /\ CalmInv /\ BytesInv)'
  BY NextKeepsAssets, NextKeepsCalm, NextKeepsBytes
<1>3. BytesInv => StoredHasBytes
  BY DEF BytesInv, StoredHasBytes, Gone
<1>4. QED
  BY <1>1, <1>2, <1>3, PTL DEF Spec

\* What is stored has its bytes, in the object store and in the quota, and the quota
\* has no more than what failed requests and repeated ADDs account for.
THEOREM BytesAreCounted == Spec => []BytesAreAccountedFor
BY StoredKeepsBytes, QuotaCovers, DriftIsBounded, PTL DEF BytesAreAccountedFor
=============================================================================
