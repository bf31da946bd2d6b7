-------------------------- MODULE Algorithms_proofs --------------------------
(***************************************************************************)
(* Proofs about what the services compute: predictions of arrival          *)
(* (PredictionInv), the validation of positions (ValidatorInv), the dwell  *)
(* at stops (DwellInv), the trust in passengers (CrowdInv) and what is     *)
(* predicted of their reports (BlendWithinReports), and where a bus is on  *)
(* its route (GeometryInv).                                                *)
(***************************************************************************)
EXTENDS EtaPrediction, PositionValidator, RouteGeometry, StopDwell,
        CrowdSensing, SequenceTheorems, FiniteSetTheorems,
        WellFoundedInduction, TLAPS

-----------------------------------------------------------------------------
(* Numbers.                                                                 *)

\* A set of natural numbers has a least one.
LEMMA LeastNat ==
    ASSUME NEW S \in SUBSET Nat, S # {}
    PROVE  \E n \in S : \A m \in S : n <= m
<1>1. IsWellFoundedOn(OpToRel(<, Nat), Nat)
  BY NatLessThanWellFounded
<1>2. PICK n \in S : \A m \in S : ~ (<<m, n>> \in OpToRel(<, Nat))
  BY <1>1, WFMin
<1>3. ASSUME NEW m \in S PROVE n <= m
  <2>1. m \in Nat /\ n \in Nat
    OBVIOUS
  <2>2. ~ (m < n)
    BY <1>2, <2>1 DEF OpToRel
  <2>3. QED
    BY <2>1, <2>2
<1>4. QED
  BY <1>3

(* Predictions.                                                             *)

LEMMA Divided ==
    ASSUME NEW a \in Nat, NEW b \in Nat \ {0}
    PROVE  a \div b \in Nat /\ (a >= b => a \div b >= 1)
  OBVIOUS

LEMMA Multiplied == ASSUME NEW a \in Nat, NEW b \in Nat PROVE a * b \in Nat
  OBVIOUS

\* A request, of the consumer or the endpoint: its distance may be negative,
\* and its stop is one of the route's if the route is known.
Real(q) == /\ q.d \in Int /\ q.s \in Nat /\ q.t \in Hours
           /\ q.seg \in Segments
           /\ q.pair[1] # NoRoute => q.pair \in Pairs

LEMMA ViewIsReal == \A v \in View : Real(v.query)
<1>1. TAKE v \in View
<1>2. v.query \in Request
  BY DEF View
<1>3. QED
  BY <1>2, PredictionAssumption DEF Request, Real

LEMMA PhysicsIs ==
    ASSUME NEW q, Real(q)
    PROVE  /\ Physics(q) \in Nat /\ ByHand(q) \in Nat
           /\ Physics(q) > 0 <=> q.d > 0
<1> DEFINE v == Larger(q.s, MinSpeed)
           a == 10 * Larger(q.d, 0) + v - 1
<1>1. v \in Nat \ {0} /\ q.d \in Int
  BY DEF Real, Larger, MinSpeed
<1>2. ASSUME q.d > 0
      PROVE  Physics(q) \in Nat /\ Physics(q) > 0
  <2>1. a \in Nat /\ a >= v
    BY <1>1, <1>2 DEF Larger
  <2> HIDE DEF a, v
  <2>2. a \div v \in Nat /\ a \div v >= 1
    BY <1>1, <2>1, Divided
  <2>3. QED
    BY <2>2 DEF Physics, a, v
<1>3. ASSUME ~ (q.d > 0)
      PROVE  Physics(q) = 0
  <2>1. a = v - 1
    BY <1>1, <1>3 DEF Larger
  <2> HIDE DEF v
  <2>2. (v - 1) \div v = 0
    BY <1>1
  <2>3. QED
    BY <2>1, <2>2 DEF Physics, v
<1>4. Physics(q) \in Nat /\ (Physics(q) > 0 <=> q.d > 0)
  BY <1>2, <1>3
<1>5. Expressway(q) \in Nat
  <2> DEFINE w == Larger(Weather, 50)
  <2>1. w \in Nat
    BY PredictionAssumption DEF Larger
  <2> HIDE DEF w
  <2>2. Physics(q) * w \in Nat
    BY <1>4, <2>1, Multiplied
  <2>3. (Physics(q) * w) \div 100 \in Nat
    BY <2>2, Divided
  <2>4. QED
    BY <2>3 DEF Expressway, w
<1>6. QED
  BY <1>4, <1>5 DEF ByHand

Predicted == [eta : Nat, used : Supported, clamped : BOOLEAN,
              fallback : BOOLEAN]

LEMMA OutcomeIs ==
    ASSUME NEW eta \in Nat, NEW used \in Supported, NEW c \in BOOLEAN,
           NEW f \in BOOLEAN
    PROVE  LET o == Outcome(eta, used, c, f) IN
           /\ o \in Predicted
           /\ o.eta = eta /\ o.used = used /\ o.clamped = c /\ o.fallback = f
  BY DEF Outcome, Predicted

\* What a model says.
LEMMA SaysIs ==
    ASSUME NEW m, NEW t \in Hours
    PROVE  Says(m, t) \in Int \union {Raises, Absent}
<1>1. CASE m \in Models
  <2>1. m \in [Hours -> Int \union {Raises}]
    BY <1>1, PredictionAssumption
  <2>2. QED
    BY <1>1, <2>1 DEF Says
<1>2. QED
  BY <1>1 DEF Says

Near(q, o) == \/ 10 * Deviation(o.eta, Physics(q)) <= 8 * Physics(q)
              \/ q.seg = "expressway" /\ o.eta = Expressway(q)

\* The outcome of XGBoost with its fallback and clamp ...
LEMMA XgbIs ==
    ASSUME NEW v \in View
    PROVE  /\ Xgb(v) \in Predicted /\ Near(v.query, Xgb(v))
           /\ Xgb(v).used \in {"physics", "xgboost"}
           /\ ~Xgb(v).fallback => Xgb(v).used = "xgboost"
<1> DEFINE q == v.query
           m == Says(v.xgb, q.t)
           Of(eta, c) == Outcome(eta, IF c THEN "physics" ELSE "xgboost",
                                 c, c)
           P == Physics(q)
<1>1. P \in Nat /\ (P > 0 <=> q.d > 0) /\ q.d \in Int
  BY ViewIsReal, PhysicsIs DEF Real
<1>2. m \notin {Absent, Raises} => m \in Int
  BY ViewIsReal, SaysIs DEF Real
<1>3. Slow(q) \in BOOLEAN
  BY DEF Slow
<1>4. ASSUME NEW eta \in Nat, NEW c \in BOOLEAN
      PROVE  /\ Of(eta, c) \in Predicted /\ Of(eta, c).eta = eta
             /\ Of(eta, c).used \in {"physics", "xgboost"}
             /\ ~Of(eta, c).fallback => Of(eta, c).used = "xgboost"
  <2>1. (IF c THEN "physics" ELSE "xgboost") \in Supported
    BY DEF Supported
  <2>2. QED
    BY <1>4, <2>1, OutcomeIs
<1>5. \A o : o.eta = P => Near(q, o)
  BY <1>1 DEF Near, Deviation
<1> HIDE DEF Of, P, m, q
<1>6. Xgb(v) = IF q.d <= 0 THEN Of(0, Slow(q))
               ELSE IF m \in {Absent, Raises} THEN Of(P, FALSE)
               ELSE IF TooFar(q, m) THEN Of(P, TRUE)
               ELSE Of(Larger(m, 0), Slow(q))
  BY DEF Xgb, Of, P, m, q
<1>7. CASE q.d <= 0
  <2>1. P = 0 /\ Xgb(v) = Of(0, Slow(q))
    BY <1>1, <1>6, <1>7
  <2>2. QED
    BY <1>3, <1>4, <1>5, <2>1 DEF q
<1>8. CASE ~(q.d <= 0) /\ (m \in {Absent, Raises} \/ TooFar(q, m))
  <2>1. Xgb(v) = Of(P, FALSE) \/ Xgb(v) = Of(P, TRUE)
    BY <1>6, <1>8
  <2>2. QED
    BY <1>1, <1>4, <1>5, <2>1 DEF q
<1>9. CASE ~(q.d <= 0) /\ m \notin {Absent, Raises} /\ ~TooFar(q, m)
  <2>1. Xgb(v) = Of(Larger(m, 0), Slow(q))
    BY <1>6, <1>9
  <2>2. P > 0 /\ 10 * Deviation(m, P) <= 8 * P
    <3>1. P > 0 /\ m \in Int
      BY <1>1, <1>2, <1>9
    <3>2. ~ (10 * Deviation(m, P) > 8 * P)
      BY <1>9, <3>1 DEF TooFar, P
    <3>3. Deviation(m, P) \in Int
      BY <1>1, <3>1 DEF Deviation
    <3>4. QED
      BY <1>1, <3>1, <3>2, <3>3
  <2>3. m \in Nat /\ Larger(m, 0) = m
    BY <1>1, <1>2, <1>9, <2>2 DEF Deviation, Larger
  <2>4. QED
    BY <1>3, <1>4, <2>1, <2>2, <2>3 DEF Near, P, q
<1>10. QED
  BY <1>7, <1>8, <1>9

\* ... and of the whole chain.
LEMMA PredictIs ==
    ASSUME NEW v \in View
    PROVE  /\ Predict(v) \in Predicted
           /\ Predict(v).used # "sarima" => Near(v.query, Predict(v))
           /\ Predict(v).used = "physics" /\ v.selected # "sarima" =>
                 Predict(v).eta = ByHand(v.query)
<1>1. /\ Xgb(v) \in Predicted /\ Near(v.query, Xgb(v))
      /\ ~Xgb(v).fallback => Xgb(v).used = "xgboost"
  BY XgbIs
<1>2. HasForecast(v) =>
         Sarima(v) \in Predicted /\ Sarima(v).used = "sarima"
  <2>1. HasForecast(v) => Says(v.sarima, v.ts) \in Int
    <3>1. v.ts \in Hours
      BY DEF View
    <3>2. QED
      BY <3>1, SaysIs DEF HasForecast
  <2>2. HasForecast(v) => Larger(Says(v.sarima, v.ts), 0) \in Nat
    BY <2>1 DEF Larger
  <2>3. "sarima" \in Supported
    BY DEF Supported
  <2>4. QED
    BY <2>2, <2>3, OutcomeIs DEF Sarima
<1>3. ASSUME NEW c \in BOOLEAN, NEW f \in BOOLEAN
      PROVE  LET o == Outcome(ByHand(v.query), "physics", c, f) IN
             o \in Predicted /\ o.eta = ByHand(v.query) /\ Near(v.query, o)
  <2>1. ByHand(v.query) \in Nat /\ "physics" \in Supported
    BY ViewIsReal, PhysicsIs DEF Supported
  <2>2. Near(v.query, [eta |-> ByHand(v.query)])
    <3>1. Physics(v.query) \in Nat
      BY ViewIsReal, PhysicsIs
    <3>2. QED
      BY <3>1 DEF Near, ByHand, Deviation
  <2>3. QED
    BY <2>1, <2>2, OutcomeIs DEF Near
<1>4. Slow(v.query) \in BOOLEAN
  BY DEF Slow
<1>5. CASE v.selected = "physics"
  BY <1>3, <1>4, <1>5 DEF Predict
<1>6. CASE v.selected = "sarima"
  BY <1>1, <1>2, <1>6 DEF Predict
<1>7. CASE v.selected = "xgboost"
  <2>1. \/ ~Xgb(v).fallback /\ Predict(v) = Xgb(v)
        \/ HasForecast(v) /\ Predict(v) = Sarima(v)
        \/ Predict(v) =
              Outcome(ByHand(v.query), "physics", Slow(v.query), TRUE)
    BY <1>7 DEF Predict
  <2>2. QED
    BY <1>1, <1>2, <1>3, <1>4, <2>1
<1>8. QED
  BY <1>5, <1>6, <1>7 DEF Supported, View

\* Two calls with the same models say the same.
LEMMA SameSays ==
    ASSUME NEW v \in View, NEW p \in View, v.selected = p.selected,
           v.query = p.query, Needs(v) = "nothing", Needs(p) = "nothing",
           p.xgb = Unasked \/ v.xgb \in {p.xgb, Unasked},
           p.sarima = Unasked \/ v.sarima \in {p.sarima, Unasked},
           {v.sarima, p.sarima} = {Unasked} \/ v.ts = p.ts
    PROVE  Predict(v) = Predict(p)
<1>1. /\ v.query.d \in Int /\ v.selected \in Supported
      /\ XgbAnswered(v) /\ XgbAnswered(p) => Xgb(v) = Xgb(p)
  <2>1. v.query.d \in Int /\ v.selected \in Supported
    BY ViewIsReal DEF Real, View
  <2>2. CASE v.query.d <= 0
    BY <2>1, <2>2 DEF Xgb
  <2>3. CASE ~(v.query.d <= 0)
    <3>1. XgbAnswered(v) /\ XgbAnswered(p) => v.xgb = p.xgb
      BY <2>3 DEF XgbAnswered
    <3>2. QED
      BY <2>1, <3>1 DEF Xgb
  <2>4. QED
    BY <2>1, <2>2, <2>3
<1>2. SarimaAnswered(v) /\ SarimaAnswered(p) =>
         /\ HasForecast(v) = HasForecast(p)
         /\ HasForecast(v) => Sarima(v) = Sarima(p)
  <2>1. CASE v.query.pair[1] = NoRoute
    BY <2>1 DEF HasForecast
  <2>2. CASE v.query.pair[1] # NoRoute
    <3>1. SarimaAnswered(v) /\ SarimaAnswered(p) =>
             v.sarima = p.sarima /\ v.ts = p.ts
      BY <2>2 DEF SarimaAnswered
    <3>2. QED
      BY <3>1 DEF HasForecast, Sarima
  <2>3. QED
    BY <2>1, <2>2
<1>3. \A w \in {v, p} : /\ WantsXgb(w) => XgbAnswered(w)
                        /\ WantsSarima(w) => SarimaAnswered(w)
  BY DEF Needs
<1>4. CASE v.selected = "physics"
  BY <1>4 DEF Predict
<1>5. CASE v.selected = "sarima"
  <2>1. HasForecast(v) = HasForecast(p)
        /\ (HasForecast(v) => Sarima(v) = Sarima(p))
    BY <1>2, <1>3, <1>5 DEF WantsSarima
  <2>2. ~HasForecast(v) => Xgb(v) = Xgb(p)
    BY <1>1, <1>3, <1>5, <2>1 DEF WantsSarima, WantsXgb
  <2>3. QED
    BY <1>5, <2>1, <2>2 DEF Predict
<1>6. CASE v.selected = "xgboost"
  <2>1. Xgb(v) = Xgb(p) /\ XgbAnswered(v) /\ XgbAnswered(p)
    BY <1>1, <1>3, <1>6 DEF WantsXgb
  <2>2. Xgb(v).fallback => HasForecast(v) = HasForecast(p)
        /\ (HasForecast(v) => Sarima(v) = Sarima(p))
    BY <1>2, <1>3, <1>6, <2>1 DEF WantsSarima
  <2>3. QED
    BY <1>6, <2>1, <2>2 DEF Predict
<1>7. QED
  BY <1>1, <1>4, <1>5, <1>6 DEF Supported

-----------------------------------------------------------------------------
(* The cache of artifacts.                                                  *)

\* A pair's entry is taken out; the others keep their order.
LEMMA WithoutIs ==
    ASSUME NEW S, NEW c \in Seq(S), NEW k \in 1 .. Len(c)
    PROVE  LET w == RemoveAt(c, k) IN
           /\ w \in Seq(S) /\ Len(w) = Len(c) - 1
           /\ \A i \in 1 .. Len(w) : w[i] = c[IF i < k THEN i ELSE i + 1]
<1> DEFINE a == SubSeq(c, 1, k - 1)
           b == SubSeq(c, k + 1, Len(c))
           w == RemoveAt(c, k)
           L == Len(c)
<1>1. L \in Nat /\ k \in 1 .. L /\ k \in Nat /\ \A i \in 1 .. L : c[i] \in S
  BY LenProperties, ElementOfSeq
<1>2. /\ a \in Seq(S) /\ Len(a) = k - 1
      /\ \A i \in 1 .. k - 1 : a[i] = c[i]
  <2>1. \A i \in 1 .. k - 1 : c[i] \in S
    BY <1>1
  <2>2. /\ a \in Seq(S)
        /\ Len(a) = IF 1 <= k - 1 THEN k - 1 - 1 + 1 ELSE 0
        /\ \A i \in 1 .. k - 1 - 1 + 1 : a[i] = c[1 + i - 1]
    BY <1>1, <2>1, SubSeqProperties
  <2>3. \A i \in 1 .. k - 1 : i \in 1 .. k - 1 - 1 + 1 /\ 1 + i - 1 = i
    BY <1>1
  <2>4. QED
    BY <1>1, <2>2, <2>3
<1>3. /\ b \in Seq(S) /\ Len(b) = L - k
      /\ \A i \in 1 .. L - k : b[i] = c[k + i]
  <2>1. \A i \in k + 1 .. L : c[i] \in S
    BY <1>1
  <2>2. /\ b \in Seq(S)
        /\ Len(b) = IF k + 1 <= L THEN L - (k + 1) + 1 ELSE 0
        /\ \A i \in 1 .. L - (k + 1) + 1 : b[i] = c[k + 1 + i - 1]
    BY <1>1, <2>1, SubSeqProperties
  <2>3. \A i \in 1 .. L - k : /\ i \in 1 .. L - (k + 1) + 1
                              /\ k + 1 + i - 1 = k + i
    BY <1>1
  <2>4. QED
    BY <1>1, <2>2, <2>3
<1>4. w = a \o b
  BY DEF RemoveAt
<1> HIDE DEF a, b, w, L
<1>5. /\ w \in Seq(S) /\ Len(w) = Len(a) + Len(b)
      /\ \A i \in 1 .. Len(a) + Len(b) :
            w[i] = IF i <= Len(a) THEN a[i] ELSE b[i - Len(a)]
  BY <1>2, <1>3, <1>4, ConcatProperties
<1>6. Len(w) = L - 1
  BY <1>1, <1>2, <1>3, <1>5
<1>7. ASSUME NEW i \in 1 .. Len(w)
      PROVE  w[i] = c[IF i < k THEN i ELSE i + 1]
  <2>1. i \in 1 .. L - 1 /\ i \in Nat
    BY <1>1, <1>6
  <2>2. CASE i < k
    <3>1. i \in 1 .. k - 1
      BY <1>1, <2>1, <2>2
    <3>2. QED
      BY <1>1, <1>2, <1>3, <1>5, <2>1, <2>2, <3>1
  <2>3. CASE ~(i < k)
    <3>1. /\ i - (k - 1) \in 1 .. L - k /\ k + (i - (k - 1)) = i + 1
          /\ ~(i <= k - 1)
      BY <1>1, <2>1, <2>3
    <3>2. QED
      BY <1>1, <1>2, <1>3, <1>5, <1>6, <2>1, <2>3, <3>1
  <2>4. QED
    BY <2>2, <2>3
<1>8. QED
  BY <1>5, <1>6, <1>7 DEF w, L

\* One more element, when there is room, and else in place of the first one.
LEMMA LastOfIs ==
    ASSUME NEW S, NEW w \in Seq(S), NEW e \in S, NEW N \in Nat \ {0},
           Len(w) <= N
    PROVE  LET r == LastOf(Append(w, e), N)
               drop == IF Len(w) = N THEN 1 ELSE 0
           IN  /\ r \in Seq(S) /\ Len(r) = Len(w) + 1 - drop /\ Len(r) <= N
               /\ Len(r) \in 1 .. Len(r) /\ r[Len(r)] = e
               /\ \A i \in 1 .. Len(r) - 1 : r[i] = w[i + drop]
<1> DEFINE a == Append(w, e)
           r == LastOf(a, N)
           l == Len(w)
           drop == IF Len(w) = N THEN 1 ELSE 0
<1>1. l \in Nat /\ l <= N
  BY LenProperties
<1>2. /\ a \in Seq(S) /\ a # <<>> /\ Len(a) = l + 1 /\ a[l + 1] = e
      /\ \A i \in 1 .. l : a[i] = w[i]
  BY AppendProperties
<1> HIDE DEF a, l
<1>3. r = IF l = N THEN Tail(a) ELSE a
  BY <1>1, <1>2 DEF LastOf
<1>4. CASE l = N
  <2>1. /\ Tail(a) \in Seq(S) /\ Len(Tail(a)) = l
        /\ \A i \in 1 .. l : Tail(a)[i] = a[i + 1]
    BY <1>1, <1>2, HeadTailProperties
  <2>2. /\ r \in Seq(S) /\ Len(r) = l /\ drop = 1
        /\ \A i \in 1 .. l : r[i] = a[i + 1]
    BY <1>3, <1>4, <2>1 DEF l
  <2>3. l \in 1 .. l /\ r[l] = e
    BY <1>1, <1>2, <1>4, <2>2
  <2>4. \A i \in 1 .. l - 1 : i \in 1 .. l /\ i + 1 \in 1 .. l
    BY <1>1
  <2>5. \A i \in 1 .. l - 1 : r[i] = w[i + 1]
    BY <1>2, <2>2, <2>4
  <2> HIDE DEF r
  <2>6. l + 1 - 1 = l
    BY <1>1
  <2>7. QED
    BY <1>1, <2>2, <2>3, <2>5, <2>6 DEF r, a, l
<1>5. CASE l # N
  <2>1. r = a /\ drop = 0 /\ Len(r) = l + 1
    BY <1>2, <1>3, <1>5 DEF l
  <2>2. l + 1 <= N /\ l + 1 \in 1 .. l + 1 /\ l + 1 - 0 = l + 1
    BY <1>1, <1>5
  <2>3. \A i \in 1 .. l + 1 - 1 : i \in 1 .. l /\ i + 0 = i
    BY <1>1
  <2>4. \A i \in 1 .. l + 1 - 1 : r[i] = w[i + 0]
    BY <1>2, <2>1, <2>3
  <2> HIDE DEF r
  <2>5. QED
    BY <1>2, <2>1, <2>2, <2>4 DEF r, a, l
<1>6. QED
  BY <1>4, <1>5

Entries == Pairs \X (Models \union {Absent})
OnceEach(c) == \A i, k \in DOMAIN c : c[i][1] = c[k][1] => i = k
CacheIs == /\ cache \in Seq(Entries) /\ Len(cache) <= CacheSize
           /\ OnceEach(cache)

LEMMA CacheIsSeq ==
    ASSUME CacheIs
    PROVE  /\ Len(cache) \in Nat /\ DOMAIN cache = 1 .. Len(cache)
           /\ \A i \in 1 .. Len(cache) : cache[i] \in Entries
<1>1. cache \in Seq(Entries)
  BY DEF CacheIs
<1>2. QED
  BY <1>1, LenProperties, ElementOfSeq

\* What is in the cache is found there.
LEMMA EntryIs ==
    ASSUME CacheIs, NEW p, Cached(p)
    PROVE  /\ Entry(p) \in 1 .. Len(cache) /\ cache[Entry(p)][1] = p
           /\ \A i \in 1 .. Len(cache) : cache[i][1] = p => i = Entry(p)
           /\ \E m \in Models \union {Absent} : cache[Entry(p)] = <<p, m>>
<1>1. Entry(p) \in DOMAIN cache /\ cache[Entry(p)][1] = p
  BY DEF Cached, Entry
<1>2. /\ Entry(p) \in 1 .. Len(cache)
      /\ \A i \in 1 .. Len(cache) : cache[i][1] = p => i = Entry(p)
  BY <1>1, CacheIsSeq DEF CacheIs, OnceEach
<1>3. cache[Entry(p)] \in Entries
  BY <1>2, CacheIsSeq
<1>4. QED
  BY <1>1, <1>2, <1>3 DEF Entries

\* The cache with a pair's entry taken out: the others stay, as far from the
\* end as they were or closer.
LEMMA OthersAre ==
    ASSUME CacheIs, NEW p
    PROVE  LET w == IF Cached(p) THEN RemoveAt(cache, Entry(p)) ELSE cache IN
           /\ w \in Seq(Entries) /\ Len(w) <= CacheSize
           /\ \A i \in 1 .. Len(w) :
                 /\ w[i][1] # p
                 /\ \E k \in 1 .. Len(cache) : w[i] = cache[k]
                 /\ \A j \in 1 .. Len(w) : w[i][1] = w[j][1] => i = j
           /\ \A k \in 1 .. Len(cache) : cache[k][1] # p =>
                 \E i \in 1 .. Len(w) :
                    w[i] = cache[k] /\ Len(w) - i <= Len(cache) - k
<1> DEFINE w == IF Cached(p) THEN RemoveAt(cache, Entry(p)) ELSE cache
           e == Entry(p)
           L == Len(cache)
<1>1. /\ cache \in Seq(Entries) /\ L \in Nat /\ L <= CacheSize
      /\ DOMAIN cache = 1 .. L /\ CacheSize \in Nat
  BY CacheIsSeq, PredictionAssumption DEF CacheIs
<1>2. CASE ~Cached(p)
  <2>1. w = cache /\ \A i \in 1 .. L : cache[i][1] # p
    BY <1>1, <1>2 DEF Cached
  <2>2. \A k \in 1 .. L : L - k <= L - k
    BY <1>1
  <2>3. QED
    BY <1>1, <2>1, <2>2 DEF CacheIs, OnceEach
<1>3. CASE Cached(p)
  <2>1. e \in 1 .. L /\ cache[e][1] = p
    BY <1>3, EntryIs
  <2> HIDE DEF e, L
  <2>2. /\ w \in Seq(Entries) /\ Len(w) = L - 1
        /\ \A i \in 1 .. L - 1 : w[i] = cache[IF i < e THEN i ELSE i + 1]
    BY <1>1, <1>3, <2>1, WithoutIs DEF e, L
  <2> HIDE DEF w
  <2> DEFINE spot(i) == IF i < e THEN i ELSE i + 1
  <2>3. \A i \in 1 .. L - 1 : spot(i) \in 1 .. L /\ spot(i) # e
    BY <1>1, <2>1
  <2>4. \A i, j \in 1 .. L - 1 : spot(i) = spot(j) => i = j
    BY <1>1, <2>1
  <2>5. \A k \in 1 .. L : k # e =>
           \E i \in 1 .. L - 1 : spot(i) = k /\ (L - 1) - i <= L - k
    <3>1. ASSUME NEW k \in 1 .. L, k < e
          PROVE  k \in 1 .. L - 1 /\ spot(k) = k /\ (L - 1) - k <= L - k
      BY <1>1, <2>1, <3>1
    <3>2. ASSUME NEW k \in 1 .. L, e < k
          PROVE  /\ k - 1 \in 1 .. L - 1 /\ spot(k - 1) = k
                 /\ (L - 1) - (k - 1) <= L - k
      BY <1>1, <2>1, <3>2
    <3>3. \A k \in 1 .. L : k # e => k < e \/ e < k
      BY <1>1, <2>1
    <3> HIDE DEF spot
    <3>4. QED
      BY <3>1, <3>2, <3>3
  <2> HIDE DEF spot
  <2>6. \A i \in 1 .. L - 1 : w[i] = cache[spot(i)]
    BY <2>2 DEF spot
  <2>7. \A i, j \in 1 .. L : cache[i][1] = cache[j][1] => i = j
    BY <1>1 DEF CacheIs, OnceEach
  <2>8. ASSUME NEW i \in 1 .. L - 1
        PROVE  /\ w[i][1] # p
               /\ \E k \in 1 .. L : w[i] = cache[k]
               /\ \A j \in 1 .. L - 1 : w[i][1] = w[j][1] => i = j
    BY <2>1, <2>3, <2>4, <2>6, <2>7
  <2>9. \A k \in 1 .. L : cache[k][1] # p =>
           \E i \in 1 .. L - 1 : w[i] = cache[k] /\ (L - 1) - i <= L - k
    BY <2>1, <2>5, <2>6
  <2>10. L - 1 <= CacheSize
    BY <1>1
  <2>11. QED
    BY <2>2, <2>8, <2>9, <2>10 DEF w, L, e
<1>4. QED
  BY <1>2, <1>3

\* An artifact used is the last one; the others come one use closer to being
\* dropped, at most.
LEMMA UsesIs ==
    ASSUME CacheIs, NEW p \in Pairs, NEW f \in Models \union {Absent},
           Uses(p, f)
    PROVE  /\ cache' \in Seq(Entries) /\ Len(cache') <= CacheSize
           /\ Len(cache') \in 1 .. Len(cache')
           /\ DOMAIN cache' = 1 .. Len(cache')
           /\ Len(cache') \in Nat /\ cache'[Len(cache')] = <<p, f>>
           /\ OnceEach(cache')
           /\ \A k \in 1 .. Len(cache), n \in Nat :
                 (/\ cache[k][1] # p /\ n < CacheSize
                  /\ Len(cache) - k < n)
                 => \E i \in 1 .. Len(cache') :
                       cache'[i] = cache[k] /\ Len(cache') - i < n + 1
<1> DEFINE w == IF Cached(p) THEN RemoveAt(cache, Entry(p)) ELSE cache
           e == <<p, f>>
           c == LastOf(Append(w, e), CacheSize)
           m == Len(w)
           L == Len(cache)
           drop == IF Len(w) = CacheSize THEN 1 ELSE 0
<1>1. /\ w \in Seq(Entries) /\ m <= CacheSize
      /\ \A i \in 1 .. m : /\ w[i][1] # p
                           /\ \E k \in 1 .. L : w[i] = cache[k]
                           /\ \A j \in 1 .. m : w[i][1] = w[j][1] => i = j
      /\ \A k \in 1 .. L : cache[k][1] # p =>
            \E i \in 1 .. m : w[i] = cache[k] /\ m - i <= L - k
  BY OthersAre
<1>2. e \in Entries /\ e[1] = p
  BY DEF Entries
<1>3. CacheSize \in Nat \ {0} /\ L \in Nat
  BY PredictionAssumption, CacheIsSeq
<1>4. c = cache'
  BY DEF Uses
<1> HIDE DEF w, e, m, L
<1>5. /\ c \in Seq(Entries) /\ Len(c) = m + 1 - drop /\ Len(c) <= CacheSize
      /\ Len(c) \in 1 .. Len(c) /\ c[Len(c)] = e
      /\ \A i \in 1 .. Len(c) - 1 : c[i] = w[i + drop]
  <2>1. w \in Seq(Entries) /\ Len(w) <= CacheSize
    BY <1>1 DEF m
  <2>2. /\ c \in Seq(Entries) /\ Len(c) = Len(w) + 1 - drop
        /\ Len(c) <= CacheSize
        /\ Len(c) \in 1 .. Len(c) /\ c[Len(c)] = e
        /\ \A i \in 1 .. Len(c) - 1 : c[i] = w[i + drop]
    BY <1>2, <1>3, <2>1, LastOfIs
  <2>3. QED
    BY <2>2 DEF m
<1>6. /\ m \in Nat /\ drop \in {0, 1} /\ (drop = 1 => m = CacheSize)
      /\ DOMAIN c = 1 .. Len(c) /\ Len(c) \in Nat
  BY <1>1, <1>5, LenProperties DEF m
<1> HIDE DEF c, drop
<1>7. \A i \in 1 .. Len(c) : i = Len(c) \/ i \in 1 .. Len(c) - 1
  <2>1. Len(c) \in Nat
    BY <1>6
  <2>2. QED
    BY <2>1
<1>8. \A i \in 1 .. Len(c) - 1 : i + drop \in 1 .. m /\ c[i] = w[i + drop]
  BY <1>5, <1>6
<1>9. OnceEach(c)
  <2>1. ASSUME NEW i \in 1 .. Len(c), NEW j \in 1 .. Len(c),
               c[i][1] = c[j][1]
        PROVE  i = j
    <3>1. CASE i \in 1 .. Len(c) - 1 /\ j \in 1 .. Len(c) - 1
      <4>1. i + drop = j + drop
        BY <1>1, <1>8, <2>1, <3>1
      <4>2. QED
        BY <1>6, <3>1, <4>1
    <3>2. CASE i = Len(c) \/ j = Len(c)
      BY <1>1, <1>2, <1>5, <1>7, <1>8, <2>1, <3>2
    <3>3. QED
      BY <1>7, <3>1, <3>2
  <2>2. QED
    BY <1>6, <2>1 DEF OnceEach
<1>10. \A i \in 1 .. Len(c) : i = Len(c) \/ \E k \in 1 .. L : c[i] = cache[k]
  BY <1>1, <1>7, <1>8
<1>11. ASSUME NEW k \in 1 .. L, NEW n \in Nat, cache[k][1] # p,
              n < CacheSize, L - k < n
       PROVE  \E i \in 1 .. Len(c) : c[i] = cache[k] /\ Len(c) - i < n + 1
  <2>1. PICK i \in 1 .. m : w[i] = cache[k] /\ m - i <= L - k
    BY <1>1, <1>11
  <2>2. i - drop \in 1 .. Len(c) - 1 /\ (i - drop) + drop = i
    BY <1>3, <1>5, <1>6, <1>11, <2>1
  <2>3. c[i - drop] = cache[k]
    BY <1>8, <2>1, <2>2
  <2>4. Len(c) - (i - drop) < n + 1
    BY <1>3, <1>5, <1>6, <1>11, <2>1
  <2>5. i - drop \in 1 .. Len(c)
    BY <1>6, <2>2
  <2>6. QED
    BY <2>3, <2>4, <2>5
<1>12. QED
  BY <1>4, <1>5, <1>6, <1>9, <1>10, <1>11 DEF e, L

-----------------------------------------------------------------------------
(* What the two caches give and keep.                                       *)

LEMMA CacheIsTyped ==
    ASSUME PredictionTypeOK, CacheIsOrdered
    PROVE  /\ CacheIs /\ touched \in Nat /\ CacheSize \in Nat
           /\ loaded \in [Segments -> Models \union {Absent}]
  BY PredictionAssumption
     DEF PredictionTypeOK, CacheIsOrdered, CacheIs, Entries, OnceEach

\* What is loaded stays, and an artifact stays for as many uses as there is
\* room for.
MemoryKept ==
    /\ reboots' = reboots
    /\ loaded' \in [Segments -> Models \union {Absent}]
    /\ \A g \in Segments : loaded[g] # Absent => loaded'[g] = loaded[g]
    /\ CacheIs'
    /\ touched' \in Nat /\ touched <= touched'
    /\ \A d \in Nat : touched' = touched + d =>
          \A p, m : \A n \in Nat :
             Within(p, m, n) /\ n + d < CacheSize => Within(p, m, n + d)'

LEMMA UntouchedKept ==
    ASSUME PredictionTypeOK, CacheIsOrdered, UNCHANGED <<memory, reboots>>
    PROVE  MemoryKept
<1>1. CacheIs /\ touched \in Nat
      /\ loaded \in [Segments -> Models \union {Absent}]
  BY CacheIsTyped
<1>2. UNCHANGED <<loaded, cache, touched, reboots>>
  BY DEF memory
<1>3. CacheIs' /\ \A p, m : \A n \in Nat : Within(p, m, n)' = Within(p, m, n)
  BY <1>1, <1>2 DEF CacheIs, OnceEach, Within
<1>4. \A d \in Nat : touched' = touched + d =>
         d = 0 /\ \A n \in Nat : n + d = n
  BY <1>1, <1>2
<1>5. QED
  BY <1>1, <1>2, <1>3, <1>4 DEF MemoryKept

LEMMA LoadKept ==
    ASSUME PredictionTypeOK, CacheIsOrdered, NEW g \in Segments,
           NEW m \in Models, loaded[g] = Absent,
           loaded' = [loaded EXCEPT ![g] = m],
           UNCHANGED <<cache, touched, reboots>>
    PROVE  MemoryKept /\ loaded'[g] = m
<1>1. CacheIs /\ touched \in Nat
      /\ loaded \in [Segments -> Models \union {Absent}]
  BY CacheIsTyped
<1>2. CacheIs' /\ \A p, x : \A n \in Nat : Within(p, x, n)' = Within(p, x, n)
  BY <1>1 DEF CacheIs, OnceEach, Within
<1>3. \A d \in Nat : touched' = touched + d =>
         d = 0 /\ \A n \in Nat : n + d = n
  BY <1>1
<1>4. /\ loaded' \in [Segments -> Models \union {Absent}]
      /\ loaded'[g] = m
      /\ \A h \in Segments : loaded[h] # Absent => loaded'[h] = loaded[h]
  BY <1>1
<1>5. QED
  BY <1>1, <1>2, <1>3, <1>4 DEF MemoryKept

LEMMA UsesKept ==
    ASSUME PredictionTypeOK, CacheIsOrdered, NEW p \in Pairs,
           NEW f \in Models \union {Absent}, Uses(p, f),
           Cached(p) => cache[Entry(p)] = <<p, f>>,
           UNCHANGED <<loaded, reboots>>
    PROVE  MemoryKept /\ touched' = touched + 1 /\ Within(p, f, 0)'
<1> DEFINE L == Len(cache)
           M == Len(cache')
<1>1. /\ CacheIs /\ touched \in Nat /\ CacheSize \in Nat
      /\ loaded \in [Segments -> Models \union {Absent}]
  BY CacheIsTyped
<1>2. /\ CacheIs' /\ M \in 1 .. M /\ M \in Nat /\ DOMAIN cache' = 1 .. M
      /\ cache'[M] = <<p, f>>
      /\ \A k \in 1 .. L, n \in Nat :
            (cache[k][1] # p /\ n < CacheSize /\ L - k < n)
            => \E i \in 1 .. M : cache'[i] = cache[k] /\ M - i < n + 1
  BY <1>1, UsesIs DEF CacheIs
<1>3. /\ touched' = touched + 1
      /\ \A d \in Nat : touched' = touched + d => d = 1
  BY <1>1 DEF Uses
<1>4. L \in Nat /\ DOMAIN cache = 1 .. L
  BY <1>1, CacheIsSeq
<1>5. \A n \in Nat : Within(p, f, n)'
  <2>1. M - M = 0
    BY <1>2
  <2> HIDE DEF M
  <2>2. QED
    BY <1>2, <2>1 DEF Within, M
<1>6. ASSUME NEW x, NEW m, NEW n \in Nat, Within(x, m, n), n + 1 < CacheSize
      PROVE  Within(x, m, n + 1)'
  <2>1. PICK k \in 1 .. L : cache[k] = <<x, m>> /\ L - k <= n
    BY <1>4, <1>6 DEF Within
  <2>2. CASE x = p
    <3>1. Cached(p) /\ k = Entry(p)
      <4>1. Cached(p)
        BY <1>4, <2>1, <2>2 DEF Cached
      <4>2. QED
        BY <1>1, <2>1, <2>2, <4>1, EntryIs
    <3>2. m = f
      BY <2>1, <2>2, <3>1
    <3>3. n + 1 \in Nat
      OBVIOUS
    <3>4. QED
      BY <1>5, <2>2, <3>2, <3>3
  <2>3. CASE x # p
    <3>1. L - k < n + 1 /\ n + 1 \in Nat /\ cache[k][1] # p
      BY <1>4, <2>1, <2>3
    <3>2. PICK i \in 1 .. M : cache'[i] = cache[k] /\ M - i < (n + 1) + 1
      BY <1>2, <1>6, <3>1
    <3>3. M - i <= n + 1
      BY <1>2, <3>2
    <3> HIDE DEF M
    <3>4. QED
      BY <1>2, <2>1, <3>2, <3>3 DEF Within, M
  <2>4. QED
    BY <2>2, <2>3
<1>7. touched <= touched' /\ touched' \in Nat
  BY <1>1, <1>3
<1> HIDE DEF L, M
<1>8. QED
  BY <1>1, <1>2, <1>3, <1>5, <1>6, <1>7 DEF MemoryKept

\* What a call was given and was kept stays so.
LEMMA LastingKept ==
    ASSUME PredictionTypeOK, MemoryKept, NEW v \in View, Kept(v)
    PROVE  Kept(v)'
<1>1. /\ v.touch \in Nat /\ touched \in Nat /\ touched' \in Nat
      /\ touched <= touched' /\ reboots' = reboots /\ CacheSize \in Nat
      /\ v.query.seg \in Segments
  BY PredictionAssumption, ViewIsReal
     DEF View, PredictionTypeOK, MemoryKept, Real
<1>2. v.boot <= reboots' /\ v.touch <= touched' + 1
  BY <1>1 DEF Kept
<1>3. CASE v.boot = reboots
  <2>1. "xgb" \in v.held =>
           v.xgb \in Models /\ loaded'[v.query.seg] = v.xgb
    <3>1. "xgb" \in v.held =>
             v.xgb \in Models /\ loaded[v.query.seg] = v.xgb
      BY <1>3 DEF Kept, Lasting
    <3>2. Absent \notin Models
      BY PredictionAssumption
    <3>3. QED
      BY <1>1, <3>1, <3>2 DEF MemoryKept
  <2>2. ASSUME "sarima" \in v.held
        PROVE  v.sarima # Unasked /\ v.touch <= touched'
    <3>1. v.sarima # Unasked /\ v.touch <= touched
      BY <1>3, <2>2 DEF Kept, Lasting
    <3>2. QED
      BY <1>1, <3>1
  <2>3. ASSUME "sarima" \in v.held, NEW k, k = touched' - v.touch,
               k < CacheSize
        PROVE  Within(v.query.pair, v.sarima, k)'
    <3>1. v.touch <= touched
      BY <1>3, <2>3 DEF Kept, Lasting
    <3>2. PICK n \in Nat : n = touched - v.touch
      BY <1>1, <3>1
    <3>3. PICK d \in Nat : touched' = touched + d
      BY <1>1
    <3>4. n < CacheSize /\ n + d = k
      BY <1>1, <2>3, <3>2, <3>3
    <3>5. Within(v.query.pair, v.sarima, n)
      BY <1>3, <2>3, <3>2, <3>4 DEF Kept, Lasting
    <3>6. Within(v.query.pair, v.sarima, n + d)'
      BY <2>3, <3>3, <3>4, <3>5 DEF MemoryKept
    <3>7. QED
      BY <3>4, <3>6
  <2>4. ("sarima" \in v.held /\ touched - v.touch < CacheSize =>
            Within(v.query.pair, v.sarima, touched - v.touch))'
    <3>1. PICK k : k = touched' - v.touch
      OBVIOUS
    <3>2. QED
      BY <2>3, <3>1 DEF Within
  <2>5. QED
    BY <1>1, <1>2, <2>1, <2>2, <2>4 DEF Kept, Lasting
<1>4. CASE v.boot # reboots
  BY <1>1, <1>2, <1>4 DEF Kept, Lasting
<1>5. QED
  BY <1>3, <1>4

-----------------------------------------------------------------------------
(* Steps.                                                                   *)

LEMMA SnapshotsAre ==
    ASSUME PredictionTypeOK
    PROVE  /\ Snapshots \subseteq View /\ Shown \subseteq View
           /\ \A c \in Busy : pending[c] \in Call /\ pending[c].view \in View
           /\ position # Nothing => position \in Snapshots
           /\ \A c \in Busy : pending[c].snapshot # Nothing =>
                                 pending[c].snapshot \in Snapshots
<1>1. \A c \in Busy : /\ pending[c] \in Call /\ pending[c].view \in View
                      /\ pending[c].snapshot \in View \union {Nothing}
  BY DEF PredictionTypeOK, Busy, Call
<1>2. \A a \in Answered : a.view \in View /\ a.snapshot \in View
  BY DEF PredictionTypeOK, Answered
<1>3. position \in View \union {Nothing}
  BY DEF PredictionTypeOK
<1>4. QED
  BY <1>1, <1>2, <1>3 DEF Snapshots, Shown

LEMMA ShownIsSound ==
    PredictionTypeOK => ArrivalsAhead /\ NearPhysics /\ PhysicsIsByHand
<1> SUFFICES ASSUME PredictionTypeOK
             PROVE  ArrivalsAhead /\ NearPhysics /\ PhysicsIsByHand
  OBVIOUS
<1>1. \A v \in Shown : v \in View
  BY SnapshotsAre
<1>2. ArrivalsAhead
  BY <1>1, PredictIs DEF ArrivalsAhead, Predicted
<1>3. NearPhysics
  BY <1>1, PredictIs DEF NearPhysics, Near
<1>4. PhysicsIsByHand
  BY <1>1, PredictIs DEF PhysicsIsByHand
<1>5. QED
  BY <1>2, <1>3, <1>4

\* What a step has to show for the calls and snapshots that are new.
LEMMA StepKept ==
    ASSUME PredictionInv, PredictionTypeOK', MemoryKept,
           \A p \in Snapshots' : p \in Snapshots \/ SnapshotIsKept(p)',
           \A a \in Answered' :
              a \in Answered \/ Repeats(a.view, a.snapshot),
           \A c \in Busy' : \/ c \in Busy /\ pending'[c] = pending[c]
                            \/ CallFollows(c)'
    PROVE  PredictionInv'
<1>1. PredictionTypeOK
  BY DEF PredictionInv
<1>2. (ArrivalsAhead /\ NearPhysics /\ PhysicsIsByHand)'
  <2>1. (PredictionTypeOK => ArrivalsAhead /\ NearPhysics /\ PhysicsIsByHand)'
    BY ShownIsSound, PTL
  <2>2. QED
    BY <2>1
<1>3. AnnouncedIsAnswered'
  BY DEF PredictionInv, AnnouncedIsAnswered
<1>4. CacheIsOrdered'
  BY DEF MemoryKept, CacheIs, OnceEach, CacheIsOrdered
<1>5. ASSUME NEW p \in Snapshots'
      PROVE  SnapshotIsKept(p)'
  <2>1. CASE p \in Snapshots
    <3>1. p \in View /\ SnapshotIsKept(p)
      BY <1>1, <2>1, SnapshotsAre DEF PredictionInv
    <3>2. Kept(p)'
      BY <1>1, <3>1, LastingKept DEF SnapshotIsKept
    <3>3. QED
      BY <3>1, <3>2 DEF SnapshotIsKept
  <2>2. QED
    BY <2>1
<1>6. ASSUME NEW c \in Busy'
      PROVE  CallFollows(c)'
  <2>1. CASE c \in Busy /\ pending'[c] = pending[c]
    <3>1. PICK v \in View : v = pending[c].view
      BY <1>1, <2>1, SnapshotsAre
    <3>2. CallFollows(c)
      BY <2>1 DEF PredictionInv
    <3>3. Kept(v)'
      BY <1>1, <3>1, <3>2, LastingKept DEF CallFollows
    <3>4. v.boot = reboots'
      BY <3>1, <3>2 DEF CallFollows, MemoryKept
    <3>5. pending'[c].view = v
      BY <2>1, <3>1
    <3>6. Kept(pending[c].view)'
      BY <3>3, <3>5 DEF Kept, Lasting, Within
    <3>7. QED
      BY <2>1, <3>1, <3>2, <3>4, <3>5, <3>6 DEF CallFollows
  <2>2. QED
    BY <1>6, <2>1
<1>7. QED
  BY <1>2, <1>3, <1>4, <1>5, <1>6 DEF PredictionInv

\* What a call needs next depends on what it was given.
LEMMA NeedsSame ==
    ASSUME NEW v, NEW w, w.selected = v.selected, w.query = v.query,
           w.xgb = v.xgb, w.sarima = v.sarima, w.ts = v.ts
    PROVE  Needs(w) = Needs(v)
  BY DEF Needs, WantsXgb, WantsSarima, XgbAnswered, SarimaAnswered,
         HasForecast, Xgb

\* It needs no model that it was given.
LEMMA NeedsIs ==
    ASSUME NEW v
    PROVE  /\ Needs(v) = "xgb" => v.xgb = Unasked
           /\ Needs(v) = "sarima" =>
                 v.sarima = Unasked /\ v.query.pair[1] # NoRoute
  BY DEF Needs, XgbAnswered, SarimaAnswered

ToKeep(v) == IF Needs(v) = "xgb" THEN Models ELSE Models \union {Absent}

\* What is known of a call at work, and of the snapshot it has.
LEMMA CallIs ==
    ASSUME PredictionInv, NEW c \in Callers, pending[c] # Idle,
           NEW v, v = pending[c].view, NEW p, p = pending[c].snapshot
    PROVE  /\ v \in View /\ Kept(v) /\ v.boot = reboots /\ c \in Busy
           /\ Follows(p, v, pending[c].stage)
           /\ pending[c].stage = "keeps" =>
                 pending[c].file \in ToKeep(v)
           /\ p # Nothing => p \in View /\ SnapshotIsKept(p)
           /\ p \in View \union {Nothing}
           /\ IF c = "consumer" THEN v.selected = Default ELSE p # Nothing
<1>1. PredictionTypeOK /\ c \in Busy
  BY DEF PredictionInv, Busy
<1>2. /\ v \in View /\ (p # Nothing => p \in Snapshots /\ p \in View)
  BY <1>1, SnapshotsAre
<1>3. CallFollows(c) /\ (p # Nothing => SnapshotIsKept(p))
  BY <1>1, <1>2 DEF PredictionInv
<1>4. QED
  BY <1>1, <1>2, <1>3 DEF CallFollows, ToKeep

\* A call that goes on with what it saw.
LEMMA CallKept ==
    ASSUME PredictionInv, MemoryKept, NEW c \in Callers, pending[c] # Idle,
           NEW v, v = pending[c].view,
           NEW w \in View, NEW s \in {"asks", "misses", "keeps"},
           NEW f \in File, Moves(c, s, w, f),
           w.selected = v.selected, w.boot = v.boot,
           s = "keeps" => f \in ToKeep(w),
           Kept(w)', Follows(pending[c].snapshot, w, s)
    PROVE  PredictionInv'
<1>1. PredictionTypeOK /\ c \in Busy
  BY DEF PredictionInv, Busy
<1>2. PICK a \in Call : a = pending[c]
  BY <1>1, SnapshotsAre
<1> DEFINE b == [a EXCEPT !.stage = s, !.view = w, !.file = f]
<1>3. /\ b \in Call /\ b # Idle /\ b.snapshot = a.snapshot
      /\ b.stage = s /\ b.view = w /\ b.file = f
  <2>1. /\ b \in Call /\ b.snapshot = a.snapshot
        /\ b.stage = s /\ b.view = w /\ b.file = f
    BY <1>2 DEF Call
  <2>2. b # Idle
    BY <2>1 DEF Idle
  <2>3. QED
    BY <2>1, <2>2
<1>4. /\ pending' = [pending EXCEPT ![c] = b]
      /\ UNCHANGED <<files, position, answer, moment, trained, asked,
                     reboots>>
  BY <1>2 DEF Moves
<1> HIDE DEF b
<1>5. pending \in [Callers -> Call \union {Idle}]
  BY <1>1 DEF PredictionTypeOK
<1>6. /\ pending' \in [Callers -> Call \union {Idle}] /\ pending'[c] = b
      /\ \A d \in Callers : d # c => pending'[d] = pending[d]
  BY <1>3, <1>4, <1>5
<1>7. PredictionTypeOK'
  BY <1>1, <1>4, <1>6
     DEF PredictionTypeOK, MemoryKept, CacheIs, Entries, files
<1>8. /\ Busy' = Busy
      /\ \A d \in Busy : pending'[d].snapshot = pending[d].snapshot
  BY <1>1, <1>2, <1>3, <1>6 DEF Busy
<1>9. Answered' = Answered
  BY <1>4 DEF Answered
<1>10. Snapshots' = Snapshots
  BY <1>4, <1>8, <1>9 DEF Snapshots
<1>11. CallFollows(c)'
  <2>1. CallFollows(c)
    BY <1>1 DEF PredictionInv
  <2>2. pending'[c].view = w
    BY <1>3, <1>6
  <2>3. Kept(pending[c].view)'
    BY <2>2 DEF Kept, Lasting, Within
  <2>4. QED
    BY <1>2, <1>3, <1>4, <1>6, <2>1, <2>2, <2>3
       DEF CallFollows, ToKeep
<1>12. QED
  <2>1. \A d \in Busy' : \/ d \in Busy /\ pending'[d] = pending[d]
                         \/ CallFollows(d)'
    BY <1>6, <1>8, <1>11 DEF Busy
  <2>2. QED
    BY <1>7, <1>9, <1>10, <2>1, StepKept

\* XGBoost: a call keeps the model that is loaded, or loads it.
LEMMA XgbKept ==
    ASSUME PredictionInv, NEW c \in Callers,
           LooksForXgb(c) \/ ReadsXgb(c) \/ KeepsXgb(c)
    PROVE  PredictionInv'
<1>1. PICK v : v = pending[c].view
  OBVIOUS
<1>2. PICK p : p = pending[c].snapshot
  OBVIOUS
<1>3. pending[c] # Idle /\ Needs(v) = "xgb"
  BY <1>1 DEF LooksForXgb, ReadsXgb, KeepsXgb, IsAt, Idle
<1>4. PredictionTypeOK /\ CacheIsOrdered
  BY DEF PredictionInv
<1>5. /\ v \in View /\ Kept(v) /\ v.boot = reboots
      /\ Follows(p, v, pending[c].stage)
      /\ p # Nothing => p \in View /\ SnapshotIsKept(p)
      /\ pending[c].stage = "keeps" => pending[c].file \in Models
  BY <1>1, <1>2, <1>3, <1>4, CallIs DEF ToKeep
<1>6. v.query.seg \in Segments /\ v.xgb = Unasked
      /\ Unasked \notin Models /\ Absent \notin Models /\ Corrupt \notin Models
      /\ loaded \in [Segments -> Models \union {Absent}]
  BY <1>3, <1>4, <1>5, ViewIsReal, NeedsIs, PredictionAssumption
     DEF Real, PredictionTypeOK
<1>7. "xgb" \notin v.held
  BY <1>5, <1>6 DEF Kept, Lasting
\* A snapshot of these models was announced with the one that is loaded.
<1>8. ASSUME p # Nothing, p.boot = v.boot, p.query = v.query,
             "xgb" \in p.held
      PROVE  loaded[v.query.seg] = p.xgb /\ p.xgb \in Models
             /\ pending[c].stage = "asks"
  BY <1>3, <1>5, <1>8 DEF SnapshotIsKept, Kept, Lasting, Follows
\* What has to be shown of the call.
<1>9. ASSUME MemoryKept, NEW w \in View, NEW s \in {"asks", "misses", "keeps"},
             NEW f \in File, Moves(c, s, w, f),
             s = "keeps" => f \in Models,
             \/ s # "asks" /\ w = v /\ pending[c].stage # "asks"
             \/ s # "asks" /\ w = v /\ loaded[v.query.seg] = Absent
             \/ /\ s = "asks" /\ pending[c].stage # "asks"
                /\ \E m : w = [v EXCEPT !.xgb = m]
             \/ /\ s = "asks" /\ loaded'[v.query.seg] \in Models
                /\ loaded[v.query.seg] # Absent \/ pending[c].stage # "asks"
                /\ w = [v EXCEPT !.xgb = loaded'[v.query.seg],
                                 !.held = @ \union {"xgb"}]
      PROVE  PredictionInv'
  <2>1. Kept(v)'
    BY <1>4, <1>5, <1>9, LastingKept
  <2>2. /\ w.selected = v.selected /\ w.boot = v.boot /\ w.query = v.query
        /\ w.sarima = v.sarima /\ w.ts = v.ts /\ w.touch = v.touch
        /\ "sarima" \in w.held <=> "sarima" \in v.held
    <3>1. CASE w = v
      BY <3>1
    <3>2. CASE \E m : w = [v EXCEPT !.xgb = m]
      BY <1>5, <3>2 DEF View
    <3>3. CASE w = [v EXCEPT !.xgb = loaded'[v.query.seg],
                             !.held = @ \union {"xgb"}]
      BY <1>5, <3>3 DEF View
    <3>4. QED
      BY <1>9, <3>1, <3>2, <3>3
  <2>3. "xgb" \in w.held => w.xgb \in Models /\ loaded'[v.query.seg] = w.xgb
    BY <1>5, <1>7, <1>9 DEF View
  <2>4. Kept(w)'
    BY <2>1, <2>2, <2>3 DEF Kept, Lasting, Within
  <2>5. (p # Nothing /\ p.boot = v.boot /\ p.query = v.query
         /\ "xgb" \in p.held) =>
            w.xgb \in {Unasked, p.xgb} /\ s = "asks"
    <3>1. loaded[v.query.seg] # Absent =>
             loaded'[v.query.seg] = loaded[v.query.seg]
      BY <1>6, <1>9 DEF MemoryKept
    <3>2. QED
      BY <1>5, <1>6, <1>8, <1>9, <3>1 DEF View
  <2>6. s # "asks" => Needs(w) = "xgb"
    BY <1>3, <1>9
  <2>7. Follows(p, w, s)
    BY <1>5, <2>2, <2>5, <2>6 DEF Follows
  <2>8. QED
    <3>1. s = "keeps" => f \in ToKeep(w)
      BY <1>9 DEF ToKeep
    <3>2. QED
      BY <1>1, <1>2, <1>3, <1>9, <2>2, <2>4, <2>7, <3>1, CallKept
<1>10. Absent \in File /\ "xgb" \in {"xgb", "sarima"}
  BY DEF File
<1>11. CASE LooksForXgb(c)
  <2>1. MemoryKept
    BY <1>4, <1>11, UntouchedKept DEF LooksForXgb, Moves
  <2>2. CASE loaded[v.query.seg] = Absent
    <3>1. Moves(c, "misses", v, Absent)
      BY <1>1, <1>11, <2>2 DEF LooksForXgb
    <3>2. QED
      BY <1>5, <1>9, <1>10, <2>1, <2>2, <3>1
  <2>3. CASE loaded[v.query.seg] # Absent
    <3>1. PICK m \in Models : m = loaded[v.query.seg]
      BY <1>6, <2>3
    <3>2. PICK w : w = [v EXCEPT !.xgb = m, !.held = @ \union {"xgb"}]
      OBVIOUS
    <3>3. w \in View
      BY <1>5, <3>2 DEF View
    <3>4. Moves(c, "asks", w, Absent) /\ loaded' = loaded
      BY <1>1, <1>11, <2>3, <3>1, <3>2 DEF LooksForXgb, memory
    <3>5. loaded'[v.query.seg] = m
      BY <3>1, <3>4
    <3>6. QED
      BY <1>9, <1>10, <2>1, <2>3, <3>2, <3>3, <3>4, <3>5
  <2>4. QED
    BY <2>2, <2>3
<1>12. CASE ReadsXgb(c)
  <2>1. MemoryKept
    BY <1>4, <1>12, UntouchedKept DEF ReadsXgb, Moves
  <2>2. PICK m : m = OnDisk(v.query.seg)
    OBVIOUS
  <2>3. m \in Models \union {Absent} /\ Models \union {Absent} \subseteq File
    BY <1>4, <1>6, <2>2 DEF OnDisk, File, PredictionTypeOK
  <2>4. pending[c].stage # "asks"
    BY <1>12 DEF ReadsXgb, IsAt
  <2>5. CASE m = Absent
    <3>1. PICK w : w = [v EXCEPT !.xgb = Absent]
      OBVIOUS
    <3>2. w \in View
      BY <1>5, <3>1 DEF View
    <3>3. Moves(c, "asks", w, Absent)
      BY <1>1, <1>12, <2>2, <2>5, <3>1 DEF ReadsXgb
    <3>4. QED
      BY <1>9, <1>10, <2>1, <2>4, <3>1, <3>2, <3>3
  <2>6. CASE m # Absent
    <3>1. Moves(c, "keeps", v, m)
      BY <1>1, <1>12, <2>2, <2>6 DEF ReadsXgb
    <3>2. QED
      BY <1>5, <1>9, <2>1, <2>3, <2>4, <2>6, <3>1
  <2>7. QED
    BY <2>5, <2>6
<1>13. CASE KeepsXgb(c)
  <2>1. PICK m : m = pending[c].file
    OBVIOUS
  <2>2. pending[c].stage # "asks"
    BY <1>13 DEF KeepsXgb, IsAt
  <2>3. m \in Models /\ Absent \notin Models
    BY <1>5, <1>6, <1>13, <2>1 DEF KeepsXgb, IsAt
  <2>4. CASE loaded[v.query.seg] = Absent
    <3>1. PICK w : w = [v EXCEPT !.xgb = m, !.held = @ \union {"xgb"}]
      OBVIOUS
    <3>2. w \in View
      BY <1>5, <2>3, <3>1 DEF View
    <3>3. /\ Moves(c, "asks", w, Absent) /\ UNCHANGED <<cache, touched>>
          /\ loaded' = [loaded EXCEPT ![v.query.seg] = m]
      BY <1>1, <1>13, <2>1, <2>4, <3>1 DEF KeepsXgb
    <3>4. MemoryKept /\ loaded'[v.query.seg] = m
      BY <1>4, <1>6, <2>3, <2>4, <3>3, LoadKept DEF Moves
    <3>5. QED
      BY <1>9, <1>10, <2>2, <2>3, <3>1, <3>2, <3>3, <3>4
  <2>5. CASE loaded[v.query.seg] # Absent
    <3>1. PICK w : w = [v EXCEPT !.xgb = m]
      OBVIOUS
    <3>2. w \in View
      BY <1>5, <2>3, <3>1 DEF View
    <3>3. Moves(c, "asks", w, Absent) /\ UNCHANGED memory
      BY <1>1, <1>13, <2>1, <2>5, <3>1 DEF KeepsXgb, memory
    <3>4. MemoryKept
      BY <1>4, <3>3, UntouchedKept DEF Moves
    <3>5. QED
      BY <1>9, <1>10, <2>2, <3>1, <3>2, <3>3, <3>4
  <2>6. QED
    BY <2>4, <2>5
<1>14. QED
  BY <1>11, <1>12, <1>13

\* SARIMA: a call is given the artifact that is cached, or caches it.
LEMMA SarimaKept ==
    ASSUME PredictionInv, NEW c \in Callers,
           LooksForSarima(c) \/ ReadsSarima(c) \/ KeepsSarima(c)
    PROVE  PredictionInv'
<1>1. PICK v : v = pending[c].view
  OBVIOUS
<1>2. PICK p : p = pending[c].snapshot
  OBVIOUS
<1>3. pending[c] # Idle /\ Needs(v) = "sarima"
  BY <1>1 DEF LooksForSarima, ReadsSarima, KeepsSarima, IsAt, Idle
<1>4. PredictionTypeOK /\ CacheIsOrdered
  BY DEF PredictionInv
<1>5. /\ v \in View /\ Kept(v) /\ v.boot = reboots
      /\ Follows(p, v, pending[c].stage)
      /\ p # Nothing => p \in View /\ SnapshotIsKept(p)
      /\ pending[c].stage = "keeps" =>
            pending[c].file \in Models \union {Absent}
  BY <1>1, <1>2, <1>3, <1>4, CallIs DEF ToKeep
<1>6. PICK g : g = v.query.pair
  OBVIOUS
<1>7. g \in Pairs /\ v.sarima = Unasked
  BY <1>3, <1>5, <1>6, ViewIsReal, NeedsIs DEF Real
<1>8. "sarima" \notin v.held
  BY <1>5, <1>7 DEF Kept, Lasting
<1>9. /\ CacheIs /\ touched \in Nat /\ moment \in Hours
      /\ v.touch \in Nat /\ v.touch <= touched + 1
  BY <1>4, <1>5, CacheIsTyped DEF PredictionTypeOK, View, Kept
\* What has to be shown of the call.
<1>10. ASSUME MemoryKept, NEW w \in View,
              NEW s \in {"asks", "misses", "keeps"}, NEW f \in File,
              Moves(c, s, w, f),
              s = "keeps" => f \in Models \union {Absent},
              w.selected = v.selected, w.boot = v.boot,
              w.query = v.query, w.xgb = v.xgb,
              "xgb" \in w.held <=> "xgb" \in v.held,
              w.touch <= touched' + 1,
              "sarima" \in w.held =>
                 /\ w.sarima # Unasked /\ w.touch <= touched'
                 /\ Within(g, w.sarima, 0)',
              s # "asks" => Needs(w) = "sarima",
              (p # Nothing /\ p.boot = v.boot /\ p.query = v.query
               /\ "sarima" \in p.held /\ w.touch - p.touch <= CacheSize) =>
                    w.sarima \in {Unasked, p.sarima} /\ s = "asks"
       PROVE  PredictionInv'
  <2>1. Kept(v)'
    BY <1>4, <1>5, <1>10, LastingKept
  <2>2. ASSUME "sarima" \in w.held
        PROVE  Within(w.query.pair, w.sarima, touched - w.touch)'
    <3>1. PICK i \in DOMAIN cache' : /\ cache'[i] = <<g, w.sarima>>
                                     /\ Len(cache') - i <= 0
      BY <1>10, <2>2 DEF Within
    <3>2. CacheIs' /\ touched' \in Nat /\ w.touch \in Nat
          /\ w.touch <= touched'
      BY <1>10, <2>2 DEF MemoryKept, View
    <3>3. Len(cache') \in Nat /\ DOMAIN cache' = 1 .. Len(cache')
      <4>1. cache' \in Seq(Entries)
        BY <3>2 DEF CacheIs
      <4>2. QED
        BY <4>1, LenProperties
    <3>4. Len(cache') - i <= touched' - w.touch
      BY <3>1, <3>2, <3>3
    <3>5. QED
      BY <1>6, <1>10, <3>1, <3>4 DEF Within
  <2>3. Kept(w)'
    BY <1>10, <2>1, <2>2 DEF Kept, Lasting
  <2>4. Follows(p, w, s)
    BY <1>5, <1>10 DEF Follows
  <2>5. s = "keeps" => f \in ToKeep(w)
    BY <1>10 DEF ToKeep
  <2>6. QED
    BY <1>1, <1>2, <1>3, <1>10, <2>3, <2>4, <2>5, CallKept
\* A snapshot that kept its artifact finds it, while there is room for it.
<1>11. ASSUME p # Nothing, p.boot = v.boot, p.query = v.query,
              "sarima" \in p.held,
              (touched + 1) - p.touch <= CacheSize
       PROVE  Cached(g) /\ cache[Entry(g)] = <<g, p.sarima>>
  <2>1. /\ p.touch \in Nat /\ CacheSize \in Nat /\ p.boot = reboots
        /\ Kept(p)
    BY <1>4, <1>5, <1>11, CacheIsTyped DEF View, SnapshotIsKept
  <2>2. touched - p.touch < CacheSize
    BY <1>9, <1>11, <2>1
  <2>3. Within(g, p.sarima, touched - p.touch)
    BY <1>6, <1>11, <2>1, <2>2 DEF Kept, Lasting
  <2>4. PICK i \in DOMAIN cache : cache[i] = <<g, p.sarima>>
    BY <2>3 DEF Within
  <2>5. Cached(g)
    BY <2>4 DEF Cached
  <2>6. i = Entry(g)
    BY <1>9, <2>4, <2>5, EntryIs, CacheIsSeq
  <2>7. QED
    BY <2>4, <2>5, <2>6
<1>12. ASSUME p # Nothing, p.boot = v.boot, p.query = v.query,
              "sarima" \in p.held, v.touch - p.touch <= CacheSize
       PROVE  pending[c].stage = "asks"
  BY <1>3, <1>5, <1>12 DEF Follows
<1>13. Absent \in File /\ Models \union {Absent} \subseteq File
  BY DEF File
\* The views a call goes on with.
<1> DEFINE At(n) == [v EXCEPT !.touch = n]
           GivenTo(x, m) ==
              [x EXCEPT !.sarima = m, !.ts = moment,
                        !.held = @ \union {"sarima"}]
<1>14. ASSUME NEW n \in Nat
       PROVE  /\ At(n) \in View /\ At(n).touch = n
              /\ At(n).held = v.held /\ At(n).sarima = v.sarima
              /\ At(n).query = v.query /\ At(n).xgb = v.xgb
              /\ At(n).selected = v.selected /\ At(n).boot = v.boot
              /\ Needs(At(n)) = "sarima"
  <2>1. /\ At(n) \in View /\ At(n).touch = n /\ At(n).ts = v.ts
        /\ At(n).held = v.held /\ At(n).sarima = v.sarima
        /\ At(n).query = v.query /\ At(n).xgb = v.xgb
        /\ At(n).selected = v.selected /\ At(n).boot = v.boot
    BY <1>5 DEF View
  <2>2. QED
    BY <1>3, <2>1, NeedsSame
<1>15. ASSUME NEW x \in View, NEW m \in Models \union {Absent}
       PROVE  /\ GivenTo(x, m) \in View /\ GivenTo(x, m).touch = x.touch
              /\ GivenTo(x, m).held = x.held \union {"sarima"}
              /\ GivenTo(x, m).sarima = m /\ GivenTo(x, m).xgb = x.xgb
              /\ GivenTo(x, m).query = x.query
              /\ GivenTo(x, m).selected = x.selected
              /\ GivenTo(x, m).boot = x.boot
  BY <1>9 DEF View, File
<1>16. \A m \in Models \union {Absent} : m # Unasked
  BY PredictionAssumption
<1> HIDE DEF At, GivenTo
<1>17. CASE LooksForSarima(c)
  <2>1. PICK x \in View : x = At(touched + 1)
    BY <1>9, <1>14
  <2>2. /\ x.touch = touched + 1 /\ x.held = v.held /\ x.sarima = v.sarima
        /\ x.query = v.query /\ x.xgb = v.xgb /\ x.selected = v.selected
        /\ x.boot = v.boot /\ Needs(x) = "sarima"
    BY <1>9, <1>14, <2>1
  <2>3. CASE Cached(g)
    <3>1. PICK m \in Models \union {Absent} : cache[Entry(g)] = <<g, m>>
      BY <1>9, <2>3, EntryIs
    <3>2. PICK w \in View : w = GivenTo(x, m)
      BY <1>15
    <3>3. /\ Uses(g, m) /\ Moves(c, "asks", w, Absent)
          /\ UNCHANGED loaded
      <4>1. x = [pending[c].view EXCEPT !.touch = touched + 1]
        BY <1>1, <2>1 DEF At
      <4>2. w = Given(x, m) /\ m = cache[Entry(g)][2]
        BY <3>1, <3>2 DEF GivenTo, Given
      <4>3. x.query.pair = g
        BY <1>6, <2>2
      <4>4. QED
        BY <1>17, <2>3, <4>1, <4>2, <4>3 DEF LooksForSarima
    <3>4. MemoryKept /\ touched' = touched + 1 /\ Within(g, m, 0)'
      BY <1>4, <1>7, <3>1, <3>3, UsesKept DEF Moves
    <3>5. w.sarima = m /\ m # Unasked /\ w.touch = touched'
          /\ w.touch <= touched'
      BY <1>9, <1>15, <1>16, <2>2, <3>2, <3>4
    <3>6. Within(g, w.sarima, 0)'
      BY <3>4, <3>5 DEF Within
    <3>7. /\ w.selected = v.selected /\ w.boot = v.boot
          /\ w.query = v.query /\ w.xgb = v.xgb
          /\ "xgb" \in w.held <=> "xgb" \in v.held
      BY <1>15, <2>2, <3>2
    <3>8. (p # Nothing /\ p.boot = v.boot /\ p.query = v.query
           /\ "sarima" \in p.held /\ w.touch - p.touch <= CacheSize) =>
              w.sarima = p.sarima
      BY <1>11, <3>1, <3>4, <3>5
    <3>9. w.touch <= touched' + 1
      BY <1>9, <3>4, <3>5
    <3>10. QED
      BY <1>10, <1>13, <3>3, <3>4, <3>5, <3>6, <3>7, <3>8, <3>9
  <2>4. CASE ~Cached(g)
    <3>1. /\ Moves(c, "misses", x, Absent)
          /\ UNCHANGED <<loaded, cache, touched>>
      <4>1. x = [pending[c].view EXCEPT !.touch = touched + 1]
        BY <1>1, <2>1 DEF At
      <4>2. QED
        BY <1>1, <1>6, <1>17, <2>4, <4>1 DEF LooksForSarima
    <3>2. MemoryKept
      BY <1>4, <3>1, UntouchedKept DEF Moves, memory
    <3>3. ~(p # Nothing /\ p.boot = v.boot /\ p.query = v.query
            /\ "sarima" \in p.held /\ x.touch - p.touch <= CacheSize)
      BY <1>11, <2>2, <2>4
    <3>4. "sarima" \notin x.held /\ x.touch <= touched' + 1
      BY <1>8, <1>9, <2>2, <3>1
    <3>5. QED
      BY <1>10, <1>13, <2>2, <3>1, <3>2, <3>3, <3>4
  <2>5. QED
    BY <2>3, <2>4
<1>18. CASE ReadsSarima(c)
  <2>1. /\ pending[c].stage # "asks" /\ UNCHANGED <<memory, reboots>>
        /\ MemoryKept /\ touched' = touched
    BY <1>4, <1>18, UntouchedKept DEF ReadsSarima, IsAt, Moves, memory
  <2>2. PICK m : m = artifact[g]
    OBVIOUS
  <2>3. m \in File /\ (m # Corrupt => m \in Models \union {Absent})
    BY <1>4, <1>7, <2>2 DEF PredictionTypeOK, File
  <2>4. CASE m = Corrupt
    <3>1. PICK w : w = [v EXCEPT !.sarima = Corrupt]
      OBVIOUS
    <3>2. /\ w \in View /\ w.touch = v.touch /\ w.held = v.held
          /\ w.selected = v.selected /\ w.boot = v.boot
          /\ w.query = v.query /\ w.xgb = v.xgb
      BY <1>5, <2>3, <2>4, <3>1 DEF View
    <3>3. Moves(c, "asks", w, Absent)
      BY <1>1, <1>6, <1>18, <2>2, <2>4, <3>1 DEF ReadsSarima
    <3>4. QED
      BY <1>8, <1>9, <1>10, <1>12, <1>13, <2>1, <3>2, <3>3
  <2>5. CASE m # Corrupt
    <3>1. Moves(c, "keeps", v, m)
      BY <1>1, <1>6, <1>18, <2>2, <2>5 DEF ReadsSarima
    <3>2. QED
      BY <1>3, <1>5, <1>8, <1>9, <1>10, <1>12, <2>1, <2>3, <2>5, <3>1
  <2>6. QED
    BY <2>4, <2>5
<1>19. CASE KeepsSarima(c)
  <2>1. pending[c].stage = "keeps" /\ UNCHANGED <<loaded, reboots>>
    BY <1>19 DEF KeepsSarima, IsAt, Moves
  <2>2. PICK m \in Models \union {Absent} : m = pending[c].file
    BY <1>5, <2>1
  <2>3. CASE ~Cached(g)
    <3>1. PICK w \in View : w = GivenTo(v, m)
      BY <1>5, <1>15
    <3>2. Uses(g, m) /\ Moves(c, "asks", w, Absent)
      BY <1>1, <1>6, <1>19, <2>2, <2>3, <3>1 DEF KeepsSarima, Given, GivenTo
    <3>3. MemoryKept /\ touched' = touched + 1 /\ Within(g, m, 0)'
      BY <1>4, <1>7, <2>1, <2>3, <3>2, UsesKept
    <3>4. /\ w.sarima = m /\ m # Unasked /\ w.touch = v.touch
          /\ w.selected = v.selected /\ w.boot = v.boot
          /\ w.query = v.query /\ w.xgb = v.xgb
          /\ "xgb" \in w.held <=> "xgb" \in v.held
      BY <1>5, <1>15, <1>16, <3>1
    <3>5. w.touch <= touched' /\ w.touch <= touched' + 1
      BY <1>9, <3>3, <3>4
    <3>6. Within(g, w.sarima, 0)'
      BY <3>3, <3>4 DEF Within
    <3>7. ~(p # Nothing /\ p.boot = v.boot /\ p.query = v.query
            /\ "sarima" \in p.held /\ w.touch - p.touch <= CacheSize)
      BY <1>12, <2>1, <3>4
    <3>8. QED
      BY <1>10, <1>13, <3>2, <3>3, <3>4, <3>5, <3>6, <3>7
  <2>4. CASE Cached(g)
    <3>1. PICK w : w = [v EXCEPT !.sarima = m, !.ts = moment]
      OBVIOUS
    <3>2. /\ w \in View /\ w.touch = v.touch /\ w.held = v.held
          /\ w.selected = v.selected /\ w.boot = v.boot
          /\ w.query = v.query /\ w.xgb = v.xgb
      BY <1>5, <1>9, <3>1 DEF View, File
    <3>3. Moves(c, "asks", w, Absent) /\ UNCHANGED <<cache, touched>>
      BY <1>1, <1>6, <1>19, <2>2, <2>4, <3>1 DEF KeepsSarima
    <3>4. MemoryKept /\ touched' = touched
      BY <1>4, <2>1, <3>3, UntouchedKept DEF memory
    <3>5. QED
      BY <1>8, <1>9, <1>10, <1>12, <1>13, <2>1, <3>2, <3>3, <3>4
  <2>5. QED
    BY <2>3, <2>4
<1>20. QED
  BY <1>17, <1>18, <1>19

\* What a call announces, or answers.
LEMMA AnnouncesKept ==
    ASSUME PredictionInv, Announces PROVE PredictionInv'
<1>1. PICK v : v = pending["consumer"].view
  OBVIOUS
<1>2. "consumer" \in Callers /\ pending["consumer"] # Idle
      /\ Needs(v) = "nothing"
  BY <1>1 DEF Announces, IsAt, Idle, Callers
<1>3. PredictionTypeOK /\ CacheIsOrdered
  BY DEF PredictionInv
<1>4. v \in View /\ Kept(v) /\ v.selected = Default
  BY <1>1, <1>2, CallIs
<1>5. MemoryKept
  BY <1>3, UntouchedKept DEF Announces
<1>6. Kept(v)'
  BY <1>3, <1>4, <1>5, LastingKept
<1>7. pending \in [Callers -> Call \union {Idle}]
  BY <1>3 DEF PredictionTypeOK
<1>8. /\ position' = v
      /\ pending' \in [Callers -> Call \union {Idle}]
      /\ \A d \in Callers : pending'[d] # Idle => pending'[d] = pending[d]
  BY <1>1, <1>7 DEF Announces
<1>9. PredictionTypeOK'
  BY <1>3, <1>4, <1>8
     DEF PredictionTypeOK, Announces, files, memory
<1>10. Busy' \subseteq Busy /\ \A d \in Busy' : pending'[d] = pending[d]
  BY <1>8 DEF Busy
<1>11. Answered' = Answered
  BY DEF Answered, Announces
<1>12. Snapshots' \subseteq Snapshots \union {v}
  BY <1>8, <1>10, <1>11 DEF Snapshots
<1>13. SnapshotIsKept(v)'
  BY <1>2, <1>4, <1>6 DEF SnapshotIsKept
<1>14. \A p \in Snapshots' : p \in Snapshots \/ SnapshotIsKept(p)'
  BY <1>12, <1>13
<1>15. QED
  BY <1>5, <1>9, <1>10, <1>11, <1>14, StepKept

LEMMA AnswersKept ==
    ASSUME PredictionInv, NEW c \in Requests, Answers(c)
    PROVE  PredictionInv'
<1>1. PICK v : v = pending[c].view
  OBVIOUS
<1>2. PICK p : p = pending[c].snapshot
  OBVIOUS
<1>3. c \in Callers /\ c # "consumer" /\ pending[c] # Idle
      /\ Needs(v) = "nothing"
  BY <1>1, PredictionAssumption DEF Answers, IsAt, Idle, Callers
<1>4. PredictionTypeOK /\ CacheIsOrdered
  BY DEF PredictionInv
<1>5. /\ v \in View /\ p # Nothing /\ p \in View
      /\ Follows(p, v, pending[c].stage)
      /\ Needs(p) = "nothing" /\ p.selected = Default /\ c \in Busy
  BY <1>1, <1>2, <1>3, CallIs DEF SnapshotIsKept
<1>6. p \in Snapshots
  BY <1>2, <1>4, <1>5, SnapshotsAre
<1>7. Repeats(v, p)
  <2>1. SUFFICES ASSUME v.selected = Default, v.query = p.query,
                        v.boot = p.boot
                 PROVE  Repeats(v, p)
    BY DEF Repeats
  <2>2. /\ "xgb" \in p.held => v.xgb \in {p.xgb, Unasked}
        /\ ("sarima" \in p.held /\ v.touch - p.touch <= CacheSize) =>
              v.sarima \in {p.sarima, Unasked}
    BY <1>5, <2>1 DEF Follows
  <2>3. ASSUME "xgb" \in p.held \/ p.xgb = Unasked,
               \/ "sarima" \in p.held /\ v.touch - p.touch <= CacheSize
               \/ p.sarima = Unasked,
               {v.sarima, p.sarima} = {Unasked} \/ v.ts = p.ts
        PROVE  Predict(v) = Predict(p)
    BY <1>3, <1>5, <2>1, <2>2, <2>3, SameSays
  <2>4. QED
    BY <2>2, <2>3 DEF Repeats
<1>8. MemoryKept
  BY <1>4, UntouchedKept DEF Answers
<1>9. pending \in [Callers -> Call \union {Idle}]
  BY <1>4 DEF PredictionTypeOK
<1>10. /\ answer' = [status |-> 200, view |-> v, snapshot |-> p]
       /\ pending' \in [Callers -> Call \union {Idle}]
       /\ \A d \in Callers : pending'[d] # Idle => pending'[d] = pending[d]
  BY <1>1, <1>2, <1>9 DEF Answers
<1>11. PredictionTypeOK'
  BY <1>4, <1>5, <1>10
     DEF PredictionTypeOK, Answers, files, memory
<1>12. Busy' \subseteq Busy /\ \A d \in Busy' : pending'[d] = pending[d]
  BY <1>10 DEF Busy
<1>13. \A a \in Answered' : a.view = v /\ a.snapshot = p
  BY <1>10 DEF Answered
<1>14. position' = position
  BY DEF Answers
<1>15. Snapshots' \subseteq Snapshots
  BY <1>6, <1>12, <1>13, <1>14 DEF Snapshots
<1>16. QED
  BY <1>7, <1>8, <1>11, <1>12, <1>13, <1>15, StepKept

\* A new call: of the consumer, or of the endpoint for the snapshot.
LEMMA Begun ==
    ASSUME PredictionInv, NEW c \in Callers, NEW model \in Supported,
           NEW q \in Request,
           NEW p \in Snapshots \union {Nothing},
           IF c = "consumer" THEN model = Default ELSE p # Nothing,
           Calls(c, Fresh(model, q), p),
           UNCHANGED <<files, memory, position, answer, moment, trained,
                       reboots>>
    PROVE  PredictionInv'
<1>1. PredictionTypeOK /\ CacheIsOrdered
  BY DEF PredictionInv
<1>2. /\ pending \in [Callers -> Call \union {Idle}]
      /\ reboots \in 0 .. MaxReboots /\ touched \in Nat
      /\ {MaxMoment, MaxReboots, MaxAsked} \subseteq Nat
      /\ asked \in 0 .. MaxAsked
  BY <1>1, PredictionAssumption DEF PredictionTypeOK
<1>3. PICK v : v = Fresh(model, q)
  OBVIOUS
<1>4. /\ v \in View /\ v.selected = model /\ v.held = {} /\ v.touch = 0
      /\ v.boot = reboots /\ v.xgb = Unasked /\ v.sarima = Unasked
  BY <1>2, <1>3 DEF Fresh, View, Hours
<1>5. p \in View \union {Nothing}
  BY <1>1, SnapshotsAre
<1>6. PICK a : a = [stage |-> "asks", view |-> v, file |-> Absent,
                    snapshot |-> p]
  OBVIOUS
<1>7. /\ a \in Call /\ a # Idle /\ a.stage = "asks" /\ a.view = v
      /\ a.snapshot = p
  <2>1. /\ a \in Call /\ a.stage = "asks" /\ a.view = v
        /\ a.snapshot = p
    BY <1>4, <1>5, <1>6 DEF Call, File
  <2>2. QED
    BY <2>1 DEF Idle
<1>8. /\ pending' = [pending EXCEPT ![c] = a]
      /\ asked' = asked + 1 /\ asked < MaxAsked
  BY <1>3, <1>6 DEF Calls
<1>9. /\ pending' \in [Callers -> Call \union {Idle}] /\ pending'[c] = a
      /\ \A d \in Callers : d # c => pending'[d] = pending[d]
      /\ asked' \in 0 .. MaxAsked
  BY <1>2, <1>7, <1>8
<1>10. PredictionTypeOK'
  BY <1>1, <1>9 DEF PredictionTypeOK, files, memory
<1>11. MemoryKept
  BY <1>1, UntouchedKept
<1>12. Answered' = Answered
  BY DEF Answered
<1>13. \A d \in Busy' : \/ d \in Busy /\ pending'[d] = pending[d]
                        \/ d = c
  BY <1>9 DEF Busy
<1>14. Snapshots' \subseteq Snapshots
  BY <1>7, <1>9, <1>12, <1>13 DEF Snapshots
<1>15. CallFollows(c)'
  <2>1. pending'[c].view = v /\ reboots' = reboots /\ touched' = touched
    BY <1>7, <1>9 DEF memory
  <2>2. v.boot <= reboots' /\ v.touch <= touched' + 1
    BY <1>2, <1>4, <2>1
  <2>3. Kept(pending[c].view)'
    BY <1>4, <2>1, <2>2 DEF Kept, Lasting
  <2>4. Follows(p, v, "asks")
    BY <1>4 DEF Follows
  <2>5. QED
    BY <1>4, <1>7, <1>9, <2>1, <2>3, <2>4 DEF CallFollows
<1>16. QED
  BY <1>10, <1>11, <1>12, <1>13, <1>14, <1>15, StepKept

\* What leaves the calls alone.
LEMMA QuietKept ==
    ASSUME PredictionInv, PredictionTypeOK',
           UNCHANGED <<memory, pending, reboots>>,
           position' \in {position, Nothing},
           answer' = answer \/ answer'.status # 200
    PROVE  PredictionInv'
<1>1. PredictionTypeOK /\ CacheIsOrdered
  BY DEF PredictionInv
<1>2. MemoryKept
  BY <1>1, UntouchedKept
<1>3. Answered' \subseteq Answered
  BY DEF Answered
<1>4. Busy' = Busy /\ \A d \in Busy : pending'[d] = pending[d]
  BY DEF Busy
<1>5. Snapshots' \subseteq Snapshots
  BY <1>3, <1>4 DEF Snapshots
<1>6. QED
  BY <1>1, <1>2, <1>3, <1>4, <1>5, StepKept

\* A stop that is asked for is a request.
LEMMA WantedIs ==
    ASSUME PredictionTypeOK, position # Nothing, NEW q \in Pairs
    PROVE  Wanted(q[2]) \in Request
<1>1. PICK o \in Request : o = position.query
  BY DEF PredictionTypeOK, View
<1>2. /\ q[2] \in Nat /\ Apart \in Nat
      /\ o.pair = <<o.pair[1], o.pair[2]>> /\ o.pair[2] \in Nat
  BY <1>1, PredictionAssumption DEF Request
<1>3. <<o.pair[1], q[2]>> \in Pairs \union ({NoRoute} \X Nat)
  BY <1>1, <1>2, PredictionAssumption DEF Request
<1>4. o.d \in Int
  BY <1>1 DEF Request
<1>5. Apart * (q[2] - o.pair[2]) \in Int
  BY <1>2
<1>6. o.d + Apart * (q[2] - o.pair[2]) \in Int
  BY <1>4, <1>5
<1> DEFINE n == o.d + Apart * (q[2] - o.pair[2])
<1> HIDE DEF n
<1>7. [o EXCEPT !.d = n, !.pair = <<o.pair[1], q[2]>>] \in Request
  BY <1>1, <1>3, <1>6 DEF Request, n
<1>8. Wanted(q[2]) = [o EXCEPT !.d = n, !.pair = <<o.pair[1], q[2]>>]
  BY <1>1 DEF Wanted, Request, n
<1>9. QED
  BY <1>7, <1>8

LEMMA RebootKept ==
    ASSUME PredictionInv, Reboot PROVE PredictionInv'
<1>1. PredictionTypeOK
  BY DEF PredictionInv
<1>2. reboots \in Nat /\ MaxReboots \in Nat /\ reboots' \in 0 .. MaxReboots
      /\ touched' = touched /\ reboots < reboots'
  BY <1>1, PredictionAssumption DEF PredictionTypeOK, Reboot
<1>3. cache' = <<>> /\ CacheSize \in Nat
  BY PredictionAssumption DEF Reboot
<1>4. PredictionTypeOK'
  <2>1. cache' \in Seq(Pairs \X (Models \union {Absent})) /\ Len(cache') = 0
    BY <1>3, EmptySeq
  <2>2. Len(cache') <= CacheSize
    BY <1>3, <2>1
  <2>3. QED
    BY <1>1, <1>2, <2>1, <2>2 DEF PredictionTypeOK, Reboot, files
<1>5. (ArrivalsAhead /\ NearPhysics /\ PhysicsIsByHand)'
  <2>1. (PredictionTypeOK => ArrivalsAhead /\ NearPhysics /\ PhysicsIsByHand)'
    BY ShownIsSound, PTL
  <2>2. QED
    BY <1>4, <2>1
<1>6. Answered' = Answered
  BY DEF Answered, Reboot
<1>7. AnnouncedIsAnswered'
  BY <1>6 DEF PredictionInv, AnnouncedIsAnswered
<1>8. CacheIsOrdered'
  BY <1>3 DEF CacheIsOrdered
<1>9. Busy' = {}
  BY DEF Busy, Reboot
<1>10. Snapshots' \subseteq Snapshots
  BY <1>6, <1>9 DEF Snapshots, Reboot
<1>11. ASSUME NEW p \in Snapshots'
       PROVE  SnapshotIsKept(p)'
  <2>1. p \in View /\ SnapshotIsKept(p)
    BY <1>1, <1>10, SnapshotsAre DEF PredictionInv
  <2>2. p.boot \in Nat /\ p.boot <= reboots /\ p.touch <= touched + 1
    BY <1>1, <2>1, PredictionAssumption DEF View, SnapshotIsKept, Kept
  <2>3. p.boot # reboots' /\ p.boot <= reboots' /\ p.touch <= touched' + 1
    BY <1>2, <2>2
  <2>4. Kept(p)'
    BY <2>3 DEF Kept, Lasting
  <2>5. QED
    BY <2>1, <2>4 DEF SnapshotIsKept
<1>12. QED
  BY <1>4, <1>5, <1>7, <1>8, <1>9, <1>11 DEF PredictionInv

LEMMA PredictionKept ==
    ASSUME PredictionInv, [PredictionNext]_predictionVars
    PROVE  PredictionInv'
<1>1. PredictionTypeOK
  BY DEF PredictionInv
<1>2. /\ {MaxMoment, MaxTrainings, MaxAsked, MaxReboots} \subseteq Nat
      /\ moment \in Hours /\ trained \in 0 .. MaxTrainings
      /\ asked \in 0 .. MaxAsked
  BY <1>1, PredictionAssumption DEF PredictionTypeOK
<1>3. CASE Trains
  <2>1. trained' \in 0 .. MaxTrainings
    BY <1>2, <1>3 DEF Trains
  <2>2. PredictionTypeOK'
    BY <1>1, <1>3, <2>1 DEF Trains, PredictionTypeOK, memory
  <2>3. QED
    BY <1>3, <2>2, QuietKept DEF Trains
<1>4. CASE Ticks
  <2>1. moment' \in Hours
    BY <1>2, <1>4 DEF Ticks, Hours
  <2>2. PredictionTypeOK'
    BY <1>1, <1>4, <2>1 DEF Ticks, PredictionTypeOK, files, memory
  <2>3. QED
    BY <1>4, <2>2, QuietKept DEF Ticks
<1>5. CASE Expires
  <2>1. PredictionTypeOK'
    BY <1>1, <1>5 DEF Expires, PredictionTypeOK, files, memory
  <2>2. QED
    BY <1>5, <2>1, QuietKept DEF Expires
<1>6. CASE Reboot
  BY <1>6, RebootKept
<1>7. CASE \E q \in Query : Event(q)
  <2>1. PICK q \in Query : Event(q)
    BY <1>7
  <2>2. "consumer" \in Callers /\ Default \in Supported /\ q \in Request
    BY PredictionAssumption DEF Callers, Query, Request
  <2>3. QED
    BY <2>1, <2>2, Begun DEF Event
<1>8. ASSUME NEW c \in Requests, NEW model \in Supported \union {"lstm"},
             NEW g \in Pairs, GetEta(c, model, g[2])
      PROVE  PredictionInv'
  <2>1. ASSUME NEW status \in {400, 404, 503}, Refused(status)
        PROVE  PredictionInv'
    <3>1. /\ asked' \in 0 .. MaxAsked /\ answer'.status = status
          /\ UNCHANGED <<files, memory, pending, position, moment, trained,
                         reboots>>
      BY <1>2, <1>8, <2>1 DEF Refused, GetEta
    <3>2. PredictionTypeOK'
      BY <1>1, <2>1, <3>1 DEF PredictionTypeOK, files, memory
    <3>3. QED
      BY <2>1, <3>1, <3>2, QuietKept
  <2>2. ASSUME model \in Supported, position # Nothing,
               Calls(c, Fresh(model, Wanted(g[2])), position),
               UNCHANGED answer
        PROVE  PredictionInv'
    <3>1. c \in Callers /\ c # "consumer" /\ position \in Snapshots
      BY <1>1, <2>2, PredictionAssumption, SnapshotsAre DEF Callers
    <3>2. PICK q \in Request : q = Wanted(g[2])
      BY <1>1, <2>2, WantedIs
    <3>3. PICK p : p = position
      OBVIOUS
    <3>4. Calls(c, Fresh(model, q), p) /\ p \in Snapshots /\ p # Nothing
      BY <2>2, <3>1, <3>2, <3>3
    <3>5. QED
      BY <1>8, <2>2, <3>1, <3>4, Begun DEF GetEta
  <2>3. QED
    BY <1>8, <2>1, <2>2 DEF GetEta
<1>9. CASE \E c \in Callers : Asks(c)
  BY <1>9, XgbKept, SarimaKept DEF Asks
<1>10. CASE Announces
  BY <1>10, AnnouncesKept
<1>11. CASE \E c \in Requests : Answers(c)
  BY <1>11, AnswersKept
<1>12. CASE UNCHANGED predictionVars
  <2>1. PredictionTypeOK'
    BY <1>1, <1>12 DEF predictionVars, PredictionTypeOK, files, memory
  <2>2. QED
    BY <1>12, <2>1, QuietKept DEF predictionVars
<1>13. QED
  BY <1>3, <1>4, <1>5, <1>6, <1>7, <1>8, <1>9, <1>10, <1>11, <1>12
     DEF PredictionNext

\* Whatever is forecast and for whatever hour, however the consumer and the
\* handlers share the two caches, and whenever files are trained or the
\* process restarts: an arrival is near physics where it says so, and for
\* the endpoint what it was for the consumer, if it was given the same
\* models for the same hour -- which, for a model whose load was kept, it
\* is (inference_router.predict, ml_eta_xgb, sarima_eta).
THEOREM PredictionCorrect == PredictionSpec => []PredictionInv
<1>1. PredictionInit => PredictionInv
  <2> SUFFICES ASSUME PredictionInit PROVE PredictionInv
    OBVIOUS
  <2>1. /\ {MaxMoment, MaxTrainings, MaxAsked, MaxReboots, CacheSize}
             \subseteq Nat
        /\ Busy = {} /\ Answered = {} /\ Snapshots = {}
    BY PredictionAssumption
       DEF PredictionInit, Busy, Answered, Snapshots
  <2>2. cache \in Seq(Pairs \X (Models \union {Absent})) /\ Len(cache) = 0
    BY EmptySeq DEF PredictionInit
  <2>3. PredictionTypeOK
    BY <2>1, <2>2 DEF PredictionInit, PredictionTypeOK, File, Hours
  <2>4. AnnouncedIsAnswered /\ CacheIsOrdered
    BY <2>1 DEF AnnouncedIsAnswered, CacheIsOrdered, PredictionInit
  <2>5. QED
    BY <2>1, <2>3, <2>4, ShownIsSound DEF PredictionInv
<1>2. PredictionInv /\ [PredictionNext]_predictionVars => PredictionInv'
  BY PredictionKept
<1>3. QED
  BY <1>1, <1>2, PTL DEF PredictionSpec

-----------------------------------------------------------------------------
(* Validation: shapes.                                                      *)

\* What the stateful mode accepts of a payload's shape.
LEMMA LocationShape ==
    ASSUME NEW p \in Shape, Location(p) = "ok"
    PROVE  /\ p.body = "object" /\ p.time \in {"iso", "epoch"}
           /\ p.bus \in {"busId", "bus_id", "blank"}
           /\ p.place \in {"in", "quoted"} /\ p.speed \in {"in", "quoted"}
           /\ p.heading \in {"in", "missing"}
  BY DEF Shape, Location, Parsed

LEMMA DumpedReaches == \A p \in Shape : Reaches(Dumped(p))
  BY DEF Shape, Reaches, Dumped, Classify, Enriches, KeyOf

LEMMA StatefulIs == \A p \in Shape : StatefulPasses(p) <=> Location(p) = "ok"
  BY DumpedReaches DEF StatefulPasses

\* What the bridge passes on, and the stream job accepts.
LEMMA StatelessShape ==
    ASSUME NEW p \in Shape
    PROVE  StatelessPasses(p) <=>
              /\ p.body = "object" /\ p.time = "iso"
              /\ p.bus \in {"busId", "number"}
              /\ p.place = "in" /\ p.speed \in {"in", "quoted"}
              /\ p.heading # "word"
  BY DEF Shape, StatelessPasses, SchemaOnly, Parsed, Bridged, Reaches,
         Classify, Enriches, KeyOf

LEMMA ModesOfShape ==
    payload \in Shape => StatefulIsCleaned /\ ModesAgree
<1> SUFFICES ASSUME payload \in Shape
             PROVE  StatefulIsCleaned /\ ModesAgree
  OBVIOUS
<1> DEFINE p == payload
<1>1. StatefulIsCleaned
  BY StatefulIs DEF StatefulIsCleaned
<1>2. CASE StatelessPasses(p)
  <2>1. /\ p.body = "object" /\ p.time = "iso"
        /\ p.bus \in {"busId", "number"} /\ p.place = "in"
        /\ p.speed \in {"in", "quoted"} /\ p.heading # "word"
    BY <1>2, StatelessShape
  <2>2. (p.bus = "busId" /\ p.heading # "over") => Location(p) = "ok"
    BY <2>1 DEF Location, Parsed, Shape
  <2>3. QED
    BY <1>1, <1>2, <2>1, <2>2, StatefulIs DEF ModesAgree
<1>3. CASE ~StatelessPasses(p)
  <2>1. Location(p) = "ok" =>
           \/ p.bus \in {"blank", "bus_id"} \/ p.time = "epoch"
           \/ p.place = "quoted"
    BY <1>3, LocationShape, StatelessShape
  <2>2. QED
    BY <1>1, <1>3, <2>1, StatefulIs DEF ModesAgree
<1>4. QED
  BY <1>2, <1>3

-----------------------------------------------------------------------------
(* Validation: times.                                                       *)

LEMMA AcceptedFacts ==
    ASSUME ValidatorTypeOK
    PROVE  /\ Len(accepted) \in Nat /\ DOMAIN accepted = 1 .. Len(accepted)
           /\ \A i \in DOMAIN accepted :
                 /\ accepted[i].m \in Position
                 /\ accepted[i].m.bus \in Senders
                 /\ accepted[i].m.ts \in Nat
                 /\ accepted[i].at \in 0 .. MaxClock /\ accepted[i].at \in Nat
                 /\ accepted[i].by \in 1 .. MaxLives
                 /\ accepted[i].by \in Nat
<1>1. accepted \in Seq([m : Position, at : 0 .. MaxClock, by : 1 .. MaxLives])
  BY DEF ValidatorTypeOK
<1>2. \A i \in 1 .. Len(accepted) :
         accepted[i] \in [m : Position, at : 0 .. MaxClock, by : 1 .. MaxLives]
  BY <1>1, ElementOfSeq
<1>3. Len(accepted) \in Nat /\ DOMAIN accepted = 1 .. Len(accepted)
  BY <1>1, LenProperties
<1>4. QED
  BY <1>2, <1>3, ValidatorAssumption DEF Position

LEMMA ValidatorStarts == ValidatorInit => ValidatorInv
<1> SUFFICES ASSUME ValidatorInit PROVE ValidatorInv
  OBVIOUS
<1> USE ValidatorAssumption
<1>1. payload \in Shape
  BY DEF ValidatorInit, GoodShape, Shape
<1>2. ValidatorTypeOK
  <2>1. accepted \in Seq([m : Position, at : 0 .. MaxClock,
                          by : 1 .. MaxLives])
    BY DEF ValidatorInit
  <2>2. known \in [Senders -> [last : -1 .. MaxClock + MaxSkew,
                               hashes : Seq(Int \X Contents)]]
    BY DEF ValidatorInit, Unknown
  <2>3. \A b \in Senders : Len(known[b].hashes) <= Remembers
    BY DEF ValidatorInit, Unknown
  <2>4. QED
    BY <1>1, <2>1, <2>2, <2>3 DEF ValidatorInit, ValidatorTypeOK
<1>3. \A b \in Senders : Mine(b) = {}
  BY DEF ValidatorInit, Mine
<1>4. AcceptedInOrder /\ MemoryIsOfLife
  BY <1>3 DEF ValidatorInit, AcceptedInOrder, MemoryIsOfLife
<1>5. RefusalsEnd /\ DuplicateWasAccepted /\ AcceptedOnce
  BY DEF ValidatorInit, RefusalsEnd, DuplicateWasAccepted, AcceptedOnce
<1>6. QED
  BY <1>1, <1>2, <1>4, <1>5, ModesOfShape DEF ValidatorInv

\* The steps that leave the memories and what was accepted alone.
LEMMA ShapeOrClockKept ==
    ASSUME ValidatorInv, UNCHANGED <<interval, known, accepted, verdict,
                                     arrivals, life>>,
           payload' \in Shape, clock' \in 0 .. MaxClock, clock' >= clock
    PROVE  ValidatorInv'
<1> USE ValidatorAssumption
<1>1. ValidatorTypeOK'
  BY DEF ValidatorInv, ValidatorTypeOK
<1>2. (StatefulIsCleaned /\ ModesAgree)'
  <2>1. (payload \in Shape => StatefulIsCleaned /\ ModesAgree)'
    BY ModesOfShape, PTL
  <2>2. QED
    BY <2>1
<1>3. AcceptedInOrder'
  <2>1. \A i \in DOMAIN accepted : accepted[i].at \in Nat
    BY AcceptedFacts DEF ValidatorInv
  <2>2. clock \in Int /\ clock' \in Int
    BY DEF ValidatorInv, ValidatorTypeOK
  <2>3. QED
    BY <2>1, <2>2 DEF ValidatorInv, AcceptedInOrder
<1>4. MemoryIsOfLife'
  BY DEF ValidatorInv, MemoryIsOfLife, RemembersLast, Mine, HashOf
<1>5. (RefusalsEnd /\ DuplicateWasAccepted /\ AcceptedOnce)'
  BY DEF ValidatorInv, RefusalsEnd, DuplicateWasAccepted, AcceptedOnce
<1>6. QED
  BY <1>1, <1>2, <1>3, <1>4, <1>5 DEF ValidatorInv

LEMMA ForgetsKept == ValidatorInv /\ Forgets => ValidatorInv'
<1> SUFFICES ASSUME ValidatorInv, Forgets PROVE ValidatorInv'
  OBVIOUS
<1> USE ValidatorAssumption
<1>1. ValidatorTypeOK'
  BY DEF ValidatorInv, ValidatorTypeOK, Forgets, Unknown
<1>2. (StatefulIsCleaned /\ ModesAgree)'
  BY DEF ValidatorInv, Forgets, StatefulIsCleaned, ModesAgree
<1>a. /\ life \in Nat /\ life' = life + 1
      /\ \A i \in DOMAIN accepted : /\ accepted[i].by \in Nat
                                    /\ accepted[i].by <= life
  <2>1. life \in Nat /\ life' = life + 1
    BY DEF ValidatorInv, ValidatorTypeOK, Forgets
  <2>2. \A i \in DOMAIN accepted : accepted[i].by \in Nat
    BY AcceptedFacts DEF ValidatorInv
  <2>3. QED
    BY <2>1, <2>2 DEF ValidatorInv, AcceptedInOrder
<1>3. AcceptedInOrder'
  <2>1. \A i \in DOMAIN accepted : accepted[i].by <= life'
    BY <1>a
  <2>2. QED
    BY <2>1 DEF ValidatorInv, Forgets, AcceptedInOrder
<1>4. \A b \in Senders : Mine(b)' = {}
  BY <1>a DEF Forgets, Mine
<1>5. MemoryIsOfLife'
  BY <1>4 DEF MemoryIsOfLife, Forgets
<1>6. (RefusalsEnd /\ DuplicateWasAccepted /\ AcceptedOnce)'
  BY DEF ValidatorInv, Forgets, RefusalsEnd, DuplicateWasAccepted,
         AcceptedOnce
<1>7. QED
  BY <1>1, <1>2, <1>3, <1>5, <1>6 DEF ValidatorInv

\* What is known of a bus: nothing, when nothing was accepted of it, and else
\* the last times and payloads.
LEMMA HasMemory ==
    ASSUME ValidatorInv, NEW b \in Senders
    PROVE  /\ known[b] = Unknown <=> Mine(b) = {}
           /\ Mine(b) # {} =>
                 LET n == Len(known[b].hashes) IN
                 /\ n \in 1 .. Remembers /\ DOMAIN known[b].hashes = 1 .. n
                 /\ \E g \in [1 .. n -> Mine(b)] :
                        RemembersLast(known[b], b, g)
<1>1. CASE Mine(b) = {}
  BY <1>1 DEF ValidatorInv, MemoryIsOfLife
<1>2. CASE Mine(b) # {}
  <2> DEFINE n == Len(known[b].hashes)
  <2>1. /\ known[b].hashes \in Seq(Int \X Contents) /\ n <= Remembers
    BY DEF ValidatorInv, ValidatorTypeOK
  <2>2. n \in Nat /\ DOMAIN known[b].hashes = 1 .. n
    BY <2>1, LenProperties
  <2>3. PICK g \in [1 .. n -> Mine(b)] : RemembersLast(known[b], b, g)
    BY <1>2, <2>2 DEF ValidatorInv, MemoryIsOfLife
  <2>4. known[b].hashes # <<>>
    BY <2>3 DEF RemembersLast
  <2>5. known[b] # Unknown
    BY <2>4 DEF Unknown
  <2>6. n # 0
    BY <2>1, <2>4, EmptySeq
  <2>7. n \in 1 .. Remembers
    BY <2>1, <2>2, <2>6, ValidatorAssumption
  <2>8. QED
    BY <1>2, <2>2, <2>3, <2>5, <2>7
<1>3. QED
  BY <1>1, <1>2

\* The last payload remembered is the latest and has the greatest time.
LEMMA LastOfMine ==
    ASSUME ValidatorInv, NEW b \in Senders, Mine(b) # {}
    PROVE  /\ \E i \in Mine(b) : known[b].last = accepted[i].m.ts
           /\ known[b].last \in Nat
           /\ \A i \in Mine(b) : accepted[i].m.ts <= known[b].last
<1> DEFINE n == Len(known[b].hashes)
<1>1. n \in 1 .. Remembers /\ DOMAIN known[b].hashes = 1 .. n
  BY HasMemory
<1>2. PICK g \in [1 .. n -> Mine(b)] : RemembersLast(known[b], b, g)
  BY HasMemory
<1>3. \A i \in Mine(b) : /\ i \in Nat /\ i \in DOMAIN accepted
                         /\ accepted[i].m.ts \in Nat
                         /\ accepted[i].by = life /\ accepted[i].m.bus = b
  BY AcceptedFacts DEF ValidatorInv, Mine
<1>4. n \in 1 .. n /\ g[n] \in Mine(b)
  BY <1>1, <1>2, ValidatorAssumption
<1>5. known[b].last = accepted[g[n]].m.ts
  BY <1>2 DEF RemembersLast
<1>6. ASSUME NEW i \in Mine(b)
      PROVE  accepted[i].m.ts <= known[b].last
  <2>1. i < g[n] \/ i = g[n]
    <3>1. CASE \E k \in 1 .. n : g[k] = i
      <4>1. PICK k \in 1 .. n : g[k] = i
        BY <3>1
      <4>2. k = n \/ k < n
        BY <1>1, ValidatorAssumption
      <4>3. QED
        BY <1>1, <1>2, <1>4, <4>1, <4>2 DEF RemembersLast
    <3>2. CASE \A k \in 1 .. n : i < g[k]
      BY <1>4, <3>2
    <3>3. QED
      BY <1>1, <1>2, <3>1, <3>2 DEF RemembersLast
  <2>2. CASE i < g[n]
    <3>1. accepted[i].m.ts + interval <= accepted[g[n]].m.ts
      BY <1>3, <1>4, <2>2 DEF ValidatorInv, AcceptedInOrder
    <3>2. interval \in Nat
      BY ValidatorAssumption DEF ValidatorInv, ValidatorTypeOK
    <3>3. QED
      BY <1>3, <1>4, <1>5, <3>1, <3>2
  <2>3. QED
    BY <1>3, <1>4, <1>5, <2>1, <2>2
<1>7. QED
  BY <1>3, <1>4, <1>5, <1>6

\* What the verdict says of a payload.
LEMMA VerdictIs ==
    ASSUME ValidatorInv, NEW m \in Position
    PROVE  /\ Verdict(m) \in Errors
           /\ Verdict(m) \in {"SEQUENCE_ERROR", "RATE_LIMIT_EVENT_TIME"} =>
                 /\ known[m.bus] # Unknown
                 /\ m.ts - known[m.bus].last < interval
           /\ Verdict(m) = "DUPLICATE" =>
                 known[m.bus] # Unknown /\ IsRepeated(m)
           /\ Verdict(m) = "ok" =>
                 /\ m.ts - clock <= MaxSkew
                 /\ known[m.bus] # Unknown =>
                       /\ ~ IsRepeated(m)
                       /\ m.ts - known[m.bus].last >= interval
<1>1. m.ts \in Nat /\ m.bus \in Senders
  BY ValidatorAssumption DEF Position
<1>2. clock \in Nat /\ interval \in Nat /\ MaxSkew \in Nat /\ MaxAge \in Nat
  BY ValidatorAssumption DEF ValidatorInv, ValidatorTypeOK
<1>3. known[m.bus] # Unknown => known[m.bus].last \in Nat
  BY <1>1, HasMemory, LastOfMine
<1>4. QED
  BY <1>1, <1>2, <1>3 DEF Verdict, Window, Errors

LEMMA RefusedKept ==
    ASSUME ValidatorInv, NEW m \in Position, Validate(m), Verdict(m) # "ok"
    PROVE  ValidatorInv'
<1> DEFINE b == m.bus
<1>1. /\ UNCHANGED <<payload, clock, interval, life, known, accepted>>
      /\ verdict' = [error |-> Verdict(m), m |-> m, at |-> clock]
      /\ arrivals' \in 0 .. MaxArrivals
  BY ValidatorAssumption DEF Validate, ValidatorInv, ValidatorTypeOK
<1>2. m.ts \in Nat /\ b \in Senders
  BY ValidatorAssumption DEF Position
<1>3. clock \in 0 .. MaxClock /\ clock \in Nat /\ interval \in Nat
      /\ MaxSkew \in Nat
  BY ValidatorAssumption DEF ValidatorInv, ValidatorTypeOK
<1>4. ValidatorTypeOK'
  <2>1. Verdict(m) \in Errors
    BY VerdictIs
  <2>2. verdict' \in [error : Errors, m : Position, at : 0 .. MaxClock]
    BY <1>1, <1>3, <2>1
  <2>3. QED
    BY <1>1, <2>2 DEF ValidatorInv, ValidatorTypeOK
<1>5. RefusalsEnd'
  <2>1. SUFFICES ASSUME Verdict(m) \in {"SEQUENCE_ERROR",
                                        "RATE_LIMIT_EVENT_TIME"},
                        m.ts = clock
                 PROVE  \E i \in DOMAIN accepted :
                           /\ accepted[i].by = life /\ accepted[i].m.bus = b
                           /\ accepted[i].at > clock - interval - MaxSkew
    BY <1>1 DEF RefusalsEnd
  <2>2. known[b] # Unknown /\ m.ts - known[b].last < interval
    BY <2>1, VerdictIs
  <2>3. Mine(b) # {}
    BY <1>2, <2>2, HasMemory
  <2>4. PICK i \in Mine(b) : known[b].last = accepted[i].m.ts
    BY <1>2, <2>3, LastOfMine
  <2>5. /\ i \in DOMAIN accepted /\ accepted[i].m.ts \in Nat
        /\ accepted[i].at \in Nat /\ accepted[i].by = life
        /\ accepted[i].m.bus = b
    BY AcceptedFacts DEF ValidatorInv, Mine
  <2>6. accepted[i].m.ts <= accepted[i].at + MaxSkew
    BY <2>5 DEF ValidatorInv, AcceptedInOrder
  <2>7. accepted[i].at > clock - interval - MaxSkew
    BY <1>2, <1>3, <2>1, <2>2, <2>4, <2>5, <2>6
  <2>8. QED
    BY <2>5, <2>7
<1>6. DuplicateWasAccepted'
  <2>1. SUFFICES ASSUME Verdict(m) = "DUPLICATE"
                 PROVE  \E i \in DOMAIN accepted :
                           accepted[i].by = life /\ accepted[i].m = m
    BY <1>1 DEF DuplicateWasAccepted
  <2>2. known[b] # Unknown /\ IsRepeated(m)
    BY <2>1, VerdictIs
  <2>3. Mine(b) # {}
    BY <1>2, <2>2, HasMemory
  <2> DEFINE n == Len(known[b].hashes)
  <2>4. n \in 1 .. Remembers /\ DOMAIN known[b].hashes = 1 .. n
    BY <1>2, <2>3, HasMemory
  <2>5. PICK g \in [1 .. n -> Mine(b)] : RemembersLast(known[b], b, g)
    BY <1>2, <2>3, HasMemory
  <2>6. PICK k \in 1 .. n : known[b].hashes[k] = HashOf(m)
    BY <2>2, <2>4 DEF IsRepeated, Contains
  <2>7. HashOf(m) = HashOf(accepted[g[k]].m)
    BY <2>4, <2>5, <2>6 DEF RemembersLast
  <2>8. /\ g[k] \in DOMAIN accepted /\ accepted[g[k]].m \in Position
        /\ accepted[g[k]].by = life /\ accepted[g[k]].m.bus = b
    BY AcceptedFacts, <2>5 DEF ValidatorInv, Mine
  <2>9. accepted[g[k]].m = m
    BY <2>7, <2>8 DEF HashOf, Position
  <2>10. QED
    BY <2>8, <2>9
<1>7. (AcceptedInOrder /\ AcceptedOnce)'
  BY <1>1 DEF ValidatorInv, AcceptedInOrder, AcceptedOnce
<1>8. MemoryIsOfLife'
  <2>1. known' = known /\ accepted' = accepted /\ life' = life
    BY <1>1
  <2>2. QED
    BY <2>1 DEF ValidatorInv, MemoryIsOfLife, RemembersLast, Mine, HashOf
<1>9. (StatefulIsCleaned /\ ModesAgree)'
  BY <1>1 DEF ValidatorInv, StatefulIsCleaned, ModesAgree
<1>10. QED
  BY <1>4, <1>5, <1>6, <1>7, <1>8, <1>9 DEF ValidatorInv

\* What is remembered after a payload was accepted: it, and those before it
\* but for the first, when there is no room.
LEMMA RememberedIs ==
    ASSUME NEW m \in Position, NEW n \in Nat, n <= Remembers,
           known[m.bus].hashes \in Seq(Int \X Contents),
           Len(known[m.bus].hashes) = n
    PROVE  LET h == Remembered(m)
               drop == IF n = Remembers THEN 1 ELSE 0
               l == n + 1 - drop
           IN  /\ h \in Seq(Int \X Contents) /\ Len(h) = l /\ h # <<>>
               /\ l \in 1 .. Remembers /\ DOMAIN h = 1 .. l
               /\ h[l] = HashOf(m)
               /\ \A k \in 1 .. l - 1 : h[k] = known[m.bus].hashes[k + drop]
<1> DEFINE s == known[m.bus].hashes
           e == HashOf(m)
           a == Append(s, e)
           h == Remembered(m)
           drop == IF n = Remembers THEN 1 ELSE 0
           l == n + 1 - drop
<1>1. Remembers \in Nat \ {0}
  BY ValidatorAssumption
<1>2. e \in Int \X Contents
  BY ValidatorAssumption DEF HashOf, Position
<1>s. s \in Seq(Int \X Contents) /\ Len(s) = n
  OBVIOUS
<1> HIDE DEF s, e
<1>3. /\ a \in Seq(Int \X Contents) /\ a # <<>> /\ Len(a) = n + 1
      /\ \A k \in 1 .. n : a[k] = s[k]
      /\ a[n + 1] = e
  BY <1>2, <1>s, AppendProperties
<1>4. h = IF n = Remembers THEN Tail(a) ELSE a
  BY <1>1, <1>3 DEF Remembered, s, e
<1> HIDE DEF a, h
<1>5. /\ h \in Seq(Int \X Contents) /\ Len(h) = l
      /\ \A k \in 1 .. l : h[k] = a[k + drop]
  <2>1. CASE n = Remembers
    <3>1. /\ Tail(a) \in Seq(Int \X Contents) /\ Len(Tail(a)) = Len(a) - 1
          /\ \A k \in 1 .. Len(Tail(a)) : Tail(a)[k] = a[k + 1]
      BY <1>3, HeadTailProperties
    <3>2. QED
      BY <1>3, <1>4, <2>1, <3>1
  <2>2. CASE n # Remembers
    <3>1. h = a /\ l = n + 1 /\ drop = 0
      BY <1>4, <2>2
    <3>2. \A k \in 1 .. l : k + drop = k
      BY <3>1
    <3>3. QED
      BY <1>3, <3>1, <3>2
  <2>3. QED
    BY <2>1, <2>2
<1>6. l \in 1 .. Remembers
  BY <1>1
<1>7. DOMAIN h = 1 .. l
  BY <1>5, LenProperties
<1>8. h[l] = e
  <2>1. l \in 1 .. l /\ l + drop = n + 1
    BY <1>6
  <2>2. QED
    BY <1>3, <1>5, <2>1
<1>9. \A k \in 1 .. l - 1 : h[k] = s[k + drop]
  <2>1. TAKE k \in 1 .. l - 1
  <2>2. k \in 1 .. l /\ k + drop \in 1 .. n
    BY <1>6
  <2>3. QED
    BY <1>3, <1>5, <2>2
<1>10. h # <<>>
  BY <1>5, <1>6, EmptySeq
<1>11. QED
  BY <1>5, <1>6, <1>7, <1>8, <1>9, <1>10 DEF h, s, e

LEMMA AcceptedKept ==
    ASSUME ValidatorInv, NEW m \in Position, Validate(m), Verdict(m) = "ok"
    PROVE  ValidatorInv'
<1> DEFINE b == m.bus
           N == Len(accepted) + 1
           Acceptance == [m : Position, at : 0 .. MaxClock, by : 1 .. MaxLives]
           new == [m |-> m, at |-> clock, by |-> life]
           n == Len(known[b].hashes)
           drop == IF n = Remembers THEN 1 ELSE 0
<1>1. /\ UNCHANGED <<payload, clock, interval, life>>
      /\ verdict' = [error |-> "ok", m |-> m, at |-> clock]
      /\ arrivals' \in 0 .. MaxArrivals
      /\ known' = [known EXCEPT ![b] = [last |-> m.ts,
                                        hashes |-> Remembered(m)]]
      /\ accepted' = Append(accepted, new)
  BY ValidatorAssumption DEF Validate, ValidatorInv, ValidatorTypeOK
<1>2. m.ts \in Nat /\ b \in Senders /\ m.ts \in 0 .. MaxClock + MaxSkew + 1
  BY ValidatorAssumption DEF Position
<1>3. /\ clock \in 0 .. MaxClock /\ clock \in Nat /\ interval \in Nat
      /\ life \in 1 .. MaxLives /\ life \in Nat
      /\ MaxSkew \in Nat /\ MaxClock \in Nat /\ Remembers \in Nat \ {0}
  BY ValidatorAssumption DEF ValidatorInv, ValidatorTypeOK
<1>4. accepted \in Seq(Acceptance) /\ new \in Acceptance
  BY <1>3 DEF ValidatorInv, ValidatorTypeOK
<1>5. /\ Len(accepted) \in Nat /\ DOMAIN accepted = 1 .. Len(accepted)
      /\ accepted' \in Seq(Acceptance) /\ DOMAIN accepted' = 1 .. N
      /\ \A i \in 1 .. Len(accepted) : accepted'[i] = accepted[i]
      /\ accepted'[N] = new
  BY <1>1, <1>4, AppendProperties, LenProperties
<1> HIDE DEF Acceptance
<1>6. /\ m.ts <= clock + MaxSkew
      /\ known[b] # Unknown => ~ IsRepeated(m)
      /\ known[b] # Unknown => m.ts - known[b].last >= interval
  BY <1>2, <1>3, VerdictIs
<1>7. \A i \in Mine(b) :
         /\ i \in 1 .. Len(accepted) /\ accepted[i].m.ts \in Nat
         /\ accepted[i].m.ts + interval <= m.ts
  <2>1. TAKE i \in Mine(b)
  <2>2. i \in 1 .. Len(accepted) /\ accepted[i].m.ts \in Nat
    BY AcceptedFacts DEF ValidatorInv, Mine
  <2>3. known[b] # Unknown /\ known[b].last \in Nat
        /\ accepted[i].m.ts <= known[b].last
    BY <1>2, HasMemory, LastOfMine
  <2>4. QED
    BY <1>2, <1>3, <1>6, <2>2, <2>3
<1>8. /\ Mine(b)' = Mine(b) \union {N}
      /\ \A c \in Senders \ {b} : Mine(c)' = Mine(c)
  BY <1>1, <1>5 DEF Mine
<1>9. known[b].hashes \in Seq(Int \X Contents) /\ n \in Nat /\ n <= Remembers
  <2>1. known[b].hashes \in Seq(Int \X Contents) /\ n <= Remembers
    BY <1>2 DEF ValidatorInv, ValidatorTypeOK
  <2>2. QED
    BY <2>1, LenProperties
<1>l. n + 1 - drop \in Nat /\ n + 1 - drop <= Remembers
  <2>1. n \in Nat /\ n <= Remembers
    BY <1>9
  <2> HIDE DEF n
  <2>2. QED
    BY <1>3, <2>1
<1>10. LET h == Remembered(m)
           l == n + 1 - drop
       IN  /\ h \in Seq(Int \X Contents) /\ Len(h) = l /\ h # <<>>
           /\ l \in 1 .. Remembers /\ DOMAIN h = 1 .. l
           /\ h[l] = HashOf(m)
           /\ \A k \in 1 .. l - 1 : h[k] = known[b].hashes[k + drop]
  BY <1>9, RememberedIs
<1>11. ValidatorTypeOK'
  <2>1. verdict' \in [error : Errors, m : Position, at : 0 .. MaxClock]
    BY <1>1, <1>3 DEF Errors
  <2>2. m.ts \in -1 .. MaxClock + MaxSkew
    BY <1>2, <1>3, <1>6
  <2> DEFINE h == Remembered(m)
  <2>a. h \in Seq(Int \X Contents) /\ Len(h) <= Remembers
    <3>1. h \in Seq(Int \X Contents) /\ Len(h) = n + 1 - drop
      BY <1>10
    <3>2. QED
      BY <1>l, <3>1
  <2>b. /\ known' = [known EXCEPT ![b] = [last |-> m.ts, hashes |-> h]]
        /\ known \in [Senders -> [last : -1 .. MaxClock + MaxSkew,
                                  hashes : Seq(Int \X Contents)]]
        /\ \A c \in Senders : Len(known[c].hashes) <= Remembers
    BY <1>1 DEF ValidatorInv, ValidatorTypeOK
  <2> HIDE DEF h
  <2>3. /\ known' \in [Senders -> [last : -1 .. MaxClock + MaxSkew,
                                   hashes : Seq(Int \X Contents)]]
        /\ \A c \in Senders : Len(known'[c].hashes) <= Remembers
    BY <1>2, <2>2, <2>a, <2>b
  <2>4. QED
    BY <1>1, <1>5, <2>1, <2>3 DEF ValidatorInv, ValidatorTypeOK, Acceptance
<1>12. (RefusalsEnd /\ DuplicateWasAccepted)'
  BY <1>1 DEF RefusalsEnd, DuplicateWasAccepted
<1>13. (StatefulIsCleaned /\ ModesAgree)'
  BY <1>1 DEF ValidatorInv, StatefulIsCleaned, ModesAgree
<1>14. AcceptedInOrder'
  <2>1. ASSUME NEW i \in 1 .. N
        PROVE  /\ accepted'[i].by <= life' /\ accepted'[i].at <= clock'
               /\ accepted'[i].m.ts <= accepted'[i].at + MaxSkew
    <3>1. CASE i \in 1 .. Len(accepted)
      BY <1>1, <1>5, <3>1 DEF ValidatorInv, AcceptedInOrder
    <3>2. CASE i = N
      BY <1>1, <1>3, <1>5, <1>6, <3>2
    <3>3. QED
      BY <1>5, <3>1, <3>2
  <2>2. ASSUME NEW i \in 1 .. N, NEW j \in 1 .. N, i < j,
               accepted'[i].by = accepted'[j].by,
               accepted'[i].m.bus = accepted'[j].m.bus
        PROVE  accepted'[i].m.ts + interval' <= accepted'[j].m.ts
    <3>1. i \in 1 .. Len(accepted) /\ accepted'[i] = accepted[i]
      BY <1>5, <2>2
    <3>2. CASE j \in 1 .. Len(accepted)
      BY <1>1, <1>5, <2>2, <3>1, <3>2 DEF ValidatorInv, AcceptedInOrder
    <3>3. CASE j = N
      <4>1. i \in Mine(b)
        BY <1>5, <2>2, <3>1, <3>3 DEF Mine
      <4>2. QED
        BY <1>1, <1>5, <1>7, <3>1, <3>3, <4>1
    <3>4. QED
      BY <1>5, <3>2, <3>3
  <2>3. QED
    BY <1>5, <2>1, <2>2 DEF AcceptedInOrder
<1>15. AcceptedOnce'
  <2> DEFINE Btw(i, j) == {k \in i + 1 .. j - 1 :
                              /\ accepted[k].m.bus = accepted[i].m.bus
                              /\ accepted[k].m.ts = accepted[i].m.ts}
  <2>1. ASSUME NEW i \in 1 .. N, NEW j \in 1 .. N, i < j
        PROVE  Btw(i, j)' = Btw(i, j)
    <3>1. \A k \in i + 1 .. j - 1 : k \in 1 .. Len(accepted)
      BY <1>5, <2>1
    <3>2. i \in 1 .. Len(accepted)
      BY <1>5, <2>1
    <3>3. QED
      BY <1>5, <3>1, <3>2
  <2>2. ASSUME NEW i \in 1 .. N, NEW j \in 1 .. N, i < j,
               accepted'[i].m = accepted'[j].m,
               accepted'[i].by = accepted'[j].by
        PROVE  interval = 0 /\ Cardinality(Btw(i, j)) >= Remembers
    <3>1. i \in 1 .. Len(accepted) /\ accepted'[i] = accepted[i]
      BY <1>5, <2>2
    <3>2. CASE j \in 1 .. Len(accepted)
      BY <1>5, <2>2, <3>1, <3>2 DEF ValidatorInv, AcceptedOnce
    <3>3. CASE j = N
      <4>1. i \in Mine(b) /\ accepted[i].m = m
        BY <1>5, <2>2, <3>1, <3>3 DEF Mine
      <4>2. interval = 0 /\ Mine(b) # {} /\ known[b] # Unknown
        BY <1>2, <1>3, <1>7, <4>1, HasMemory
      <4>3. n \in 1 .. Remembers /\ DOMAIN known[b].hashes = 1 .. n
        BY <1>2, <4>2, HasMemory
      <4>4. PICK g \in [1 .. n -> Mine(b)] : RemembersLast(known[b], b, g)
        BY <1>2, <4>2, HasMemory
      <4>5. \A k \in 1 .. n : known[b].hashes[k] # HashOf(m)
        BY <1>6, <4>2, <4>3 DEF IsRepeated, Contains
      <4>6. \A k \in 1 .. n : g[k] # i
        BY <4>1, <4>3, <4>4, <4>5 DEF RemembersLast
      <4>7. n = Remembers /\ \A k \in 1 .. n : i < g[k]
        BY <4>1, <4>3, <4>4, <4>6 DEF RemembersLast
      <4>8. \A k \in 1 .. n : g[k] \in Btw(i, j)
        <5>1. TAKE k \in 1 .. n
        <5>2. /\ g[k] \in 1 .. Len(accepted) /\ i < g[k]
              /\ accepted[g[k]].m.ts \in Nat
              /\ accepted[g[k]].m.ts + interval <= m.ts
              /\ accepted[g[k]].by = life /\ accepted[g[k]].m.bus = b
          BY <1>7, <4>7 DEF Mine
        <5>3. accepted[i].by = life /\ accepted[i].m.bus = b
          BY <4>1 DEF Mine
        <5>4. accepted[i].m.ts + interval <= accepted[g[k]].m.ts
          BY <1>5, <3>1, <5>2, <5>3 DEF ValidatorInv, AcceptedInOrder
        <5>5. accepted[g[k]].m.ts = accepted[i].m.ts
          BY <1>2, <4>1, <4>2, <5>2, <5>4
        <5>6. g[k] \in i + 1 .. j - 1
          BY <1>5, <3>1, <3>3, <5>2
        <5>7. QED
          BY <5>2, <5>3, <5>5, <5>6
      <4>9. IsFiniteSet(Btw(i, j)) /\ Cardinality(Btw(i, j)) \in Nat
        <5>1. IsFiniteSet(i + 1 .. j - 1)
          BY FS_Interval
        <5>2. QED
          BY <5>1, FS_Subset, FS_CardinalityType
      <4>10. g \in Injection(1 .. n, Btw(i, j))
        <5>1. g \in [1 .. n -> Btw(i, j)]
          BY <4>8
        <5>2. \A k, l \in 1 .. n : k < l => g[k] < g[l]
          BY <4>3, <4>4 DEF RemembersLast
        <5>3. \A k \in 1 .. n : g[k] \in Nat
          BY <4>8, <3>1
        <5>4. \A k, l \in 1 .. n : g[k] = g[l] => k = l
          <6>1. TAKE k, l \in 1 .. n
          <6>2. k < l \/ l < k \/ k = l
            BY <4>3
          <6>3. QED
            BY <5>2, <5>3, <6>2
        <5>5. QED
          BY <5>1, <5>4 DEF Injection, IsInjective
      <4> HIDE DEF Btw
      <4>11. Cardinality(1 .. n) <= Cardinality(Btw(i, j))
        BY <4>9, <4>10, FS_Injection
      <4>12. Cardinality(1 .. n) = n
        <5>1. 1 \in Int /\ n \in Int /\ ~ (1 > n)
          BY <1>3, <4>3
        <5>2. n - 1 + 1 = n
          BY <5>1
        <5>3. QED
          BY <5>1, <5>2, FS_Interval
      <4>13. QED
        BY <1>3, <4>2, <4>7, <4>9, <4>11, <4>12
    <3>4. QED
      BY <1>5, <3>2, <3>3
  <2> HIDE DEF Btw
  <2>3. ASSUME NEW i \in 1 .. N, NEW j \in 1 .. N, i < j,
               accepted'[i].m = accepted'[j].m,
               accepted'[i].by = accepted'[j].by
        PROVE  interval' = 0 /\ Cardinality(Btw(i, j)') >= Remembers
    BY <1>1, <2>1, <2>2, <2>3
  <2>4. QED
    BY <1>5, <2>3 DEF AcceptedOnce, Btw
<1>16. MemoryIsOfLife'
  <2>1. ASSUME NEW c \in Senders \ {b}
        PROVE  IF Mine(c)' = {} THEN known'[c] = Unknown
               ELSE \E g \in [DOMAIN known'[c].hashes -> Mine(c)'] :
                       RemembersLast(known[c], c, g)'
    <3>1. known'[c] = known[c] /\ Mine(c)' = Mine(c)
      BY <1>1, <1>8
    <3>2. CASE Mine(c) = {}
      BY <3>1, <3>2 DEF ValidatorInv, MemoryIsOfLife
    <3>3. CASE Mine(c) # {}
      <4>1. PICK g \in [DOMAIN known[c].hashes -> Mine(c)] :
                    RemembersLast(known[c], c, g)
        BY <3>3 DEF ValidatorInv, MemoryIsOfLife
      <4>2. \A i \in Mine(c) : accepted'[i] = accepted[i]
        BY <1>5 DEF Mine
      <4>3. known[c].hashes \in Seq(Int \X Contents)
        BY DEF ValidatorInv, ValidatorTypeOK
      <4>4. /\ Len(known[c].hashes) \in DOMAIN known[c].hashes
        BY <4>1, <4>3, EmptySeq, LenProperties DEF RemembersLast
      <4>5. RemembersLast(known[c], c, g)'
        BY <3>1, <4>1, <4>2, <4>4 DEF RemembersLast, HashOf
      <4>6. QED
        BY <3>1, <3>3, <4>1, <4>5
    <3>4. QED
      BY <3>2, <3>3
  <2>2. \E g \in [DOMAIN known'[b].hashes -> Mine(b)'] :
           RemembersLast(known[b], b, g)'
    <3> DEFINE h == Remembered(m)
               l == n + 1 - drop
    <3>1. known'[b] = [last |-> m.ts, hashes |-> h]
      BY <1>1, <1>2 DEF ValidatorInv, ValidatorTypeOK
    <3>2. PICK f \in [1 .. n -> Mine(b)] :
             /\ \A k, q \in 1 .. n : k < q => f[k] < f[q]
             /\ \A k \in 1 .. n : known[b].hashes[k] = HashOf(accepted[f[k]].m)
             /\ \A i \in Mine(b) : \/ \E k \in 1 .. n : f[k] = i
                                   \/ /\ n = Remembers
                                      /\ \A k \in 1 .. n : i < f[k]
      <4>1. CASE Mine(b) = {}
        <5>1. n = 0
          BY <1>2, <4>1, HasMemory DEF Unknown
        <5>2. [k \in 1 .. n |-> 0] \in [1 .. n -> Mine(b)]
          BY <5>1
        <5>3. QED
          BY <4>1, <5>1, <5>2
      <4>2. CASE Mine(b) # {}
        <5>1. DOMAIN known[b].hashes = 1 .. n
          BY <1>2, <4>2, HasMemory
        <5>2. PICK f \in [1 .. n -> Mine(b)] : RemembersLast(known[b], b, f)
          BY <1>2, <4>2, HasMemory
        <5>3. QED
          BY <5>1, <5>2 DEF RemembersLast
      <4>3. QED
        BY <4>1, <4>2
    <3> DEFINE g == [k \in 1 .. l |-> IF k = l THEN N ELSE f[k + drop]]
    <3>3. /\ l \in Nat /\ drop \in {0, 1} /\ l \in 1 .. Remembers
          /\ \A k \in 1 .. l - 1 : k + drop \in 1 .. n
          /\ \A k \in 1 + drop .. n : /\ k - drop \in 1 .. l - 1
                                      /\ (k - drop) + drop = k
      <4>1. l \in 1 .. Remembers /\ l \in Nat
        <5>1. n \in Nat /\ n <= Remembers
          BY <1>9
        <5> HIDE DEF n
        <5>2. QED
          BY <1>3, <5>1
      <4>2. n \in Nat /\ drop \in {0, 1} /\ l = n + 1 - drop
        BY <1>9
      <4> HIDE DEF l, n, drop
      <4>3. QED
        BY <4>1, <4>2
    <3>4. h # <<>> /\ Len(h) = l /\ DOMAIN h = 1 .. l /\ h[l] = HashOf(m)
          /\ \A k \in 1 .. l - 1 : h[k] = known[b].hashes[k + drop]
      BY <1>10
    <3> HIDE DEF h, l, drop, n, N
    <3>5. /\ \A k \in 1 .. l - 1 : /\ g[k] = f[k + drop] /\ g[k] \in Mine(b)
                                   /\ g[k] \in 1 .. Len(accepted)
          /\ g[l] = N
      <4>1. \A k \in 1 .. l - 1 : k \in 1 .. l /\ k # l
        BY <3>3
      <4>2. l \in 1 .. l
        BY <3>3
      <4>3. QED
        BY <1>7, <3>2, <3>3, <4>1, <4>2
    <3>6. g \in [1 .. l -> Mine(b)']
      BY <1>8, <3>2, <3>3
    <3> HIDE DEF g
    <3>7. \A k \in 1 .. l : k = l \/ k \in 1 .. l - 1
      BY <3>3
    <3>8. \A k, q \in 1 .. l : k < q => g[k] < g[q]
      <4>1. ASSUME NEW k \in 1 .. l, NEW q \in 1 .. l, k < q
            PROVE  g[k] < g[q]
        <5>1. k \in 1 .. l - 1
          BY <3>3, <4>1
        <5>2. CASE q = l
          BY <1>5, <3>5, <5>1, <5>2 DEF N
        <5>3. CASE q \in 1 .. l - 1
          <6>1. k + drop < q + drop
            BY <3>3, <4>1
          <6>2. QED
            BY <3>2, <3>3, <3>5, <5>1, <5>3, <6>1
        <5>4. QED
          BY <3>7, <5>2, <5>3
      <4>2. QED
        BY <4>1
    <3>9. \A k \in 1 .. l : h[k] = HashOf(accepted'[g[k]].m)
      <4>1. TAKE k \in 1 .. l
      <4>2. CASE k = l
        BY <1>5, <3>4, <3>5, <4>2
      <4>3. CASE k \in 1 .. l - 1
        <5>1. accepted'[g[k]] = accepted[f[k + drop]]
          BY <1>5, <3>5, <4>3
        <5>2. QED
          BY <3>2, <3>3, <3>4, <4>3, <5>1
      <4>4. QED
        BY <3>7, <4>2, <4>3
    <3>10. ASSUME NEW i \in Mine(b)'
           PROVE  \/ \E k \in 1 .. l : g[k] = i
                  \/ /\ l = Remembers
                     /\ \A k \in 1 .. l : i < g[k]
      <4>1. CASE i = N
        BY <3>3, <3>5, <4>1
      <4>2. CASE i \in Mine(b) /\ \E k \in 1 + drop .. n : f[k] = i
        <5>1. PICK k \in 1 + drop .. n : f[k] = i
          BY <4>2
        <5>2. k - drop \in 1 .. l - 1 /\ g[k - drop] = i
          BY <3>3, <3>5, <5>1
        <5>3. QED
          BY <3>3, <5>2
      <4>3. CASE i \in Mine(b) /\ ~ \E k \in 1 + drop .. n : f[k] = i
        <5>1. /\ l = Remembers /\ drop = 1
              /\ \A k \in 1 + drop .. n : i < f[k]
          <6>1. CASE \E k \in 1 .. n : f[k] = i
            <7>1. PICK k \in 1 .. n : f[k] = i
              BY <6>1
            <7>2. k = 1 /\ drop = 1
              BY <1>9, <3>3, <4>3, <7>1
            <7>3. n = Remembers /\ l = Remembers
              BY <1>3, <7>2 DEF drop, n, l
            <7>4. \A q \in 1 + drop .. n : q \in 1 .. n /\ 1 < q
              BY <1>9, <7>2
            <7>5. QED
              BY <3>2, <7>1, <7>2, <7>3, <7>4
          <6>2. CASE n = Remembers /\ \A k \in 1 .. n : i < f[k]
            <7>1. drop = 1 /\ l = Remembers
              BY <1>3, <6>2 DEF drop, n, l
            <7>2. \A q \in 1 + drop .. n : q \in 1 .. n
              BY <1>9, <7>1
            <7>3. QED
              BY <6>2, <7>1, <7>2
          <6>3. QED
            BY <3>2, <4>3, <6>1, <6>2
        <5>2. \A k \in 1 .. l - 1 : k + drop \in 1 + drop .. n
          BY <3>3, <5>1
        <5>3. i < N
          BY <1>5, <1>7, <4>3 DEF N
        <5>4. QED
          BY <3>5, <3>7, <5>1, <5>2, <5>3
      <4>4. QED
        BY <1>8, <4>1, <4>2, <4>3
    <3>11. m.ts = accepted'[g[l]].m.ts
      BY <1>5, <3>5
    <3>12. PICK w : w = g
      OBVIOUS
    <3>13. known'[b].hashes = h /\ known'[b].last = m.ts
      BY <3>1
    <3>14. RemembersLast(known[b], b, w)'
      BY <3>4, <3>8, <3>9, <3>10, <3>11, <3>12, <3>13
         DEF RemembersLast, HashOf
    <3>15. QED
      BY <3>4, <3>6, <3>12, <3>13, <3>14
  <2>3. Mine(b)' # {}
    BY <1>8
  <2>4. QED
    BY <2>1, <2>2, <2>3 DEF MemoryIsOfLife
<1>17. QED
  BY <1>11, <1>12, <1>13, <1>14, <1>15, <1>16 DEF ValidatorInv

LEMMA ValidatorKept == ValidatorInv /\ [ValidatorNext]_validatorVars
                          => ValidatorInv'
<1> SUFFICES ASSUME ValidatorInv, [ValidatorNext]_validatorVars
             PROVE  ValidatorInv'
  OBVIOUS
<1>1. clock \in 0 .. MaxClock /\ clock \in Int /\ payload \in Shape
      /\ MaxClock \in Nat
  BY ValidatorAssumption DEF ValidatorInv, ValidatorTypeOK
<1>2. ASSUME NEW p \in Shape, Receives(p) PROVE ValidatorInv'
  BY <1>1, <1>2, ShapeOrClockKept DEF Receives
<1>3. CASE Passes
  BY <1>1, <1>3, ShapeOrClockKept DEF Passes
<1>4. CASE Forgets
  BY <1>4, ForgetsKept
<1>5. ASSUME NEW m \in Position, Validate(m) PROVE ValidatorInv'
  BY <1>5, RefusedKept, AcceptedKept
<1>6. CASE UNCHANGED validatorVars
  BY <1>1, <1>6, ShapeOrClockKept DEF validatorVars
<1>7. QED
  BY <1>2, <1>3, <1>4, <1>5, <1>6 DEF ValidatorNext

\* For any senders, clocks and bounds: what the stateful mode accepts is
\* cleaned, accepted once and in the order of the times it carries, a
\* duplicate it refuses was accepted before, and the two modes agree on the
\* rest (PositionValidator.validate, GPSValidator.validate_raw).
THEOREM ValidatorCorrect == ValidatorSpec => []ValidatorInv
<1>1. ValidatorInit => ValidatorInv
  BY ValidatorStarts
<1>2. ValidatorInv /\ [ValidatorNext]_validatorVars => ValidatorInv'
  BY ValidatorKept
<1>3. QED
  BY <1>1, <1>2, PTL DEF ValidatorSpec


-----------------------------------------------------------------------------
(* Dwell times.                                                             *)

Zone == [id : StopIds, area : Areas]

\* The first zone that has the place, if there is one.
LEMMA ResolveIs ==
    ASSUME NEW z \in Seq(Zone), NEW p
    PROVE  \/ /\ Resolve(z, p) = Never
              /\ \A i \in 1 .. Len(z) : p \notin z[i].area
           \/ \E i \in 1 .. Len(z) :
                 /\ p \in z[i].area /\ Resolve(z, p) = z[i].id
                 /\ \A j \in 1 .. Len(z) : p \in z[j].area => i <= j
<1> DEFINE in == {i \in DOMAIN z : p \in z[i].area}
<1>1. DOMAIN z = 1 .. Len(z) /\ Len(z) \in Nat
  BY LenProperties
<1>2. CASE in = {}
  BY <1>1, <1>2 DEF Resolve
<1>3. CASE in # {}
  <2>1. in \in SUBSET Nat
    BY <1>1
  <2>2. \E i \in in : \A j \in in : i <= j
    BY <1>3, <2>1, LeastNat
  <2> DEFINE least == CHOOSE i \in in : \A j \in in : i <= j
  <2>3. least \in in /\ \A j \in in : least <= j
    BY <2>2
  <2>4. Resolve(z, p) = z[least].id
    BY <1>3 DEF Resolve
  <2> HIDE DEF least
  <2>5. QED
    BY <1>1, <2>3, <2>4
<1>4. QED
  BY <1>2, <1>3

LEMMA ResolveType ==
    ASSUME NEW z \in Seq(Zone), NEW p
    PROVE  Resolve(z, p) \in StopIds \union {Never}
<1>1. \A i \in 1 .. Len(z) : z[i].id \in StopIds
  <2>1. \A i \in 1 .. Len(z) : z[i] \in Zone
    BY ElementOfSeq
  <2>2. QED
    BY <2>1 DEF Zone
<1>2. QED
  BY <1>1, ResolveIs

Reading == StopIds \X Times
BeginsStay(h, n, i) == /\ \A k \in i .. n : h[k][1] = h[n][1]
                       /\ i > 1 => h[i - 1][1] # h[n][1]

\* There is one place where a stay began.
LEMMA StayFromIs ==
    ASSUME NEW h \in Seq(Reading), NEW n \in 1 .. Len(h)
    PROVE  /\ StayFrom(h, n) \in 1 .. n /\ BeginsStay(h, n, StayFrom(h, n))
           /\ \A i \in 1 .. n : BeginsStay(h, n, i) => i = StayFrom(h, n)
<1> DEFINE S == {i \in 1 .. n : \A k \in i .. n : h[k][1] = h[n][1]}
<1>1. Len(h) \in Nat /\ n \in Nat /\ n \in 1 .. n
  BY LenProperties
<1>2. n \in S /\ S \in SUBSET Nat
  BY <1>1
<1>3. PICK i \in S : \A j \in S : i <= j
  BY <1>2, LeastNat
<1>4. BeginsStay(h, n, i)
  <2>1. ASSUME i > 1, h[i - 1][1] = h[n][1] PROVE FALSE
    <3>1. i - 1 \in 1 .. n /\ i \in 1 .. n
      BY <1>1, <1>3, <2>1
    <3>2. \A k \in i - 1 .. n : k = i - 1 \/ k \in i .. n
      BY <3>1
    <3>3. i - 1 \in S
      BY <1>3, <2>1, <3>1, <3>2
    <3>4. i <= i - 1 /\ i \in Nat
      BY <1>1, <1>3, <3>1, <3>3
    <3>5. QED
      BY <3>4
  <2>2. QED
    BY <1>3, <2>1 DEF BeginsStay
<1>5. StayFrom(h, n) \in 1 .. n /\ BeginsStay(h, n, StayFrom(h, n))
  BY <1>3, <1>4 DEF StayFrom, BeginsStay
<1>6. ASSUME NEW a \in 1 .. n, NEW b \in 1 .. n,
             BeginsStay(h, n, a), BeginsStay(h, n, b), a < b
      PROVE  FALSE
  <2>1. b > 1 /\ b - 1 \in a .. n
    BY <1>6
  <2>2. QED
    BY <1>6, <2>1 DEF BeginsStay
<1>7. ASSUME NEW a \in 1 .. n, BeginsStay(h, n, a)
      PROVE  a = StayFrom(h, n)
  <2>1. a < StayFrom(h, n) \/ StayFrom(h, n) < a \/ a = StayFrom(h, n)
    BY <1>5
  <2>2. QED
    BY <1>5, <1>6, <1>7, <2>1
<1>8. QED
  BY <1>5, <1>7

\* One more reading does not move a stay that began before.
LEMMA StayFromAppended ==
    ASSUME NEW h \in Seq(Reading), NEW r \in Reading
    PROVE  LET L == Len(h)
               g == Append(h, r)
           IN  /\ L \in Nat /\ g \in Seq(Reading) /\ Len(g) = L + 1
               /\ g[L + 1] = r /\ g # <<>>
               /\ \A i \in 1 .. L : g[i] = h[i]
               /\ \A n \in 1 .. L : StayFrom(g, n) = StayFrom(h, n)
               /\ L > 0 /\ h[L][1] = r[1] =>
                     StayFrom(g, L + 1) = StayFrom(h, L)
               /\ L = 0 \/ h[L][1] # r[1] => StayFrom(g, L + 1) = L + 1
<1> DEFINE L == Len(h)
           g == Append(h, r)
<1>1. /\ L \in Nat /\ g \in Seq(Reading) /\ Len(g) = L + 1
      /\ g[L + 1] = r /\ g # <<>> /\ \A i \in 1 .. L : g[i] = h[i]
  BY AppendProperties, LenProperties
<1> HIDE DEF L, g
<1>2. ASSUME NEW n \in 1 .. L
      PROVE  StayFrom(g, n) = StayFrom(h, n)
  <2> DEFINE f == StayFrom(h, n)
  <2>1. f \in 1 .. n /\ BeginsStay(h, n, f)
    BY StayFromIs DEF L
  <2> HIDE DEF f
  <2>2. BeginsStay(g, n, f)
    <3>1. \A k \in f .. n : k \in 1 .. L
      BY <1>1, <2>1
    <3>2. f > 1 => f - 1 \in 1 .. L
      BY <1>1, <2>1
    <3>3. n \in 1 .. L
      OBVIOUS
    <3>4. QED
      BY <1>1, <2>1, <3>1, <3>2, <3>3 DEF BeginsStay
  <2>3. n \in 1 .. Len(g)
    BY <1>1
  <2>4. QED
    BY <1>1, <2>1, <2>2, <2>3, StayFromIs DEF f
<1>3. L + 1 \in 1 .. Len(g)
  BY <1>1
<1>4. ASSUME L > 0, h[L][1] = r[1]
      PROVE  StayFrom(g, L + 1) = StayFrom(h, L)
  <2> DEFINE f == StayFrom(h, L)
  <2>1. f \in 1 .. L /\ BeginsStay(h, L, f) /\ L \in 1 .. L
    BY <1>1, <1>4, StayFromIs DEF L
  <2> HIDE DEF f
  <2>2. BeginsStay(g, L + 1, f)
    <3>1. \A k \in f .. L + 1 : k = L + 1 \/ (k \in f .. L /\ k \in 1 .. L)
      BY <1>1, <2>1
    <3>2. f > 1 => f - 1 \in 1 .. L
      BY <1>1, <2>1
    <3>3. QED
      BY <1>1, <1>4, <2>1, <3>1, <3>2 DEF BeginsStay
  <2>3. f \in 1 .. L + 1
    BY <1>1, <2>1
  <2>4. QED
    BY <1>1, <1>3, <2>2, <2>3, StayFromIs DEF f
<1>5. ASSUME L = 0 \/ h[L][1] # r[1]
      PROVE  StayFrom(g, L + 1) = L + 1
  <2>1. BeginsStay(g, L + 1, L + 1)
    <3>1. \A k \in L + 1 .. L + 1 : k = L + 1
      BY <1>1
    <3>2. L + 1 > 1 => L \in 1 .. L /\ L + 1 - 1 = L /\ L # 0
      BY <1>1
    <3>3. QED
      BY <1>1, <1>5, <3>1, <3>2 DEF BeginsStay
  <2>2. L + 1 \in 1 .. L + 1
    BY <1>1
  <2>3. QED
    BY <1>1, <1>3, <2>1, <2>2, StayFromIs
<1>6. QED
  BY <1>1, <1>2, <1>4, <1>5 DEF L, g

\* DwellInv, of one journey.
Measured(v, h) ==
    \/ v = Never /\ h = <<>>
    \/ LET from == StayFrom(h, Len(h)) IN
       /\ v \in JourneyState /\ h \in Seq(Reading) /\ h # <<>>
       /\ v.now.stop = h[Len(h)][1]
       /\ v.now.entry = h[from][2] /\ v.now.dwell = Stay(h, Len(h))
       /\ IF from = 1 THEN v.before = Never
          ELSE /\ v.before.stop = h[from - 1][1]
               /\ v.before.dwell = Stay(h, from - 1)

AllMeasured == \A j \in Journeys : Measured(tracked[j], visits[j])

LEMMA DwellIsMeasured ==
    DwellTypeOK /\ StaysAreMeasured /\ EntryBeganStay => AllMeasured
  BY DEF AllMeasured, DwellTypeOK, StaysAreMeasured, EntryBeganStay,
         Measured, Reading

LEMMA MeasuredIsDwell ==
    AllMeasured => StaysAreMeasured /\ EntryBeganStay
  BY DEF AllMeasured, StaysAreMeasured, EntryBeganStay, Measured

LEMMA RecordedMeasured ==
    ASSUME NEW v, NEW h, Measured(v, h), NEW stop \in StopIds,
           NEW t \in Times, hour \in Times, tz \in BOOLEAN
    PROVE  /\ Measured(Recorded(v, stop, t), Append(h, <<stop, t>>))
           /\ Recorded(v, stop, t) \in JourneyState
           /\ Append(h, <<stop, t>>) \in Seq(Reading)
           /\ Append(h, <<stop, t>>) # <<>>
<1> DEFINE r == <<stop, t>>
           g == Append(h, r)
           w == Recorded(v, stop, t)
           L == Len(h)
<1>1. h \in Seq(Reading) /\ r \in Reading /\ r[1] = stop /\ r[2] = t
  <2>1. <<>> \in Seq(Reading)
    OBVIOUS
  <2>2. h \in Seq(Reading)
    BY <2>1 DEF Measured
  <2>3. QED
    BY <2>2 DEF Reading
<1>2. t \in Int /\ hour \in Int /\ MaxHour \in Nat
  BY DwellAssumption DEF Times
<1>3. /\ L \in Nat /\ g \in Seq(Reading) /\ Len(g) = L + 1
      /\ g[L + 1] = r /\ g # <<>> /\ \A i \in 1 .. L : g[i] = h[i]
      /\ \A n \in 1 .. L : StayFrom(g, n) = StayFrom(h, n)
      /\ L > 0 /\ h[L][1] = r[1] => StayFrom(g, L + 1) = StayFrom(h, L)
      /\ L = 0 \/ h[L][1] # r[1] => StayFrom(g, L + 1) = L + 1
  BY <1>1, StayFromAppended
<1>4. Arrived(stop, t) \in StopState
  BY <1>2 DEF Arrived, StopState, Times
<1> HIDE DEF r, g, L
<1>5. ASSUME NEW n \in 1 .. L PROVE Stay(g, n) = Stay(h, n)
  <2>1. StayFrom(h, n) \in 1 .. L /\ n \in 1 .. L
    BY <1>1, <1>3, <1>5, StayFromIs DEF L
  <2>2. QED
    BY <1>3, <2>1 DEF Stay
<1>6. CASE v = Never
  <2>1. h = <<>> /\ L = 0
    BY <1>6, NeverIsNoState DEF Measured, L
  <2>2. w = [now |-> Arrived(stop, t), before |-> Never]
    BY <1>6 DEF Recorded
  <2>3. w \in JourneyState
    BY <1>4, <2>2 DEF JourneyState
  <2>4. StayFrom(g, Len(g)) = 1 /\ Len(g) = 1 /\ g[1] = r
    BY <1>3, <2>1
  <2>5. Stay(g, Len(g)) = 0
    BY <1>1, <1>2, <2>4 DEF Stay
  <2>6. Measured(w, g)
    BY <1>1, <1>3, <2>2, <2>3, <2>4, <2>5 DEF Measured, Arrived
  <2>7. QED
    BY <1>3, <2>3, <2>6 DEF g, r
<1>7. CASE v # Never
  <2> DEFINE from == StayFrom(h, L)
  <2>1. /\ v \in JourneyState /\ h # <<>>
        /\ v.now.stop = h[L][1]
        /\ v.now.entry = h[from][2] /\ v.now.dwell = Stay(h, L)
        /\ IF from = 1 THEN v.before = Never
           ELSE /\ v.before.stop = h[from - 1][1]
                /\ v.before.dwell = Stay(h, from - 1)
    BY <1>7 DEF Measured, L
  <2>2. L > 0 /\ L \in 1 .. L
    BY <1>1, <1>3, <2>1, EmptySeq DEF L
  <2>3. from \in 1 .. L /\ from \in Nat
    BY <1>1, <1>3, <2>2, StayFromIs DEF L
  <2> HIDE DEF from
  <2>4. /\ v.now \in StopState /\ v.before \in StopState \union {Never}
        /\ v = [now |-> v.now, before |-> v.before]
    BY <2>1 DEF JourneyState
  <2>5. CASE v.now.stop # stop
    <3>1. w = [now |-> Arrived(stop, t), before |-> v.now]
      BY <1>7, <2>5 DEF Recorded
    <3>2. w \in JourneyState
      BY <1>4, <2>4, <3>1 DEF JourneyState
    <3>3. StayFrom(g, L + 1) = L + 1 /\ L + 1 # 1 /\ L + 1 - 1 = L
      BY <1>1, <1>3, <2>1, <2>2, <2>5
    <3>4. Stay(g, L + 1) = 0
      BY <1>1, <1>2, <1>3, <3>3 DEF Stay
    <3>5. Stay(g, L) = Stay(h, L) /\ g[L] = h[L]
      BY <1>3, <1>5, <2>2
    <3>6. Measured(w, g)
      BY <1>1, <1>3, <2>1, <3>1, <3>2, <3>3, <3>4, <3>5
         DEF Measured, Arrived
    <3>7. QED
      BY <1>3, <3>2, <3>6 DEF g, r
  <2>6. CASE v.now.stop = stop
    <3>1. w = [v EXCEPT !.now = Stays(v.now, t)]
      BY <1>7, <2>6 DEF Recorded
    <3>2. /\ Stays(v.now, t) \in StopState
          /\ Stays(v.now, t).stop = v.now.stop
          /\ Stays(v.now, t).entry = v.now.entry
          /\ Stays(v.now, t).dwell = t - v.now.entry
      <4>1. v.now.entry \in 0 .. MaxHour /\ v.now.stop \in StopIds
        BY <2>4 DEF StopState, Times
      <4>2. t - v.now.entry \in -MaxHour .. MaxHour
        BY <1>2, <4>1 DEF Times
      <4>3. v.now \in StopState /\ t \in Times
        BY <2>4
      <4>4. QED
        BY <4>2, <4>3 DEF Stays, StopState
    <3> DEFINE now == Stays(v.now, t)
    <3> HIDE DEF now
    <3>3. w = [now |-> now, before |-> v.before]
      BY <2>4, <3>1 DEF now
    <3>4. w \in JourneyState
      BY <2>4, <3>2, <3>3 DEF JourneyState, now
    <3>5. StayFrom(g, L + 1) = from
      BY <1>1, <1>3, <2>1, <2>2, <2>6 DEF from
    <3>6. g[from] = h[from]
      BY <1>3, <2>3
    <3>7. Stay(g, L + 1) = t - v.now.entry
      BY <1>1, <1>3, <2>1, <3>5, <3>6 DEF Stay
    <3>8. from # 1 => from - 1 \in 1 .. L
      BY <1>3, <2>3
    <3>9. from # 1 => /\ Stay(g, from - 1) = Stay(h, from - 1)
                      /\ g[from - 1] = h[from - 1]
      BY <1>3, <1>5, <3>8
    <3>10. Measured(w, g)
      BY <1>1, <1>3, <2>1, <2>6, <3>2, <3>3, <3>4, <3>5, <3>6, <3>7, <3>9
         DEF Measured, now
    <3>11. QED
      BY <1>3, <3>4, <3>10 DEF g, r
  <2>7. QED
    BY <2>5, <2>6
<1>8. QED
  BY <1>6, <1>7

-----------------------------------------------------------------------------

LEMMA DwellStarts == DwellInit => DwellInv
<1> SUFFICES ASSUME DwellInit PROVE DwellInv
  OBVIOUS
<1> USE DwellAssumption DEF DwellInit
<1>1. zones \in Seq(Zone) /\ Len(zones) = 0
  OBVIOUS
<1>2. DwellTypeOK
  BY <1>1 DEF DwellTypeOK, Times, Zone
<1>3. StaysAreMeasured /\ EntryBeganStay /\ SweptIsRecent
  BY DEF StaysAreMeasured, EntryBeganStay, SweptIsRecent
<1>4. QED
  BY <1>2, <1>3 DEF DwellInv

LEMMA AddStopKept ==
    ASSUME DwellInv, NEW s \in [id : StopIds, area : Areas], AddStop(s)
    PROVE  DwellInv'
<1>1. /\ zones \in Seq(Zone) /\ Len(zones) <= added
      /\ added \in 0 .. MaxAdded /\ s \in Zone
  BY DEF DwellInv, DwellTypeOK, Zone
<1>2. /\ Len(zones) \in Nat /\ added \in Nat /\ MaxAdded \in Nat
      /\ zones \in [1 .. Len(zones) -> Zone] /\ DOMAIN zones = 1 .. Len(zones)
  BY <1>1, LenProperties, DwellAssumption
<1>3. /\ zones' = WithStop(zones, s) /\ added' = added + 1
      /\ added < MaxAdded
      /\ UNCHANGED <<tracked, calls, hour, tz, visits, swept>>
  BY DEF AddStop
<1>4. zones' \in Seq(Zone) /\ Len(zones') <= Len(zones) + 1
  <2>1. CASE \E i \in DOMAIN zones : zones[i].id = s.id
    <3>1. zones' = [i \in 1 .. Len(zones) |->
                       IF zones[i].id = s.id THEN s ELSE zones[i]]
      BY <1>2, <1>3, <2>1 DEF WithStop
    <3>2. zones' \in [1 .. Len(zones) -> Zone]
      BY <1>1, <1>2, <3>1
    <3>3. zones' \in Seq(Zone) /\ Len(zones') = Len(zones)
      BY <1>2, <3>2, IsASeq
    <3>4. QED
      BY <1>2, <3>3
  <2>2. CASE ~ \E i \in DOMAIN zones : zones[i].id = s.id
    <3>1. zones' = Append(zones, s)
      BY <1>3, <2>2 DEF WithStop
    <3>2. QED
      BY <1>1, <1>2, <3>1, AppendProperties
  <2>3. QED
    BY <2>1, <2>2
<1>5. Len(zones') \in Nat
  BY <1>4, LenProperties
<1>6. DwellTypeOK'
  BY <1>1, <1>2, <1>3, <1>4, <1>5 DEF DwellInv, DwellTypeOK, Zone
<1>7. (StaysAreMeasured /\ EntryBeganStay /\ SweptIsRecent)'
  BY <1>3 DEF DwellInv, StaysAreMeasured, EntryBeganStay, SweptIsRecent
<1>8. QED
  BY <1>6, <1>7 DEF DwellInv

LEMMA RecordKept ==
    ASSUME DwellInv, NEW j \in Journeys, NEW p \in Spots, NEW t \in Times,
           Record(j, p, t)
    PROVE  DwellInv'
<1> DEFINE stop == Resolve(zones, p)
           new == Recorded(tracked[j], stop, t)
           all == [tracked EXCEPT ![j] = new]
           seen == [visits EXCEPT ![j] = Append(@, <<stop, t>>)]
           due == (calls + 1) % CleanupEvery = 0
           gone == {k \in Journeys : Expired(all[k])}
<1>1. /\ zones \in Seq(Zone)
      /\ tracked \in [Journeys -> JourneyState \union {Never}]
      /\ visits \in [Journeys -> Seq(Reading)]
      /\ hour \in Times /\ hour \in Int /\ tz \in BOOLEAN
      /\ calls \in 0 .. MaxReadings /\ MaxReadings \in Nat
      /\ swept \in [hour : Times, left : SUBSET Journeys]
  BY DwellAssumption DEF DwellInv, DwellTypeOK, Zone, Reading, Times
<1>2. /\ stop # Never /\ calls < MaxReadings /\ calls' = calls + 1
      /\ UNCHANGED <<zones, added, hour, tz>>
  BY DEF Record
<1>3. \/ /\ tracked' = [k \in Journeys |->
                          IF k \in gone THEN Never ELSE all[k]]
         /\ visits' = [k \in Journeys |-> IF k \in gone THEN <<>> ELSE seen[k]]
         /\ swept' = [hour |-> hour, left |-> Journeys \ gone]
      \/ /\ tracked' = all /\ visits' = seen
         /\ swept' = [swept EXCEPT !.left = @ \ {j}]
  BY DEF Record
<1>4. stop \in StopIds
  BY <1>1, <1>2, ResolveType
<1>5. \A k \in Journeys : Measured(tracked[k], visits[k])
  BY DwellIsMeasured DEF DwellInv, AllMeasured
<1>6. /\ Measured(new, Append(visits[j], <<stop, t>>))
      /\ new \in JourneyState
      /\ Append(visits[j], <<stop, t>>) \in Seq(Reading)
      /\ Append(visits[j], <<stop, t>>) # <<>>
  BY <1>1, <1>4, <1>5, RecordedMeasured
<1> HIDE DEF new, stop
<1>7. /\ all \in [Journeys -> JourneyState \union {Never}]
      /\ seen \in [Journeys -> Seq(Reading)]
      /\ all[j] = new /\ seen[j] = Append(visits[j], <<stop, t>>)
      /\ \A k \in Journeys : k # j => /\ all[k] = tracked[k]
                                      /\ seen[k] = visits[k]
  BY <1>1, <1>6
<1>8. \A k \in Journeys : Measured(all[k], seen[k])
  BY <1>5, <1>6, <1>7
<1>9. \A k \in Journeys : all[k] = Never <=> seen[k] = <<>>
  <2>1. new # Never
    BY <1>6, NeverIsNoState
  <2>2. QED
    BY <1>6, <1>7, <2>1 DEF DwellInv, DwellTypeOK
<1> HIDE DEF all, seen, gone
<1>10. \/ /\ tracked' = all /\ visits' = seen
       \/ /\ tracked' = [k \in Journeys |->
                           IF k \in gone THEN Never ELSE all[k]]
          /\ visits' = [k \in Journeys |->
                           IF k \in gone THEN <<>> ELSE seen[k]]
  BY <1>3
<1>11. AllMeasured'
  <2>1. Measured(Never, <<>>)
    BY DEF Measured
  <2>2. \A k \in Journeys : Measured(tracked'[k], visits'[k])
    BY <1>8, <1>10, <2>1
  <2>3. QED
    BY <2>2 DEF AllMeasured, Measured
<1>12. DwellTypeOK'
  <2>1. <<>> \in Seq(Reading)
    OBVIOUS
  <2>2. /\ tracked' \in [Journeys -> JourneyState \union {Never}]
        /\ visits' \in [Journeys -> Seq(Reading)]
        /\ \A k \in Journeys : tracked'[k] = Never <=> visits'[k] = <<>>
    BY <1>7, <1>9, <1>10, <2>1
  <2>3. swept' \in [hour : Times, left : SUBSET Journeys]
    BY <1>1, <1>3
  <2>4. calls' \in 0 .. MaxReadings
    BY <1>1, <1>2
  <2>5. QED
    BY <1>2, <2>2, <2>3, <2>4 DEF DwellInv, DwellTypeOK, Reading
<1>13. (StaysAreMeasured /\ EntryBeganStay)'
  <2>1. (AllMeasured => StaysAreMeasured /\ EntryBeganStay)'
    BY MeasuredIsDwell, PTL
  <2>2. QED
    BY <1>11, <2>1
<1>14. SweptIsRecent'
  <2>1. CASE /\ tracked' = [k \in Journeys |->
                              IF k \in gone THEN Never ELSE all[k]]
             /\ swept' = [hour |-> hour, left |-> Journeys \ gone]
    <3>1. ASSUME NEW k \in Journeys \ gone, all[k] # Never
          PROVE  hour - all[k].now.last <= Ttl
      <4>1. ~ Expired(all[k])
        BY <3>1 DEF gone
      <4>2. all[k].now.last \in Int /\ Ttl \in Int
        <5>1. all[k] \in JourneyState
          BY <1>7, <3>1
        <5>2. QED
          BY <5>1, DwellAssumption DEF JourneyState, StopState, Times
      <4>3. QED
        BY <1>1, <3>1, <4>1, <4>2 DEF Expired
    <3>2. \A k \in swept'.left : tracked'[k] = all[k] /\ k \in Journeys \ gone
      BY <2>1
    <3>3. QED
      BY <2>1, <3>1, <3>2 DEF SweptIsRecent
  <2>2. CASE tracked' = all /\ swept' = [swept EXCEPT !.left = @ \ {j}]
    <3>1. \A k \in swept'.left : /\ k \in swept.left /\ k \in Journeys /\ k # j
                                 /\ tracked'[k] = tracked[k]
      BY <1>1, <1>7, <2>2
    <3>2. swept'.hour = swept.hour
      BY <1>1, <2>2
    <3>3. QED
      BY <3>1, <3>2 DEF DwellInv, SweptIsRecent
  <2>3. QED
    BY <1>3, <2>1, <2>2
<1>15. QED
  BY <1>12, <1>13, <1>14 DEF DwellInv

LEMMA ClearKept ==
    ASSUME DwellInv, NEW j \in Journeys, Clear(j)
    PROVE  DwellInv'
<1> USE DEF Clear
<1>1. <<>> \in Seq(StopIds \X Times)
  OBVIOUS
<1>2. DwellTypeOK'
  BY <1>1 DEF DwellInv, DwellTypeOK
<1>3. \A k \in Journeys : k = j \/ /\ tracked'[k] = tracked[k]
                                   /\ visits'[k] = visits[k]
  BY DEF DwellInv, DwellTypeOK
<1>4. tracked'[j] = Never
  BY DEF DwellInv, DwellTypeOK
<1>5. (StaysAreMeasured /\ EntryBeganStay)'
  BY <1>3, <1>4 DEF DwellInv, StaysAreMeasured, EntryBeganStay
<1>6. SweptIsRecent'
  BY <1>3, <1>4 DEF DwellInv, DwellTypeOK, SweptIsRecent
<1>7. QED
  BY <1>2, <1>5, <1>6 DEF DwellInv

LEMMA DwellKept == DwellInv /\ [DwellNext]_dwellVars => DwellInv'
<1> SUFFICES ASSUME DwellInv, [DwellNext]_dwellVars PROVE DwellInv'
  OBVIOUS
<1>1. CASE Hour \/ UNCHANGED dwellVars
  <2>1. /\ UNCHANGED <<zones, added, tracked, calls, tz, visits, swept>>
        /\ hour' \in Times
    BY <1>1, DwellAssumption
       DEF DwellInv, DwellTypeOK, Hour, dwellVars, Times
  <2>2. DwellTypeOK'
    BY <2>1 DEF DwellInv, DwellTypeOK
  <2>3. QED
    BY <2>1, <2>2 DEF DwellInv, StaysAreMeasured, EntryBeganStay,
                      SweptIsRecent
<1>2. QED
  BY <1>1, AddStopKept, RecordKept, ClearKept DEF DwellNext

\* For any stops, journeys and readings: the dwells kept of a journey are
\* those of its present stay and of the one before, measured between its own
\* readings, and a cleanup leaves no journey that is over
\* (DwellCalculator.record_vehicle_at_stop, _cleanup_expired_entries).
THEOREM DwellCorrect == DwellSpec => []DwellInv
<1>1. DwellInit => DwellInv
  BY DwellStarts
<1>2. DwellInv /\ [DwellNext]_dwellVars => DwellInv'
  BY DwellKept
<1>3. QED
  BY <1>1, <1>2, PTL DEF DwellSpec

-----------------------------------------------------------------------------
(* Types.                                                                   *)

\* CrowdTypeOK by the variables that change together.
TopicOK    == /\ topic \in Seq(Reports) /\ Len(topic) <= MaxReports
              /\ producer \in BOOLEAN
              /\ reply \in {"none", "202", "500", "503"}
ThreadOK   == /\ thread \in {"up", "down"} /\ session \in {"ok", "inactive"}
              /\ taken \in 0 .. Len(topic) /\ offset \in Nowhere .. taken
              /\ batch \in Seq(1 .. taken)
              /\ stage \in {"new", "stored", "profiled"}
              /\ stage # "new" => batch # <<>> /\ session = "ok"
                                     /\ thread = "up"
RowsOK     == /\ rows \in Seq(Row)
              /\ \A n \in DOMAIN rows : rows[n].from <= Len(topic)
ProfilesOK == /\ stage = "profiled" => Report.who \in DOMAIN profiles
              /\ DOMAIN profiles \subseteq Passengers
              /\ \A w \in DOMAIN profiles : profiles[w] \in Profile
WhyOK      == why \in [1 .. MaxReports ->
                          {"none", "unseen", "skipped", "failed", "behind"}]
BoundsOK   == /\ minute \in 0 .. MaxTime
              /\ crashes \in 0 .. MaxCrashes /\ faults \in 0 .. MaxFaults

CrowdParts == TopicOK /\ ThreadOK /\ RowsOK /\ ProfilesOK /\ WhyOK /\ BoundsOK

LEMMA CrowdTypeParts == CrowdTypeOK <=> CrowdParts
  BY DEF CrowdTypeOK, CrowdParts, TopicOK, ThreadOK, RowsOK, ProfilesOK,
         WhyOK, BoundsOK

LEMMA CrowdTypePartsNext == CrowdTypeOK' <=> CrowdParts'
  BY DEF CrowdTypeOK, CrowdParts, TopicOK, ThreadOK, RowsOK, ProfilesOK,
         WhyOK, BoundsOK

LEMMA ConstantsAre ==
    /\ MaxReports \in Nat /\ MaxTime \in Nat /\ MaxCrashes \in Nat
    /\ MaxFaults \in Nat /\ Reward \in Nat /\ Penalty \in Nat
    /\ Base \in 0 .. 100 /\ Scores \subseteq 0 .. 100
  BY CrowdAssumption

\* What the type invariant says of the variables, all at once.
LEMMA Typed ==
    ASSUME CrowdTypeOK
    PROVE  /\ topic \in Seq(Reports) /\ Len(topic) \in 0 .. MaxReports
           /\ thread \in {"up", "down"} /\ session \in {"ok", "inactive"}
           /\ taken \in 0 .. Len(topic) /\ taken \in Nat
           /\ offset \in Nowhere .. taken /\ offset \in Int
           /\ batch \in Seq(1 .. taken) /\ Len(batch) \in Nat
           /\ stage \in {"new", "stored", "profiled"}
           /\ stage # "new" => /\ batch # <<>> /\ session = "ok"
                               /\ thread = "up"
           /\ rows \in Seq(Row)
           /\ \A n \in DOMAIN rows : rows[n].from <= Len(topic)
           /\ stage = "profiled" => Report.who \in DOMAIN profiles
           /\ DOMAIN profiles \subseteq Passengers
           /\ \A w \in DOMAIN profiles : profiles[w] \in Profile
           /\ why \in [1 .. MaxReports ->
                         {"none", "unseen", "skipped", "failed", "behind"}]
           /\ minute \in 0 .. MaxTime /\ crashes \in Nat /\ faults \in Nat
  BY ConstantsAre DEF CrowdTypeOK, Nowhere

\* The endpoint never gets a report to the topic: nothing else changes.
LEMMA SubmitIsRefused ==
    ASSUME NEW who, NEW score, NEW broker, SubmitReport(who, score, broker)
    PROVE  /\ UNCHANGED <<topic, thread, offset, taken, batch, stage, session,
                          rows, profiles, minute, why, crashes, faults>>
           /\ producer' \in BOOLEAN /\ reply' \in {"500", "503"}
<1>1. ~Serializes(Dict)
  <2>1. "timestamp" \in DOMAIN Dict /\ Dict["timestamp"] = "datetime"
    BY DEF Dict
  <2> QED
    BY <2>1 DEF Serializes
<1>2. reply' \in {"500", "503"} /\ producer' = FALSE
  BY <1>1 DEF SubmitReport
<1> QED
  BY <1>2 DEF SubmitReport, workVars

\* The report in hand.
LEMMA InHand ==
    ASSUME CrowdTypeOK, batch # <<>>
    PROVE  /\ Head(batch) = batch[1] /\ Head(batch) \in 1 .. taken
           /\ Head(batch) \in DOMAIN topic
           /\ Report \in Reports
           /\ 1 \in DOMAIN batch /\ Len(batch) \in Nat \ {0}
           /\ Tail(batch) \in Seq(1 .. taken)
           /\ Len(Tail(batch)) = Len(batch) - 1
           /\ \A i \in DOMAIN Tail(batch) :
                 /\ i \in Nat \ {0} /\ i + 1 \in DOMAIN batch
                 /\ Tail(batch)[i] = batch[i + 1]
<1>1. batch \in Seq(1 .. taken) /\ batch # <<>> /\ taken \in 0 .. Len(topic)
      /\ topic \in Seq(Reports)
  BY DEF CrowdTypeOK
<1>2. 1 \in DOMAIN batch /\ Head(batch) = batch[1]
  BY <1>1
<1>3. batch[1] \in 1 .. taken
  BY <1>1, <1>2
<1>4. batch[1] \in DOMAIN topic
  BY <1>1, <1>3
<1>5. Report \in Reports
  BY <1>1, <1>2, <1>4 DEF Report
<1> QED
  BY <1>1, <1>2, <1>3, <1>4, <1>5

-----------------------------------------------------------------------------
(* Profiles.                                                                *)

LEMMA MinMaxOfTwo ==
    ASSUME NEW a \in Int, NEW b \in Int
    PROVE  /\ Min({a, b}) \in {a, b} /\ Min({a, b}) <= a /\ Min({a, b}) <= b
           /\ Max({a, b}) \in {a, b} /\ Max({a, b}) >= a /\ Max({a, b}) >= b
<1>1. \E x \in {a, b} : \A y \in {a, b} : x <= y
  <2>1. CASE a <= b
    BY <2>1
  <2>2. CASE b <= a
    BY <2>2
  <2> QED
    BY <2>1, <2>2
<1>2. \E x \in {a, b} : \A y \in {a, b} : x >= y
  <2>1. CASE a >= b
    BY <2>1
  <2>2. CASE b >= a
    BY <2>2
  <2> QED
    BY <2>1, <2>2
<1>3. Min({a, b}) \in {a, b} /\ \A y \in {a, b} : Min({a, b}) <= y
  BY <1>1 DEF Min
<1>4. Max({a, b}) \in {a, b} /\ \A y \in {a, b} : Max({a, b}) >= y
  BY <1>2 DEF Max
<1> QED
  BY <1>3, <1>4

\* What a report does to a profile: it is right, or it is not.
LEMMA JudgedIs ==
    ASSUME NEW p \in Profile, NEW score, NEW is, NEW q,
           q = Judged(p, score, is)
    PROVE  /\ q \in Profile /\ q.total = p.total + 1
           /\ \/ /\ q.verified = p.verified + 1
                 /\ p.trust <= q.trust /\ q.trust <= p.trust + Reward
              \/ /\ q.verified = p.verified
                 /\ p.trust - Penalty <= q.trust /\ q.trust <= p.trust
<1>0. /\ p.trust \in 0 .. 100 /\ p.total \in Nat /\ p.verified \in Nat
      /\ Reward \in Nat /\ Penalty \in Nat
  BY ConstantsAre DEF Profile
<1> DEFINE up == Min({100, p.trust + Reward})
           down == Max({0, p.trust - Penalty})
<1>1. up \in 0 .. 100 /\ p.trust <= up /\ up <= p.trust + Reward
  <2>1. /\ up \in {100, p.trust + Reward} /\ up <= 100
        /\ up <= p.trust + Reward
    <3>1. 100 \in Int /\ p.trust + Reward \in Int
      BY <1>0
    <3> QED
      BY <3>1, MinMaxOfTwo
  <2> QED
    BY <1>0, <2>1
<1>2. down \in 0 .. 100 /\ p.trust - Penalty <= down /\ down <= p.trust
  <2>1. /\ down \in {0, p.trust - Penalty} /\ down >= 0
        /\ down >= p.trust - Penalty
    <3>1. 0 \in Int /\ p.trust - Penalty \in Int
      BY <1>0
    <3> QED
      BY <3>1, MinMaxOfTwo
  <2> QED
    BY <1>0, <2>1
<1>3. \/ q = [trust |-> p.trust, total |-> p.total + 1,
              verified |-> p.verified + 1]
      \/ q = [trust |-> up, total |-> p.total + 1,
              verified |-> p.verified + 1]
      \/ q = [trust |-> down, total |-> p.total + 1, verified |-> p.verified]
  BY DEF Judged
<1> HIDE DEF up, down
<1> QED
  BY <1>0, <1>1, <1>2, <1>3 DEF Profile

\* TrustIsEarned, of one profile.
Earned(p) == /\ p.verified <= p.total
             /\ p.trust <= Base + Reward * p.verified
             /\ p.trust >= Base - Penalty * (p.total - p.verified)

LEMMA OneMore == \A a, b \in Int : a * (b + 1) = a * b + a /\ a * b \in Int
  OBVIOUS

LEMMA NewEarned == NewProfile \in Profile /\ Earned(NewProfile)
<1>1. Base \in 0 .. 100 /\ Reward * 0 = 0 /\ Penalty * (0 - 0) = 0
  BY ConstantsAre
<1> QED
  BY <1>1 DEF NewProfile, Profile, Earned

LEMMA JudgedEarned ==
    ASSUME NEW p \in Profile, Earned(p), NEW score, NEW is, NEW q,
           q = Judged(p, score, is)
    PROVE  Earned(q)
<1>0. /\ p.trust \in 0 .. 100 /\ p.total \in Nat /\ p.verified \in Nat
      /\ q.trust \in 0 .. 100 /\ q.total \in Nat /\ q.verified \in Nat
      /\ Reward \in Nat /\ Penalty \in Nat /\ Base \in Int
  BY ConstantsAre, JudgedIs DEF Profile
<1>1. q.total = p.total + 1
  BY JudgedIs
<1>2. CASE /\ q.verified = p.verified + 1
           /\ p.trust <= q.trust /\ q.trust <= p.trust + Reward
  <2>1. Reward * q.verified = Reward * p.verified + Reward
    BY <1>0, <1>2, OneMore
  <2>2. q.total - q.verified = p.total - p.verified
    BY <1>0, <1>1, <1>2
  <2>3. /\ Reward * p.verified \in Int
        /\ Penalty * (p.total - p.verified) \in Int
    BY <1>0
  <2>4. Penalty * (q.total - q.verified) = Penalty * (p.total - p.verified)
    BY <2>2
  <2>5. p.trust <= Base + Reward * p.verified
          /\ p.trust >= Base - Penalty * (p.total - p.verified)
          /\ p.verified <= p.total
    BY DEF Earned
  <2>6. q.trust <= Base + Reward * q.verified
    <3>1. PICK s \in Int : s = Reward * p.verified
      BY <2>3
    <3>2. PICK r \in Int : r = Reward * q.verified
      BY <1>0, <2>1, <2>3
    <3>3. /\ s \in Int /\ r \in Int
          /\ r = s + Reward /\ p.trust <= Base + s
      BY <2>1, <2>5, <3>1, <3>2
    <3>4. PICK x, y \in Int : x = p.trust /\ y = q.trust
      BY <1>0
    <3>5. x <= Base + s /\ y <= x + Reward
      BY <1>2, <3>3, <3>4
    <3>6. y <= Base + r
      BY <1>0, <3>3, <3>5
    <3> QED
      BY <3>2, <3>4, <3>6
  <2>7. q.trust >= Base - Penalty * (q.total - q.verified)
    BY <1>0, <1>2, <2>3, <2>4, <2>5
  <2>8. q.verified <= q.total
    BY <1>0, <1>1, <1>2, <2>5
  <2> QED
    BY <2>6, <2>7, <2>8 DEF Earned
<1>3. CASE /\ q.verified = p.verified
           /\ p.trust - Penalty <= q.trust /\ q.trust <= p.trust
  <2>1. /\ q.total - q.verified = (p.total - p.verified) + 1
        /\ p.total - p.verified \in Int
    BY <1>0, <1>1, <1>3
  <2>2. Penalty * (q.total - q.verified)
           = Penalty * (p.total - p.verified) + Penalty
    BY <1>0, <2>1, OneMore
  <2>3. /\ Reward * p.verified \in Int
        /\ Penalty * (p.total - p.verified) \in Int
    BY <1>0, OneMore
  <2>4. Reward * q.verified = Reward * p.verified
    BY <1>3
  <2>5. p.trust <= Base + Reward * p.verified
          /\ p.trust >= Base - Penalty * (p.total - p.verified)
          /\ p.verified <= p.total
    BY DEF Earned
  <2>6. q.trust <= Base + Reward * q.verified
    BY <1>0, <1>3, <2>3, <2>4, <2>5
  <2>7. q.trust >= Base - Penalty * (q.total - q.verified)
    <3>1. PICK s \in Int : s = Penalty * (p.total - p.verified)
      BY <2>3
    <3>2. PICK r \in Int : r = Penalty * (q.total - q.verified)
      BY <1>0, <2>2, <2>3
    <3>3. /\ s \in Int /\ r \in Int
          /\ r = s + Penalty /\ p.trust >= Base - s
      BY <2>2, <2>5, <3>1, <3>2
    <3>4. PICK x, y \in Int : x = p.trust /\ y = q.trust
      BY <1>0
    <3>5. x >= Base - s /\ x - Penalty <= y
      BY <1>3, <3>3, <3>4
    <3>6. y >= Base - r
      BY <1>0, <3>3, <3>5
    <3> QED
      BY <3>2, <3>4, <3>6
  <2>8. q.verified <= q.total
    BY <1>0, <1>1, <1>3, <2>5
  <2> QED
    BY <2>6, <2>7, <2>8 DEF Earned
<1> QED
  BY <1>2, <1>3, JudgedIs

-----------------------------------------------------------------------------
(* The types survive every step.                                            *)

\* The actions that give a report up.
LEMMA GivingUp ==
    ASSUME Skip \/ Fail \/ Behind
    PROVE  /\ UNCHANGED <<topic, producer, reply, thread, offset, taken, rows,
                          profiles, minute, crashes>>
           /\ batch # <<>> /\ batch' = Tail(batch) /\ stage' = "new"
           /\ \/ /\ stage = "new"
                 /\ \E reason \in {"skipped", "failed", "behind"} :
                       why' = [why EXCEPT ![Head(batch)] = reason]
              \/ stage # "new" /\ why' = why
           /\ session' = session \/ session' = "inactive"
           /\ faults' = faults \/ (faults < MaxFaults /\ faults' = faults + 1)
<1>1. CASE Skip
  BY <1>1 DEF Skip, GivesUp, NextReport
<1>2. CASE Behind
  BY <1>2 DEF Behind, GivesUp, NextReport
<1>3. CASE Fail
  BY <1>3 DEF Fail, GivesUp, NextReport
<1> QED
  BY <1>1, <1>2, <1>3

\* Storing a report.
LEMMA Storing ==
    ASSUME CrowdTypeOK, Store
    PROVE  /\ UNCHANGED <<topic, producer, reply, thread, offset, taken,
                          session, profiles, minute, why, crashes, faults>>
           /\ stage = "new" /\ batch # <<>> /\ session = "ok"
           /\ \/ /\ Report.who = Anonymous
                 /\ batch' = Tail(batch) /\ stage' = "new"
              \/ /\ Report.who # Anonymous
                 /\ batch' = batch /\ stage' = "stored"
           /\ \E r \in Row : /\ rows' = Append(rows, r)
                             /\ r.from = Head(batch) /\ r.who = Report.who
<1>1. batch # <<>>
  BY DEF Store
<1> DEFINE r == [from |-> Head(batch), who |-> Report.who,
                 score |-> Report.score, ts |-> Report.ts]
<1>2. r \in Row
  <2>1. Report \in Reports /\ Head(batch) \in 1 .. taken
    BY <1>1, InHand
  <2>2. Head(batch) \in 1 .. MaxReports
    BY <2>1, Typed, ConstantsAre
  <2> QED
    BY <2>1, <2>2 DEF Reports, Row
<1>3. r.from = Head(batch) /\ r.who = Report.who /\ rows' = Append(rows, r)
  BY DEF Store
<1> HIDE DEF r
<1> QED
  BY <1>1, <1>2, <1>3 DEF Store, NextReport

LEMMA CrowdTypeStep ==
    CrowdTypeOK /\ BatchBookkeeping /\ [CrowdNext]_crowdVars => CrowdTypeOK'
<1> SUFFICES ASSUME CrowdTypeOK, BatchBookkeeping, [CrowdNext]_crowdVars
             PROVE  CrowdParts'
  BY CrowdTypePartsNext
<1>0. /\ TopicOK /\ ThreadOK /\ RowsOK /\ ProfilesOK /\ WhyOK /\ BoundsOK
      /\ Len(topic) \in Nat /\ taken \in Nat /\ MaxReports \in Nat
      /\ MaxTime \in Nat /\ MaxCrashes \in Nat /\ MaxFaults \in Nat
  BY CrowdTypeParts, Typed, ConstantsAre DEF CrowdParts
<1>1. ASSUME NEW who \in Passengers \union {Anonymous}, NEW score \in Scores,
             NEW ts \in 0 .. MaxTime, Publishes(who, score, ts)
      PROVE  CrowdParts'
  <2>1. /\ UNCHANGED <<producer, reply, thread, offset, taken, minute, crashes,
                       batch, stage, session, rows, profiles, why, faults>>
        /\ Len(topic) < MaxReports
        /\ topic' = Append(topic, [who |-> who, score |-> score, ts |-> ts])
    BY <1>1 DEF Publishes, workVars
  <2>2. [who |-> who, score |-> score, ts |-> ts] \in Reports
    BY DEF Reports
  <2>3. topic' \in Seq(Reports) /\ Len(topic') = Len(topic) + 1
    BY <1>0, <2>1, <2>2 DEF TopicOK
  <2>4. TopicOK'
    BY <1>0, <2>1, <2>3 DEF TopicOK
  <2>5. ThreadOK'
    <3>1. taken' \in 0 .. Len(topic')
      BY <1>0, <2>1, <2>3 DEF ThreadOK
    <3> QED
      BY <1>0, <2>1, <3>1 DEF ThreadOK
  <2>6. RowsOK'
    <3>1. \A n \in DOMAIN rows : rows[n].from \in Nat
      <4>1. \A n \in DOMAIN rows : rows[n] \in Row
        BY <1>0 DEF RowsOK
      <4>2. 1 .. MaxReports \subseteq Nat
        BY <1>0
      <4> QED
        BY <4>1, <4>2 DEF Row
    <3>2. \A n \in DOMAIN rows : rows[n].from <= Len(topic')
      BY <1>0, <2>3, <3>1 DEF RowsOK
    <3> QED
      BY <1>0, <2>1, <3>2 DEF RowsOK
  <2>7. ProfilesOK'
    <3>1. stage = "profiled" => Report' = Report
      <4>1. stage = "profiled" => Head(batch) \in DOMAIN topic
        BY <1>0, InHand DEF ThreadOK
      <4> QED
        BY <1>0, <2>1, <4>1 DEF Report, TopicOK
    <3> QED
      BY <1>0, <2>1, <3>1 DEF ProfilesOK
  <2> QED
    BY <1>0, <2>1, <2>4, <2>5, <2>6, <2>7 DEF CrowdParts, WhyOK, BoundsOK
<1>2. ASSUME NEW who, NEW score, NEW broker, SubmitReport(who, score, broker)
      PROVE  CrowdParts'
  BY <1>0, <1>2, SubmitIsRefused
     DEF CrowdParts, TopicOK, ThreadOK, RowsOK, ProfilesOK, WhyOK, BoundsOK,
         Report
<1>3. CASE Start
  <2>1. /\ UNCHANGED <<topic, producer, reply, offset, batch, stage, session,
                       rows, profiles, minute, crashes, faults>>
        /\ thread = "down" /\ thread' = "up"
        /\ taken' = IF offset = Nowhere THEN Len(topic) ELSE offset
        /\ why' = [i \in DOMAIN why |->
                     IF offset = Nowhere /\ i <= Len(topic) THEN "unseen"
                                                           ELSE why[i]]
    BY <1>3 DEF Start
  <2>2. batch = <<>> /\ stage = "new"
    BY <1>0, <2>1 DEF BatchBookkeeping, ThreadOK
  <2>3. taken' \in 0 .. Len(topic) /\ offset \in Nowhere .. taken'
    BY <1>0, <2>1 DEF ThreadOK, Nowhere
  <2>4. batch' \in Seq(1 .. taken')
    BY <2>1, <2>2, EmptySeq
  <2>5. ThreadOK'
    BY <1>0, <2>1, <2>2, <2>3, <2>4 DEF ThreadOK
  <2>6. WhyOK'
    BY <1>0, <2>1 DEF WhyOK
  <2> QED
    BY <1>0, <2>1, <2>2, <2>5, <2>6
       DEF CrowdParts, TopicOK, RowsOK, ProfilesOK, BoundsOK
<1>4. ASSUME NEW n \in 0 .. MaxReports, Poll(n)
      PROVE  CrowdParts'
  <2>1. /\ UNCHANGED <<topic, producer, reply, thread, rows, profiles, minute,
                       why, crashes, faults>>
        /\ taken + n <= Len(topic) /\ offset' \in {offset, taken}
        /\ taken' = taken + n /\ batch' = [i \in 1 .. n |-> taken + i]
        /\ stage' = "new" /\ session' = "ok"
    BY <1>4 DEF Poll
  <2>2. n \in Nat
    BY <1>0
  <2>3. taken' \in 0 .. Len(topic) /\ offset' \in Nowhere .. taken'
    BY <1>0, <2>1, <2>2 DEF ThreadOK, Nowhere
  <2>4. batch' \in Seq(1 .. taken')
    <3>1. \A i \in 1 .. n : taken + i \in 1 .. taken'
      BY <1>0, <2>1, <2>2
    <3> QED
      BY <2>1, <2>2, <3>1, IsASeq
  <2>5. ThreadOK'
    BY <1>0, <2>1, <2>3, <2>4 DEF ThreadOK
  <2> QED
    BY <1>0, <2>1, <2>5
       DEF CrowdParts, TopicOK, RowsOK, ProfilesOK, WhyOK, BoundsOK
<1>5. CASE Close \/ Crash \/ Tick
  <2>1. /\ UNCHANGED <<topic, producer, reply, taken, rows, profiles, why,
                       session, faults>>
        /\ offset' \in {offset, taken} /\ thread' \in {thread, "down"}
        /\ \/ stage' = "new" /\ (batch' = <<>> \/ batch' = batch)
           \/ stage' = stage /\ batch' = batch /\ thread' = thread
        /\ crashes' = crashes \/ (crashes < MaxCrashes
                                    /\ crashes' = crashes + 1)
        /\ minute' = minute \/ (minute < MaxTime /\ minute' = minute + 1)
    <3>1. CASE Close
      <4>1. stage = "new"
        BY <1>0, <3>1 DEF Close, ThreadOK
      <4> QED
        BY <3>1, <4>1 DEF Close, workVars
    <3>2. CASE Crash
      BY <3>2 DEF Crash
    <3>3. CASE Tick
      BY <3>3 DEF Tick, workVars
    <3> QED
      BY <1>5, <3>1, <3>2, <3>3
  <2>2. offset' \in Nowhere .. taken
    BY <1>0, <2>1 DEF ThreadOK, Nowhere
  <2>3. batch' \in Seq(1 .. taken)
    BY <1>0, <2>1, EmptySeq DEF ThreadOK
  <2>4. ThreadOK'
    BY <1>0, <2>1, <2>2, <2>3 DEF ThreadOK
  <2>5. ProfilesOK'
    BY <1>0, <2>1 DEF ProfilesOK, Report
  <2>6. crashes' \in 0 .. MaxCrashes /\ minute' \in 0 .. MaxTime
    BY <1>0, <2>1 DEF BoundsOK
  <2> QED
    BY <1>0, <2>1, <2>4, <2>5, <2>6
       DEF CrowdParts, TopicOK, RowsOK, WhyOK, BoundsOK
<1>6. CASE Skip \/ Fail \/ Behind
  <2>1. /\ UNCHANGED <<topic, producer, reply, thread, offset, taken, rows,
                       profiles, minute, crashes>>
        /\ batch # <<>> /\ batch' = Tail(batch) /\ stage' = "new"
        /\ session' = session \/ session' = "inactive"
        /\ faults' = faults \/ (faults < MaxFaults /\ faults' = faults + 1)
    BY <1>6, GivingUp
  <2>2. \/ why' = why
        \/ \E reason \in {"skipped", "failed", "behind"} :
              why' = [why EXCEPT ![Head(batch)] = reason]
    BY <1>6, GivingUp
  <2>3. batch' \in Seq(1 .. taken)
    BY <2>1, InHand
  <2>4. ThreadOK'
    BY <1>0, <2>1, <2>3 DEF ThreadOK
  <2>5. WhyOK'
    BY <1>0, <2>2 DEF WhyOK
  <2>6. faults' \in 0 .. MaxFaults
    BY <1>0, <2>1 DEF BoundsOK
  <2> QED
    BY <1>0, <2>1, <2>4, <2>5, <2>6
       DEF CrowdParts, TopicOK, RowsOK, ProfilesOK, BoundsOK
<1>7. CASE Store
  <2>1. /\ UNCHANGED <<topic, producer, reply, thread, offset, taken, session,
                       profiles, minute, why, crashes, faults>>
        /\ stage = "new" /\ batch # <<>> /\ session = "ok"
        /\ \/ batch' = Tail(batch) /\ stage' = "new"
           \/ batch' = batch /\ stage' = "stored"
    BY <1>7, Storing
  <2>2. PICK r \in Row : rows' = Append(rows, r) /\ r.from = Head(batch)
    BY <1>7, Storing
  <2>3. thread = "up"
    <3>1. thread = "down" => batch = <<>>
      BY DEF BatchBookkeeping
    <3> QED
      BY <1>0, <2>1, <3>1 DEF ThreadOK
  <2>4. batch' \in Seq(1 .. taken)
    BY <1>0, <2>1, InHand DEF ThreadOK
  <2>5. ThreadOK'
    BY <1>0, <2>1, <2>3, <2>4 DEF ThreadOK
  <2>6. RowsOK'
    <3>1. rows \in Seq(Row) /\ rows' \in Seq(Row)
      BY <1>0, <2>2 DEF RowsOK
    <3>2. Head(batch) <= Len(topic)
      BY <1>0, <2>1, InHand DEF ThreadOK
    <3>3. \A n \in DOMAIN rows' : rows'[n].from <= Len(topic)
      BY <1>0, <2>2, <3>1, <3>2 DEF RowsOK
    <3> QED
      BY <2>1, <3>1, <3>3 DEF RowsOK
  <2>7. ProfilesOK'
    BY <1>0, <2>1 DEF ProfilesOK
  <2> QED
    BY <1>0, <2>1, <2>5, <2>6, <2>7 DEF CrowdParts, TopicOK, WhyOK, BoundsOK
<1>8. CASE CreateProfile
  <2>1. /\ UNCHANGED <<topic, producer, reply, thread, offset, taken, batch,
                       session, rows, minute, why, crashes, faults>>
        /\ stage = "stored" /\ stage' = "profiled"
        /\ profiles' = With(Report.who, Known(Report.who))
    BY <1>8 DEF CreateProfile
  <2>2. Report.who \in Passengers
    <3>1. Report \in Reports /\ Report.who # Anonymous
      BY <1>0, <2>1, InHand DEF BatchBookkeeping, ThreadOK
    <3> QED
      BY <3>1 DEF Reports
  <2>3. Known(Report.who) \in Profile
    BY <1>0, NewEarned DEF ProfilesOK, Known
  <2>4. ThreadOK'
    BY <1>0, <2>1 DEF ThreadOK
  <2>5. ProfilesOK'
    <3>1. Report' = Report
      BY <2>1 DEF Report
    <3> QED
      BY <1>0, <2>1, <2>2, <2>3, <3>1 DEF ProfilesOK, With
  <2> QED
    BY <1>0, <2>1, <2>4, <2>5
       DEF CrowdParts, TopicOK, RowsOK, WhyOK, BoundsOK
<1>9. CASE AdjustTrust
  <2>1. /\ UNCHANGED <<topic, producer, reply, thread, offset, taken, session,
                       rows, minute, why, crashes, faults>>
        /\ stage = "profiled" /\ stage' = "new" /\ batch' = Tail(batch)
        /\ profiles' = With(Report.who,
                            Judged(profiles[Report.who], Report.score,
                                   Others(Report.who)))
    BY <1>9 DEF AdjustTrust, NextReport
  <2>2. Report.who \in DOMAIN profiles /\ batch # <<>>
    BY <1>0, <2>1 DEF ProfilesOK, ThreadOK
  <2>3. PICK q : q = Judged(profiles[Report.who], Report.score,
                            Others(Report.who))
    OBVIOUS
  <2>4. q \in Profile
    BY <1>0, <2>2, <2>3, JudgedIs DEF ProfilesOK
  <2>5. batch' \in Seq(1 .. taken)
    BY <2>1, <2>2, InHand
  <2>6. ThreadOK'
    BY <1>0, <2>1, <2>5 DEF ThreadOK
  <2>7. ProfilesOK'
    BY <1>0, <2>1, <2>2, <2>3, <2>4 DEF ProfilesOK, With
  <2> QED
    BY <1>0, <2>1, <2>6, <2>7
       DEF CrowdParts, TopicOK, RowsOK, WhyOK, BoundsOK
<1>10. CASE UNCHANGED crowdVars
  BY <1>0, <1>10
     DEF crowdVars, CrowdParts, TopicOK, ThreadOK, RowsOK, ProfilesOK, WhyOK,
         BoundsOK, Report
<1> QED
  BY <1>1, <1>2, <1>3, <1>4, <1>5, <1>6, <1>7, <1>8, <1>9, <1>10
     DEF CrowdNext

-----------------------------------------------------------------------------
(* The rows.                                                                *)

\* A row more is one row more of its passenger and one copy of its report.
LEMMA OneRowMore ==
    ASSUME rows \in Seq(Row), NEW r \in Row, rows' = Append(rows, r)
    PROVE  /\ \A w : RowsOf(w)' = IF r.who = w
                                  THEN RowsOf(w) \union {Len(rows) + 1}
                                  ELSE RowsOf(w)
           /\ \A i : Copies(i)' = IF r.from = i
                                  THEN Copies(i) \union {Len(rows) + 1}
                                  ELSE Copies(i)
<1>1. /\ DOMAIN rows = 1 .. Len(rows) /\ Len(rows) \in Nat
      /\ DOMAIN rows' = (DOMAIN rows) \union {Len(rows) + 1}
      /\ rows'[Len(rows) + 1] = r
      /\ \A n \in DOMAIN rows : rows'[n] = rows[n]
  OBVIOUS
<1>2. \A w : RowsOf(w)' = IF r.who = w THEN RowsOf(w) \union {Len(rows) + 1}
                                       ELSE RowsOf(w)
  BY <1>1 DEF RowsOf
<1>3. \A i : Copies(i)' = IF r.from = i THEN Copies(i) \union {Len(rows) + 1}
                                        ELSE Copies(i)
  BY <1>1 DEF Copies
<1> QED
  BY <1>2, <1>3

\* There are finitely many rows, so they can be counted.
LEMMA RowsCounted ==
    ASSUME rows \in Seq(Row)
    PROVE  /\ \A w : /\ IsFiniteSet(RowsOf(w))
                     /\ Cardinality(RowsOf(w)) \in Nat
                     /\ Len(rows) + 1 \notin RowsOf(w)
           /\ \A i : /\ IsFiniteSet(Copies(i))
                     /\ Cardinality(Copies(i)) \in Nat
                     /\ Len(rows) + 1 \notin Copies(i)
<1>1. /\ DOMAIN rows = 1 .. Len(rows) /\ Len(rows) \in Nat
      /\ Len(rows) + 1 \notin DOMAIN rows
  OBVIOUS
<1>2. IsFiniteSet(DOMAIN rows)
  BY <1>1, FS_Interval
<1>3. ASSUME NEW w
      PROVE  /\ IsFiniteSet(RowsOf(w)) /\ Cardinality(RowsOf(w)) \in Nat
             /\ Len(rows) + 1 \notin RowsOf(w)
  <2>1. RowsOf(w) \subseteq DOMAIN rows
    BY DEF RowsOf
  <2> QED
    BY <1>1, <1>2, <2>1, FS_Subset, FS_CardinalityType
<1>4. ASSUME NEW i
      PROVE  /\ IsFiniteSet(Copies(i)) /\ Cardinality(Copies(i)) \in Nat
             /\ Len(rows) + 1 \notin Copies(i)
  <2>1. Copies(i) \subseteq DOMAIN rows
    BY DEF Copies
  <2> QED
    BY <1>1, <1>2, <2>1, FS_Subset, FS_CardinalityType
<1> QED
  BY <1>3, <1>4

LEMMA OneMoreCounted ==
    ASSUME rows \in Seq(Row), NEW r \in Row, rows' = Append(rows, r)
    PROVE  /\ \A w : Cardinality(RowsOf(w))' =
                        IF r.who = w THEN Cardinality(RowsOf(w)) + 1
                                     ELSE Cardinality(RowsOf(w))
           /\ \A i : Cardinality(Copies(i))' =
                        IF r.from = i THEN Cardinality(Copies(i)) + 1
                                      ELSE Cardinality(Copies(i))
<1>1. ASSUME NEW w
      PROVE  Cardinality(RowsOf(w)') =
                IF r.who = w THEN Cardinality(RowsOf(w)) + 1
                             ELSE Cardinality(RowsOf(w))
  <2>1. /\ IsFiniteSet(RowsOf(w)) /\ Len(rows) + 1 \notin RowsOf(w)
    BY RowsCounted
  <2>2. RowsOf(w)' = IF r.who = w THEN RowsOf(w) \union {Len(rows) + 1}
                                  ELSE RowsOf(w)
    BY OneRowMore
  <2>3. Cardinality(RowsOf(w) \union {Len(rows) + 1})
           = Cardinality(RowsOf(w)) + 1
    BY <2>1, FS_AddElement
  <2> QED
    BY <2>2, <2>3
<1>2. ASSUME NEW i
      PROVE  Cardinality(Copies(i)') =
                IF r.from = i THEN Cardinality(Copies(i)) + 1
                              ELSE Cardinality(Copies(i))
  <2>1. /\ IsFiniteSet(Copies(i)) /\ Len(rows) + 1 \notin Copies(i)
    BY RowsCounted
  <2>2. Copies(i)' = IF r.from = i THEN Copies(i) \union {Len(rows) + 1}
                                   ELSE Copies(i)
    BY OneRowMore
  <2>3. Cardinality(Copies(i) \union {Len(rows) + 1})
           = Cardinality(Copies(i)) + 1
    BY <2>1, FS_AddElement
  <2> QED
    BY <2>2, <2>3
<1> QED
  BY <1>1, <1>2

-----------------------------------------------------------------------------
(* The bookkeeping of the thread.                                           *)

\* What has been dealt with stays so.
LEMMA DealtKept ==
    ASSUME CrowdTypeOK, NEW i \in 1 .. MaxReports, Dealt(i),
           why'[i] = why[i] \/ why'[i] # "none",
           rows' = rows \/ \E r \in Row : rows' = Append(rows, r)
    PROVE  Dealt(i)'
<1>1. Copies(i) # {} => Copies(i)' # {}
  BY OneRowMore, Typed DEF Copies
<1> QED
  BY <1>1 DEF Dealt

\* The thread is done with the first report of its batch.
LEMMA HeadDropped ==
    ASSUME CrowdTypeOK, BatchBookkeeping, batch # <<>>, batch' = Tail(batch),
           UNCHANGED <<thread, taken, offset>>
    PROVE  /\ thread = "up" /\ Passed \in Int
           /\ Head(batch) = Passed + 1 /\ Passed' = Passed + 1
           /\ \A i \in DOMAIN batch' : batch'[i] = taken' - Len(batch') + i
           /\ offset' <= taken' - Len(batch')
<1>1. /\ thread = "up" /\ taken \in Nat /\ offset \in Int
      /\ offset <= taken - Len(batch)
      /\ \A i \in DOMAIN batch : batch[i] = taken - Len(batch) + i
  BY Typed DEF BatchBookkeeping
<1>2. /\ Head(batch) = batch[1] /\ 1 \in DOMAIN batch
      /\ Len(batch) \in Nat /\ Len(batch') = Len(batch) - 1
      /\ \A i \in DOMAIN batch' : /\ i \in Nat /\ i + 1 \in DOMAIN batch
                                  /\ batch'[i] = batch[i + 1]
  BY InHand
<1>3. Passed = taken - Len(batch) /\ Passed' = taken - (Len(batch) - 1)
  BY <1>1, <1>2 DEF Passed
<1>4. Head(batch) = taken - Len(batch) + 1
  BY <1>1, <1>2
<1>5. \A i \in DOMAIN batch' : batch'[i] = taken' - Len(batch') + i
  BY <1>1, <1>2
<1> QED
  BY <1>1, <1>2, <1>3, <1>4, <1>5

LEMMA BatchBookkeepingStep ==
    CrowdTypeOK /\ BatchBookkeeping /\ [CrowdNext]_crowdVars
        => BatchBookkeeping'
<1> SUFFICES ASSUME CrowdTypeOK, BatchBookkeeping, [CrowdNext]_crowdVars
             PROVE  BatchBookkeeping'
  OBVIOUS
<1>0. /\ topic \in Seq(Reports) /\ Len(topic) \in 0 .. MaxReports
      /\ MaxReports \in Nat
      /\ thread \in {"up", "down"} /\ taken \in 0 .. Len(topic)
      /\ taken \in Nat /\ offset \in Nowhere .. taken /\ offset \in Int
      /\ Len(batch) \in Nat /\ batch \in Seq(1 .. taken)
      /\ stage # "new" => batch # <<>> /\ thread = "up"
      /\ why \in [1 .. MaxReports ->
                    {"none", "unseen", "skipped", "failed", "behind"}]
      /\ rows \in Seq(Row)
  BY Typed, ConstantsAre
<1>1. /\ thread = "down" => batch = <<>>
      /\ \A i \in DOMAIN batch : batch[i] = taken - Len(batch) + i
      /\ offset <= taken - Len(batch)
      /\ \A i \in 1 .. Passed : Dealt(i)
      /\ stage # "new" => Report.who # Anonymous /\ Copies(Head(batch)) # {}
  BY DEF BatchBookkeeping
<1>2. /\ Passed \in Int /\ Passed <= taken /\ offset <= Passed
      /\ \A i \in 1 .. Passed : i \in 1 .. MaxReports
      /\ Len(<<>>) = 0
  <2>1. Passed \in Int /\ Passed <= taken /\ offset <= Passed
    BY <1>0, <1>1 DEF Passed
  <2> QED
    BY <1>0, <2>1, EmptySeq
\* The first report is given up, or its trust is settled.
<1>3. ASSUME batch # <<>>, batch' = Tail(batch), stage' = "new",
             UNCHANGED <<thread, taken, offset>>,
             NEW h, h = Head(batch), Dealt(h)',
             \A i \in 1 .. MaxReports : why'[i] = why[i] \/ why'[i] # "none",
             rows' = rows \/ \E r \in Row : rows' = Append(rows, r)
      PROVE  BatchBookkeeping'
  <2>1. /\ thread = "up" /\ Head(batch) = Passed + 1 /\ Passed' = Passed + 1
        /\ \A i \in DOMAIN batch' : batch'[i] = taken' - Len(batch') + i
        /\ offset' <= taken' - Len(batch')
    BY <1>3, HeadDropped
  <2>2. \A i \in 1 .. Passed' : Dealt(i)'
    <3> SUFFICES ASSUME NEW i \in 1 .. Passed'
                 PROVE  Dealt(i)'
      OBVIOUS
    <3>1. CASE i \in 1 .. Passed
      BY <1>1, <1>2, <1>3, <3>1, DealtKept
    <3>2. CASE i \notin 1 .. Passed
      <4>1. i = h
        BY <1>2, <1>3, <2>1, <3>2
      <4> QED
        BY <1>3, <4>1
    <3> QED
      BY <3>1, <3>2
  <2> QED
    BY <1>3, <2>1, <2>2 DEF BatchBookkeeping
\* Nothing but the topic, the time, the profiles or the endpoint's answer.
<1>4. ASSUME UNCHANGED <<thread, taken, offset, batch, why, rows>>,
             stage' # "new" => stage # "new" /\ Report' = Report
      PROVE  BatchBookkeeping'
  <2>1. Passed' = Passed /\ \A i : Dealt(i)' = Dealt(i)
    BY <1>4 DEF Passed, Dealt, Copies
  <2>2. stage' # "new" => Copies(Head(batch))' # {}
    BY <1>1, <1>4 DEF Copies
  <2> QED
    BY <1>1, <1>4, <2>1, <2>2 DEF BatchBookkeeping
<1>5. ASSUME NEW who, NEW score, NEW ts, Publishes(who, score, ts)
      PROVE  BatchBookkeeping'
  <2>1. /\ UNCHANGED <<thread, taken, offset, batch, stage, why, rows>>
        /\ topic' = Append(topic, [who |-> who, score |-> score, ts |-> ts])
    BY <1>5 DEF Publishes, workVars
  <2>2. stage # "new" => Report' = Report
    <3>1. stage # "new" => Head(batch) \in 1 .. Len(topic)
      BY <1>0, InHand
    <3>2. \A i \in 1 .. Len(topic) : topic'[i] = topic[i]
      BY <1>0, <2>1
    <3> QED
      BY <2>1, <3>1, <3>2 DEF Report
  <2> QED
    BY <1>4, <2>1, <2>2
<1>6. ASSUME NEW who, NEW score, NEW broker, SubmitReport(who, score, broker)
      PROVE  BatchBookkeeping'
  <2>1. UNCHANGED <<topic, thread, offset, taken, batch, stage, rows, why>>
    BY <1>6, SubmitIsRefused
  <2> QED
    BY <1>4, <2>1 DEF Report
<1>7. CASE Start
  <2>1. /\ UNCHANGED <<offset, batch, stage, rows>>
        /\ thread = "down" /\ thread' = "up"
        /\ taken' = IF offset = Nowhere THEN Len(topic) ELSE offset
        /\ why' = [i \in DOMAIN why |->
                     IF offset = Nowhere /\ i <= Len(topic) THEN "unseen"
                                                           ELSE why[i]]
    BY <1>7 DEF Start
  <2>2. batch' = <<>> /\ stage' = "new" /\ Len(batch') = 0
    BY <1>0, <1>1, <1>2, <2>1
  <2>3. Passed' = taken' /\ Passed = offset
    BY <1>0, <2>1, <2>2 DEF Passed
  <2>4. ASSUME NEW i \in 1 .. taken'
        PROVE  Dealt(i)'
    <3>1. CASE offset = Nowhere
      <4>1. i \in DOMAIN why /\ i <= Len(topic)
        BY <1>0, <2>1, <3>1
      <4>2. why'[i] = "unseen"
        BY <2>1, <3>1, <4>1
      <4> QED
        BY <4>2 DEF Dealt
    <3>2. CASE offset # Nowhere
      <4>1. i \in 1 .. Passed /\ i \in DOMAIN why
        BY <1>0, <1>2, <2>1, <2>3, <3>2
      <4>2. Dealt(i) /\ why'[i] = why[i] /\ i \in 1 .. MaxReports
        BY <1>1, <1>2, <2>1, <3>2, <4>1
      <4> QED
        BY <2>1, <4>2, DealtKept
    <3> QED
      BY <3>1, <3>2
  <2>5. DOMAIN batch' = {}
    BY <2>2
  <2>6. offset' <= taken' - Len(batch')
    BY <1>0, <2>1, <2>2 DEF Nowhere
  <2> QED
    BY <2>1, <2>2, <2>3, <2>4, <2>5, <2>6 DEF BatchBookkeeping
<1>8. ASSUME NEW n \in 0 .. MaxReports, Poll(n)
      PROVE  BatchBookkeeping'
  <2>1. /\ UNCHANGED <<thread, rows, why>> /\ thread = "up" /\ batch = <<>>
        /\ offset' \in {offset, taken} /\ taken' = taken + n
        /\ batch' = [i \in 1 .. n |-> taken + i] /\ stage' = "new"
    BY <1>8 DEF Poll
  <2>2. n \in Nat /\ Len(batch') = n /\ DOMAIN batch' = 1 .. n
    <3>1. n \in Nat
      BY <1>0
    <3> QED
      BY <2>1, <3>1
  <2>3. taken' - Len(batch') = taken /\ Passed' = taken /\ Passed = taken
    <3>1. Len(batch) = 0
      BY <1>2, <2>1
    <3> QED
      BY <1>0, <2>1, <2>2, <3>1 DEF Passed
  <2>4. \A i \in DOMAIN batch' : batch'[i] = taken' - Len(batch') + i
    BY <2>1, <2>2, <2>3
  <2>5. offset' <= taken' - Len(batch')
    BY <1>0, <2>1, <2>3 DEF Nowhere
  <2>6. \A i \in 1 .. Passed' : Dealt(i)'
    BY <1>1, <2>1, <2>3 DEF Dealt, Copies
  <2> QED
    BY <2>1, <2>4, <2>5, <2>6 DEF BatchBookkeeping
<1>9. CASE Close \/ Crash
  <2>1. /\ UNCHANGED <<taken, rows, why>> /\ thread' = "down" /\ thread = "up"
        /\ batch' = <<>> /\ stage' = "new"
        /\ \/ offset' = offset
           \/ batch = <<>> /\ offset' = taken
    BY <1>0, <1>9 DEF Close, Crash, workVars
  <2>2. Passed' = offset' /\ offset' <= Passed /\ offset' \in Int
    BY <1>0, <1>1, <1>2, <2>1 DEF Passed
  <2>3. \A i \in 1 .. Passed' : Dealt(i)'
    <3>1. \A i \in 1 .. Passed' : i \in 1 .. Passed
      BY <1>2, <2>2
    <3> QED
      BY <1>1, <2>1, <3>1 DEF Dealt, Copies
  <2>4. offset' <= taken' - Len(batch') /\ DOMAIN batch' = {}
    BY <1>0, <1>2, <2>1, <2>2
  <2> QED
    BY <2>1, <2>3, <2>4 DEF BatchBookkeeping
<1>10. CASE Skip \/ Fail \/ Behind
  <2>1. /\ UNCHANGED <<thread, offset, taken, rows>>
        /\ batch # <<>> /\ batch' = Tail(batch) /\ stage' = "new"
        /\ \/ stage = "new" /\ \E reason \in {"skipped", "failed", "behind"} :
                 why' = [why EXCEPT ![Head(batch)] = reason]
           \/ stage # "new" /\ why' = why
    BY <1>10, GivingUp
  <2>2. PICK h \in 1 .. MaxReports : h = Head(batch)
    BY <1>0, <2>1, InHand
  <2>3. \A i \in 1 .. MaxReports : why'[i] = why[i] \/ why'[i] # "none"
    BY <1>0, <2>1, <2>2
  <2>4. Dealt(h)'
    <3>1. CASE stage = "new"
      <4>1. why'[h] # "none"
        BY <1>0, <2>1, <2>2, <3>1
      <4> QED
        BY <4>1 DEF Dealt
    <3>2. CASE stage # "new"
      <4>1. Dealt(h)
        BY <1>1, <2>2, <3>2 DEF Dealt
      <4> QED
        BY <2>1, <2>3, <4>1, DealtKept
    <3> QED
      BY <3>1, <3>2
  <2> QED
    BY <1>3, <2>1, <2>2, <2>3, <2>4
<1>11. CASE Store
  <2>1. /\ UNCHANGED <<topic, thread, offset, taken, why>>
        /\ stage = "new" /\ batch # <<>>
        /\ \/ batch' = Tail(batch) /\ stage' = "new"
           \/ /\ Report.who # Anonymous
              /\ batch' = batch /\ stage' = "stored"
    BY <1>11, Storing
  <2>2. PICK r \in Row : rows' = Append(rows, r) /\ r.from = Head(batch)
    BY <1>11, Storing
  <2>3. PICK h : h = Head(batch)
    OBVIOUS
  <2>4. Copies(h)' # {}
    BY <1>0, <2>2, <2>3, OneRowMore
  <2>5. Dealt(h)'
    BY <2>4 DEF Dealt
  <2>6. CASE batch' = Tail(batch) /\ stage' = "new"
    BY <1>3, <2>1, <2>2, <2>3, <2>5, <2>6
  <2>7. CASE Report.who # Anonymous /\ batch' = batch /\ stage' = "stored"
    <3>1. Passed' = Passed
      BY <2>1, <2>7 DEF Passed
    <3>2. \A i \in 1 .. Passed' : Dealt(i)'
      BY <1>1, <1>2, <2>1, <2>2, <3>1, DealtKept
    <3>3. Head(batch') = h /\ Report' = Report
      BY <2>1, <2>3, <2>7 DEF Report
    <3>4. Copies(Head(batch))' # {}
      BY <2>4, <3>3 DEF Copies
    <3> QED
      BY <1>1, <2>1, <2>7, <3>2, <3>3, <3>4 DEF BatchBookkeeping
  <2> QED
    BY <2>1, <2>6, <2>7
<1>12. CASE CreateProfile
  <2>1. UNCHANGED <<topic, thread, offset, taken, batch, rows, why>>
    BY <1>12 DEF CreateProfile
  <2>2. stage # "new"
    BY <1>12 DEF CreateProfile
  <2> QED
    BY <1>4, <2>1, <2>2 DEF Report
<1>13. CASE AdjustTrust
  <2>1. /\ UNCHANGED <<thread, offset, taken, rows, why>>
        /\ stage # "new" /\ batch' = Tail(batch) /\ stage' = "new"
    BY <1>13 DEF AdjustTrust, NextReport
  <2>2. PICK h : h = Head(batch)
    OBVIOUS
  <2>3. Dealt(h)'
    BY <1>1, <2>1, <2>2 DEF Dealt, Copies
  <2> QED
    BY <1>0, <1>3, <2>1, <2>2, <2>3
<1>14. CASE Tick \/ UNCHANGED crowdVars
  <2>1. UNCHANGED <<topic, thread, offset, taken, batch, stage, rows, why>>
    BY <1>14 DEF Tick, workVars, crowdVars
  <2> QED
    BY <1>4, <2>1 DEF Report
<1> QED
  BY <1>5, <1>6, <1>7, <1>8, <1>9, <1>10, <1>11, <1>12, <1>13, <1>14
     DEF CrowdNext

-----------------------------------------------------------------------------
(* Stored once per crash, counted when stored.                              *)

\* Has the thread, or one before it that closed, come past this report?
Past(i) == i <= Passed \/ (stage # "new" /\ i = Head(batch))

\* The steps that store nothing, judge nothing and do not crash.
LEMMA QuietStep ==
    ASSUME CrowdTypeOK, BatchBookkeeping,
           \/ \E who \in Passengers \union {Anonymous}, score \in Scores :
                 \/ \E ts \in 0 .. MaxTime : Publishes(who, score, ts)
                 \/ \E broker \in BOOLEAN : SubmitReport(who, score, broker)
           \/ Start \/ \E n \in 0 .. MaxReports : Poll(n)
           \/ Close \/ Skip \/ Fail \/ Behind \/ Tick \/ UNCHANGED crowdVars
    PROVE  /\ UNCHANGED <<rows, profiles, crashes>>
           /\ stage' # "new" => stage # "new" /\ Report' = Report
           /\ \A i \in Nat : Past(i) => Past(i)'
<1>0. /\ topic \in Seq(Reports) /\ Len(topic) \in Nat /\ MaxReports \in Nat
      /\ thread \in {"up", "down"} /\ taken \in 0 .. Len(topic)
      /\ taken \in Nat /\ offset \in Nowhere .. taken /\ offset \in Int
      /\ Len(batch) \in Nat /\ Len(<<>>) = 0
      /\ stage # "new" => batch # <<>>
      /\ thread = "down" => batch = <<>>
  BY Typed, ConstantsAre, EmptySeq DEF BatchBookkeeping
<1>1. CASE \E who \in Passengers \union {Anonymous}, score \in Scores :
              \E ts \in 0 .. MaxTime : Publishes(who, score, ts)
  <2>1. PICK r : topic' = Append(topic, r)
    BY <1>1 DEF Publishes
  <2>2. UNCHANGED <<thread, taken, offset, batch, stage, rows, profiles,
                    crashes>>
    BY <1>1 DEF Publishes, workVars
  <2>3. stage # "new" => Report' = Report
    <3>1. stage # "new" => Head(batch) \in 1 .. Len(topic)
      BY <1>0, InHand
    <3>2. \A i \in 1 .. Len(topic) : topic'[i] = topic[i]
      BY <1>0, <2>1
    <3> QED
      BY <2>2, <3>1, <3>2 DEF Report
  <2> QED
    BY <2>2, <2>3 DEF Past, Passed
<1>2. CASE \/ Tick \/ UNCHANGED crowdVars
           \/ \E who \in Passengers \union {Anonymous}, score \in Scores :
                 \E broker \in BOOLEAN : SubmitReport(who, score, broker)
  <2>1. UNCHANGED <<topic, thread, offset, taken, batch, stage, rows, profiles,
                    crashes>>
    BY <1>2, SubmitIsRefused DEF Tick, workVars, crowdVars
  <2> QED
    BY <2>1 DEF Past, Passed, Report
<1>3. CASE Start
  <2>1. /\ UNCHANGED <<batch, stage, rows, profiles, crashes>>
        /\ thread = "down" /\ thread' = "up"
        /\ taken' = IF offset = Nowhere THEN Len(topic) ELSE offset
    BY <1>3 DEF Start
  <2>2. /\ stage = "new" /\ Len(batch') = 0 /\ Passed = offset
        /\ Passed' = taken'
    BY <1>0, <2>1 DEF Passed
  <2>3. offset <= taken'
    BY <1>0, <2>1 DEF Nowhere
  <2>4. taken' \in Int
    BY <1>0, <2>1
  <2>5. \A i \in Nat : i <= Passed => i <= Passed'
    BY <1>0, <2>2, <2>3, <2>4
  <2> QED
    BY <2>1, <2>2, <2>5 DEF Past
<1>4. CASE Close \/ \E n \in 0 .. MaxReports : Poll(n)
  <2>1. /\ UNCHANGED <<rows, profiles, crashes>>
        /\ thread = "up" /\ batch = <<>>
    BY <1>4 DEF Close, Poll, workVars
  <2>2. Passed = taken /\ stage = "new"
    BY <1>0, <2>1 DEF Passed
  <2>3. Passed' = taken /\ stage' = "new"
    <3>1. CASE Close
      BY <2>2, <3>1 DEF Close, Passed, workVars
    <3>2. ASSUME NEW n \in 0 .. MaxReports, Poll(n)
          PROVE  Passed' = taken /\ stage' = "new"
      <4>1. /\ thread' = "up" /\ taken' = taken + n /\ stage' = "new"
            /\ batch' = [i \in 1 .. n |-> taken + i]
        BY <2>1, <3>2 DEF Poll
      <4>2. n \in Nat /\ Len(batch') = n
        <5>1. n \in Nat
          BY <1>0
        <5> QED
          BY <4>1, <5>1
      <4>3. taken' - Len(batch') = taken
        BY <1>0, <4>1, <4>2
      <4> QED
        BY <4>1, <4>3 DEF Passed
    <3> QED
      BY <1>4, <3>1, <3>2
  <2> QED
    BY <2>1, <2>2, <2>3 DEF Past
<1>5. CASE Skip \/ Fail \/ Behind
  <2>1. /\ UNCHANGED <<rows, profiles, crashes, thread, taken, offset>>
        /\ batch # <<>> /\ batch' = Tail(batch) /\ stage' = "new"
    BY <1>5, GivingUp
  <2>2. /\ Passed \in Int /\ Head(batch) = Passed + 1 /\ Passed' = Passed + 1
    BY <2>1, HeadDropped
  <2>3. \A i \in Nat : (i <= Passed \/ i = Head(batch)) => i <= Passed'
    BY <2>2
  <2> QED
    BY <2>1, <2>3 DEF Past
<1> QED
  BY <1>1, <1>2, <1>3, <1>4, <1>5

\* The count that is still to come.
Owed(w) == IF stage # "new" /\ Report.who = w THEN 1 ELSE 0

LEMMA CountsBehindIs ==
    /\ CountsBehind <=> \A w \in Passengers :
          Known(w).total + Owed(w) <= Cardinality(RowsOf(w))
    /\ CountsBehind' <=> \A w \in Passengers :
          Known(w)'.total + Owed(w)' <= Cardinality(RowsOf(w))'
  BY DEF CountsBehind, Owed

LEMMA KnownTyped ==
    ASSUME CrowdTypeOK, NEW w
    PROVE  Known(w) \in Profile /\ Known(w).total \in Nat
<1>1. Known(w) \in Profile
  BY Typed, NewEarned DEF Known
<1> QED
  BY <1>1 DEF Profile

LEMMA CountsBehindStep ==
    CrowdTypeOK /\ BatchBookkeeping /\ CountsBehind /\ [CrowdNext]_crowdVars
        => CountsBehind'
<1> SUFFICES ASSUME CrowdTypeOK, BatchBookkeeping, CountsBehind,
                    [CrowdNext]_crowdVars, NEW w \in Passengers
             PROVE  Known(w)'.total + Owed(w)' <= Cardinality(RowsOf(w))'
  BY CountsBehindIs
<1>0. /\ Known(w).total \in Nat /\ Owed(w) \in {0, 1} /\ Owed(w)' \in {0, 1}
      /\ Cardinality(RowsOf(w)) \in Nat /\ rows \in Seq(Row)
      /\ Known(w).total + Owed(w) <= Cardinality(RowsOf(w))
  BY KnownTyped, RowsCounted, CountsBehindIs, Typed DEF Owed
\* Nothing stored, nothing counted.
<1>1. ASSUME UNCHANGED <<rows, profiles>>,
             stage' # "new" => stage # "new" /\ Report' = Report
      PROVE  Known(w)'.total + Owed(w)' <= Cardinality(RowsOf(w))'
  <2>1. Owed(w)' <= Owed(w)
    BY <1>1 DEF Owed
  <2>2. /\ Known(w)' = Known(w)
        /\ Cardinality(RowsOf(w))' = Cardinality(RowsOf(w))
    BY <1>1 DEF Known, RowsOf
  <2>3. Known(w).total + Owed(w)' <= Cardinality(RowsOf(w))
    BY <1>0, <2>1
  <2> QED
    BY <2>2, <2>3
<1>2. CASE \/ \E who \in Passengers \union {Anonymous}, score \in Scores :
                 \/ \E ts \in 0 .. MaxTime : Publishes(who, score, ts)
                 \/ \E broker \in BOOLEAN : SubmitReport(who, score, broker)
           \/ Start \/ \E n \in 0 .. MaxReports : Poll(n)
           \/ Close \/ Skip \/ Fail \/ Behind \/ Tick \/ UNCHANGED crowdVars
  BY <1>1, <1>2, QuietStep
<1>3. CASE Crash
  BY <1>1, <1>3 DEF Crash
<1>4. CASE Store
  <2>1. /\ profiles' = profiles /\ topic' = topic /\ stage = "new"
        /\ \/ stage' = "new"
           \/ batch' = batch /\ stage' = "stored"
    BY <1>4, Storing
  <2>2. PICK r \in Row : rows' = Append(rows, r) /\ r.who = Report.who
    BY <1>4, Storing
  <2>3. Cardinality(RowsOf(w))' = IF r.who = w
                                  THEN Cardinality(RowsOf(w)) + 1
                                  ELSE Cardinality(RowsOf(w))
    BY <1>0, <2>2, OneMoreCounted
  <2>4. Known(w)' = Known(w) /\ Owed(w) = 0
    BY <2>1 DEF Known, Owed
  <2>5. Owed(w)' = 1 => r.who = w
    BY <2>1, <2>2 DEF Owed, Report
  <2>6. PICK k \in Nat, n \in Nat, o \in {0, 1} :
           /\ k = Known(w).total /\ n = Cardinality(RowsOf(w))
           /\ o = Owed(w)'
    BY <1>0
  <2>7. k <= n
    BY <1>0, <2>4, <2>6
  <2>8. k + o <= IF r.who = w THEN n + 1 ELSE n
    BY <2>5, <2>6, <2>7
  <2> QED
    BY <2>3, <2>4, <2>6, <2>8
<1>5. CASE CreateProfile
  <2>1. /\ UNCHANGED <<topic, batch, rows>>
        /\ stage # "new" /\ stage' # "new"
        /\ profiles' = With(Report.who, Known(Report.who))
    BY <1>5 DEF CreateProfile
  <2>2. Known(w)' = Known(w)
    BY <2>1 DEF Known, With
  <2>3. Owed(w)' = Owed(w)
    BY <2>1 DEF Owed, Report
  <2>4. Cardinality(RowsOf(w))' = Cardinality(RowsOf(w))
    BY <2>1 DEF RowsOf
  <2> QED
    BY <1>0, <2>2, <2>3, <2>4
<1>6. CASE AdjustTrust
  <2>1. /\ rows' = rows /\ stage = "profiled" /\ stage' = "new"
        /\ profiles' = With(Report.who,
                            Judged(profiles[Report.who], Report.score,
                                   Others(Report.who)))
    BY <1>6 DEF AdjustTrust, NextReport
  <2>2. PICK q : q = Judged(profiles[Report.who], Report.score,
                            Others(Report.who))
    OBVIOUS
  <2>3. Report.who \in DOMAIN profiles /\ profiles[Report.who] \in Profile
    BY <2>1, Typed
  <2>4. q.total = profiles[Report.who].total + 1
    BY <2>2, <2>3, JudgedIs
  <2>5. Known(w)'.total = IF Report.who = w THEN Known(w).total + 1
                                            ELSE Known(w).total
    BY <2>1, <2>2, <2>3, <2>4 DEF Known, With
  <2>6. /\ Owed(w)' = 0 /\ Owed(w) = IF Report.who = w THEN 1 ELSE 0
        /\ Cardinality(RowsOf(w))' = Cardinality(RowsOf(w))
    BY <2>1 DEF Owed, RowsOf
  <2>7. Known(w)'.total + Owed(w)' = Known(w).total + Owed(w)
    BY <1>0, <2>5, <2>6
  <2> QED
    BY <1>0, <2>6, <2>7
<1> QED
  BY <1>2, <1>3, <1>4, <1>5, <1>6 DEF CrowdNext

LEMMA StoredAheadIs ==
    /\ StoredAhead <=> \A i \in DOMAIN topic :
          Cardinality(Copies(i)) <= crashes + (IF Past(i) THEN 1 ELSE 0)
    /\ StoredAhead' <=> \A i \in DOMAIN topic' :
          Cardinality(Copies(i))' <= crashes' + (IF Past(i)' THEN 1 ELSE 0)
  BY DEF StoredAhead, Past

LEMMA StoredAheadStep ==
    CrowdTypeOK /\ BatchBookkeeping /\ StoredAhead /\ [CrowdNext]_crowdVars
        => StoredAhead'
<1> SUFFICES ASSUME CrowdTypeOK, BatchBookkeeping, StoredAhead,
                    [CrowdNext]_crowdVars, NEW i \in DOMAIN topic'
             PROVE  Cardinality(Copies(i))'
                       <= crashes' + (IF Past(i)' THEN 1 ELSE 0)
  BY StoredAheadIs
<1>0. /\ topic \in Seq(Reports) /\ Len(topic) \in Nat
      /\ rows \in Seq(Row) /\ crashes \in Nat
      /\ Cardinality(Copies(i)) \in Nat
  BY Typed, RowsCounted
\* A report that was not on the topic before has no copy.
<1>1. /\ i \in Nat
      /\ Cardinality(Copies(i)) <= crashes + (IF Past(i) THEN 1 ELSE 0)
  <2>1. i \in Nat
    <3>1. topic' = topic \/ \E r : topic' = Append(topic, r)
      BY SubmitIsRefused
         DEF CrowdNext, Publishes, Start, Poll, Close, Crash, Skip, Store,
             Fail, Behind, CreateProfile, AdjustTrust, Tick, crowdVars
    <3> QED
      BY <1>0, <3>1
  <2>2. CASE i \in DOMAIN topic
    BY <2>1, <2>2, StoredAheadIs
  <2>3. CASE i \notin DOMAIN topic
    <3>1. Copies(i) = {}
      <4>1. \A n \in DOMAIN rows : /\ rows[n] \in Row
                                   /\ rows[n].from <= Len(topic)
        BY Typed
      <4>2. \A n \in DOMAIN rows : rows[n].from \in 1 .. Len(topic)
        BY <1>0, <4>1, ConstantsAre DEF Row
      <4> QED
        BY <1>0, <2>3, <4>2 DEF Copies
    <3>2. Cardinality(Copies(i)) = 0
      BY <3>1, FS_EmptySet
    <3> QED
      BY <1>0, <2>1, <3>2
  <2> QED
    BY <2>2, <2>3
<1>2. ASSUME rows' = rows, crashes' = crashes, Past(i) => Past(i)'
      PROVE  Cardinality(Copies(i))'
                <= crashes' + (IF Past(i)' THEN 1 ELSE 0)
  <2>1. Cardinality(Copies(i))' = Cardinality(Copies(i))
    BY <1>2 DEF Copies
  <2> QED
    BY <1>0, <1>1, <1>2, <2>1
<1>3. CASE \/ \E who \in Passengers \union {Anonymous}, score \in Scores :
                 \/ \E ts \in 0 .. MaxTime : Publishes(who, score, ts)
                 \/ \E broker \in BOOLEAN : SubmitReport(who, score, broker)
           \/ Start \/ \E n \in 0 .. MaxReports : Poll(n)
           \/ Close \/ Skip \/ Fail \/ Behind \/ Tick \/ UNCHANGED crowdVars
  BY <1>1, <1>2, <1>3, QuietStep
<1>4. CASE Crash
  <2>1. rows' = rows /\ crashes' = crashes + 1
    BY <1>4 DEF Crash
  <2>2. Cardinality(Copies(i))' = Cardinality(Copies(i))
    BY <2>1 DEF Copies
  <2> QED
    BY <1>0, <1>1, <2>1, <2>2
<1>5. CASE Store
  <2>1. /\ UNCHANGED <<thread, offset, taken, crashes>>
        /\ stage = "new" /\ batch # <<>>
        /\ \/ batch' = Tail(batch) /\ stage' = "new"
           \/ batch' = batch /\ stage' = "stored"
    BY <1>5, Storing
  <2>2. PICK r \in Row : rows' = Append(rows, r) /\ r.from = Head(batch)
    BY <1>5, Storing
  <2>3. Cardinality(Copies(i))' = IF Head(batch) = i
                                  THEN Cardinality(Copies(i)) + 1
                                  ELSE Cardinality(Copies(i))
    BY <1>0, <2>2, OneMoreCounted
  <2>4. /\ Passed \in Int /\ Head(batch) = Passed + 1
        /\ \/ Passed' = Passed + 1
           \/ Passed' = Passed /\ stage' # "new" /\ Head(batch') = Head(batch)
    <3>1. CASE batch' = Tail(batch)
      BY <2>1, <3>1, HeadDropped
    <3>2. CASE batch' = batch /\ stage' = "stored"
      <4>1. Passed' = Passed
        BY <2>1, <3>2 DEF Passed
      <4>2. Passed \in Int /\ Head(batch) = Passed + 1
        <5>1. /\ thread = "up" /\ taken \in Nat /\ Len(batch) \in Nat
              /\ Head(batch) = taken - Len(batch) + 1
          BY <2>1, Typed, InHand DEF BatchBookkeeping
        <5> QED
          BY <5>1 DEF Passed
      <4> QED
        BY <3>2, <4>1, <4>2
    <3> QED
      BY <2>1, <3>1, <3>2
  <2>5. Past(i) => i <= Passed
    BY <2>1 DEF Past
  <2>6. (i <= Passed \/ i = Head(batch)) => Past(i)'
    BY <1>1, <2>4 DEF Past
  <2>7. Head(batch) = i => ~Past(i)
    BY <1>1, <2>4, <2>5
  <2> QED
    BY <1>0, <1>1, <2>1, <2>3, <2>5, <2>6, <2>7
<1>6. CASE CreateProfile
  <2>1. /\ UNCHANGED <<thread, offset, taken, batch, rows, crashes>>
        /\ stage # "new" /\ stage' # "new"
    BY <1>6 DEF CreateProfile
  <2> QED
    BY <1>2, <2>1 DEF Past, Passed
<1>7. CASE AdjustTrust
  <2>1. /\ UNCHANGED <<thread, offset, taken, rows, crashes>>
        /\ stage # "new" /\ batch' = Tail(batch) /\ batch # <<>>
    BY <1>7, Typed DEF AdjustTrust, NextReport
  <2>2. Passed \in Int /\ Head(batch) = Passed + 1 /\ Passed' = Passed + 1
    BY <2>1, HeadDropped
  <2>3. Past(i) => Past(i)'
    BY <1>1, <2>2 DEF Past
  <2> QED
    BY <1>2, <2>1, <2>3
<1> QED
  BY <1>3, <1>4, <1>5, <1>6, <1>7 DEF CrowdNext

-----------------------------------------------------------------------------
(* Trust is earned.                                                         *)

LEMMA TrustIsEarnedStep ==
    CrowdTypeOK /\ TrustIsEarned /\ [CrowdNext]_crowdVars => TrustIsEarned'
<1> SUFFICES ASSUME CrowdTypeOK, TrustIsEarned, [CrowdNext]_crowdVars
             PROVE  \A w \in DOMAIN profiles' : Earned(profiles'[w])
  BY DEF TrustIsEarned, Earned
<1>0. \A w \in DOMAIN profiles : profiles[w] \in Profile /\ Earned(profiles[w])
  BY Typed DEF TrustIsEarned, Earned
<1>1. CASE CreateProfile
  <2>1. profiles' = With(Report.who, Known(Report.who))
    BY <1>1 DEF CreateProfile
  <2>2. Earned(Known(Report.who))
    BY <1>0, NewEarned DEF Known
  <2> QED
    BY <1>0, <2>1, <2>2 DEF With
<1>2. CASE AdjustTrust
  <2>1. /\ stage = "profiled"
        /\ profiles' = With(Report.who,
                            Judged(profiles[Report.who], Report.score,
                                   Others(Report.who)))
    BY <1>2 DEF AdjustTrust
  <2>2. PICK q : q = Judged(profiles[Report.who], Report.score,
                            Others(Report.who))
    OBVIOUS
  <2>3. Report.who \in DOMAIN profiles
    BY <2>1, Typed
  <2>4. Earned(q)
    BY <1>0, <2>2, <2>3, JudgedEarned
  <2> QED
    BY <1>0, <2>1, <2>2, <2>4 DEF With
<1>3. CASE UNCHANGED profiles
  BY <1>0, <1>3
<1> QED
  BY <1>1, <1>2, <1>3, SubmitIsRefused
     DEF CrowdNext, Publishes, Start, Poll, Close, Crash, Skip, Store, Fail,
         Behind, Tick, workVars, crowdVars

-----------------------------------------------------------------------------
\* Whatever is replayed, fails or stops between the commits of a report and of
\* its count: the trust in a passenger is earned, a report is stored once per
\* crash at most and is counted only when stored, and the offset passes none
\* that was not dealt with; for any passengers, scores, rewards, penalties and
\* bounds (_process_message, consume_forever, adjust_trust_scores).
THEOREM CrowdCorrect == CrowdSpec => []CrowdInv
<1> DEFINE Inductive == /\ CrowdTypeOK /\ BatchBookkeeping /\ CountsBehind
                        /\ StoredAhead /\ TrustIsEarned
<1>1. CrowdInit => Inductive
  <2> SUFFICES ASSUME CrowdInit
               PROVE  Inductive
    OBVIOUS
  <2>1. /\ topic = <<>> /\ rows = <<>> /\ profiles = <<>> /\ batch = <<>>
        /\ thread = "down" /\ offset = Nowhere /\ taken = 0 /\ stage = "new"
        /\ session = "ok" /\ producer = FALSE /\ reply = "none"
        /\ minute = 0 /\ crashes = 0 /\ faults = 0
        /\ why = [i \in 1 .. MaxReports |-> "none"]
    BY DEF CrowdInit
  <2>2. Len(<<>>) = 0 /\ DOMAIN <<>> = {}
    BY EmptySeq
  <2>3. /\ topic \in Seq(Reports) /\ rows \in Seq(Row)
        /\ batch \in Seq(1 .. taken) /\ Len(topic) = 0 /\ Len(batch) = 0
        /\ DOMAIN topic = {} /\ DOMAIN rows = {} /\ DOMAIN profiles = {}
        /\ DOMAIN batch = {}
    BY <2>1, <2>2, EmptySeq
  <2>4. CrowdTypeOK
    <3>1. /\ Len(topic) <= MaxReports /\ taken \in 0 .. Len(topic)
          /\ offset \in Nowhere .. taken /\ minute \in 0 .. MaxTime
          /\ crashes \in 0 .. MaxCrashes /\ faults \in 0 .. MaxFaults
      BY <2>1, <2>3, ConstantsAre DEF Nowhere
    <3>2. why \in [1 .. MaxReports ->
                     {"none", "unseen", "skipped", "failed", "behind"}]
      BY <2>1
    <3> QED
      BY <2>1, <2>3, <3>1, <3>2 DEF CrowdTypeOK
  <2>5. BatchBookkeeping
    <3>1. Passed = -1 /\ offset <= taken - Len(batch)
      BY <2>1, <2>3 DEF Passed, Nowhere
    <3>2. 1 .. Passed = {}
      BY <3>1
    <3> QED
      BY <2>1, <2>3, <3>1, <3>2 DEF BatchBookkeeping
  <2>6. CountsBehind
    <3> SUFFICES ASSUME NEW w \in Passengers
                 PROVE  Known(w).total + Owed(w) <= Cardinality(RowsOf(w))
      BY CountsBehindIs
    <3>1. Known(w).total = 0 /\ Owed(w) = 0
      BY <2>1, <2>3 DEF Known, NewProfile, Owed
    <3>2. Cardinality(RowsOf(w)) = 0
      <4>1. RowsOf(w) = {}
        BY <2>3 DEF RowsOf
      <4> QED
        BY <4>1, FS_EmptySet
    <3> QED
      BY <3>1, <3>2
  <2>7. StoredAhead
    BY <2>3 DEF StoredAhead
  <2>8. TrustIsEarned
    BY <2>3 DEF TrustIsEarned
  <2> QED
    BY <2>4, <2>5, <2>6, <2>7, <2>8
<1>2. Inductive /\ [CrowdNext]_crowdVars => Inductive'
  BY CrowdTypeStep, BatchBookkeepingStep, CountsBehindStep, StoredAheadStep,
     TrustIsEarnedStep
<1>3. Inductive => CrowdInv
  <2> SUFFICES ASSUME Inductive
               PROVE  CountedIsStored /\ StoredOncePerCrash
                         /\ CommittedIsHandled
    BY DEF CrowdInv
  <2>1. CountedIsStored
    <3> SUFFICES ASSUME NEW w \in DOMAIN profiles
                 PROVE  profiles[w].total <= Cardinality(RowsOf(w))
      BY DEF CountedIsStored
    <3>1. /\ w \in Passengers /\ Known(w) = profiles[w]
          /\ Known(w).total \in Nat /\ Owed(w) \in {0, 1}
          /\ Cardinality(RowsOf(w)) \in Nat
      BY Typed, KnownTyped, RowsCounted DEF Known, Owed
    <3>2. Known(w).total + Owed(w) <= Cardinality(RowsOf(w))
      BY <3>1, CountsBehindIs
    <3>3. Known(w).total <= Cardinality(RowsOf(w))
      BY <3>1, <3>2
    <3> QED
      BY <3>1, <3>3
  <2>2. StoredOncePerCrash
    <3> SUFFICES ASSUME NEW i \in DOMAIN topic
                 PROVE  Cardinality(Copies(i)) <= 1 + crashes
      BY DEF StoredOncePerCrash
    <3>1. crashes \in Nat /\ Cardinality(Copies(i)) \in Nat
      BY Typed, RowsCounted
    <3>2. Cardinality(Copies(i)) <= crashes + (IF Past(i) THEN 1 ELSE 0)
      BY StoredAheadIs
    <3> QED
      BY <3>1, <3>2
  <2>3. CommittedIsHandled
    <3>1. /\ offset \in Int /\ taken \in Nat /\ Len(batch) \in Nat
          /\ thread \in {"up", "down"}
      BY Typed
    <3>2. offset <= Passed /\ Passed \in Int
      BY <3>1 DEF BatchBookkeeping, Passed
    <3>3. \A i \in 1 .. offset : i \in 1 .. Passed
      BY <3>1, <3>2
    <3> QED
      BY <3>3 DEF BatchBookkeeping, CommittedIsHandled
  <2> QED
    BY <2>1, <2>2, <2>3
<1> QED
  BY <1>1, <1>2, <1>3, PTL DEF CrowdSpec

-----------------------------------------------------------------------------
(* Sums over a finite set.                                                  *)

\* The set without the element that a sum adds first, and g as the sums of
\* f over the subsets of S that have at most n elements.
First(s) == CHOOSE x \in s : TRUE
Rest(s) == s \ {First(s)}
SumStep(f, g, s) == IF s = {} THEN 0 ELSE f[First(s)] + g[Rest(s)]
Sums(f, g, S) == /\ g \in [SUBSET S -> Nat]
                 /\ SumFunctionOnSet(f, S) = g[S]
                 /\ \A s \in SUBSET S : g[s] = SumStep(f, g, s)
SumsUpTo(f, g, S, n) == \A s \in SUBSET S :
                           Cardinality(s) <= n => g[s] = SumStep(f, g, s)

LEMMA RestIsSmaller ==
    ASSUME NEW S, IsFiniteSet(S), NEW s \in SUBSET S, s # {}
    PROVE  /\ First(s) \in s /\ First(s) \notin Rest(s)
           /\ Rest(s) \in SUBSET S /\ s = Rest(s) \union {First(s)}
           /\ Cardinality(s) \in Nat /\ Cardinality(Rest(s)) \in Nat
           /\ Cardinality(Rest(s)) = Cardinality(s) - 1
<1>1. First(s) \in s
  BY DEF First
<1>2. IsFiniteSet(s)
  BY FS_Subset
<1>3. IsFiniteSet(Rest(s))
  BY <1>2, FS_Subset DEF Rest
<1>4. Cardinality(Rest(s)) = Cardinality(s) - 1
  BY <1>1, <1>2, FS_RemoveElement DEF Rest
<1>5. QED
  BY <1>1, <1>2, <1>3, <1>4, FS_CardinalityType DEF Rest

\* For every size there is a function that has the sums of the sets up to it.
LEMMA SumsExist ==
    ASSUME NEW S, IsFiniteSet(S), NEW f, \A x \in S : f[x] \in Nat,
           NEW n \in Nat
    PROVE  \E g \in [SUBSET S -> Nat] : SumsUpTo(f, g, S, n)
<1> DEFINE G == [SUBSET S -> Nat]
           Bad == {k \in Nat : ~ \E g \in G : SumsUpTo(f, g, S, k)}
<1>1. SUFFICES ASSUME Bad # {} PROVE FALSE
  OBVIOUS
<1>2. PICK k \in Bad : \A m \in Bad : k <= m
  BY <1>1, LeastNat
<1>3. \A s \in SUBSET S : Cardinality(s) \in Nat
  BY FS_Subset, FS_CardinalityType
<1>4. \A s \in SUBSET S : Cardinality(s) = 0 => s = {}
  BY FS_Subset, FS_EmptySet
<1>5. CASE k = 0
  <2>1. PICK g \in G : g = [s \in SUBSET S |-> 0]
    OBVIOUS
  <2>2. SumsUpTo(f, g, S, 0)
    BY <2>1, <1>3, <1>4 DEF SumsUpTo, SumStep
  <2>3. QED
    BY <1>5, <2>2
<1>6. CASE k # 0
  <2>9. k \in Nat /\ \A m \in Bad : m \in Nat
    BY <1>2
  <2>1. k - 1 \in Nat /\ k - 1 < k
    BY <1>2, <1>6
  <2>8. k - 1 \notin Bad
    <3> HIDE DEF Bad
    <3> QED
      BY <1>2, <2>1, <2>9
  <2>2. PICK g \in G : SumsUpTo(f, g, S, k - 1)
    BY <2>1, <2>8
  <2> DEFINE h == [s \in SUBSET S |-> IF Cardinality(s) = k
                                      THEN SumStep(f, g, s) ELSE g[s]]
  <2>3. \A s \in SUBSET S : SumStep(f, g, s) \in Nat
    BY RestIsSmaller DEF SumStep
  <2>4. h \in G
    BY <2>3
  <2>5. ASSUME NEW s \in SUBSET S, Cardinality(s) <= k
        PROVE  h[s] = SumStep(f, h, s)
    <3>1. s # {} => h[Rest(s)] = g[Rest(s)]
      BY <2>5, <1>2, RestIsSmaller
    <3>2. SumStep(f, h, s) = SumStep(f, g, s)
      BY <3>1 DEF SumStep
    <3>3. CASE Cardinality(s) = k
      BY <3>2, <3>3
    <3>4. CASE Cardinality(s) # k
      <4>1. Cardinality(s) <= k - 1
        BY <1>2, <1>3, <2>5, <3>4
      <4>2. g[s] = SumStep(f, g, s)
        BY <4>1, <2>2 DEF SumsUpTo
      <4>3. QED
        BY <3>2, <3>4, <4>2
    <3>5. QED
      BY <3>3, <3>4
  <2>6. SumsUpTo(f, h, S, k)
    BY <2>5 DEF SumsUpTo
  <2>7. QED
    BY <1>2, <2>4, <2>6
<1>7. QED
  BY <1>5, <1>6

\* The sum over a finite set, as a function of its subsets.
LEMMA SumIs ==
    ASSUME NEW S, IsFiniteSet(S), NEW f, \A x \in S : f[x] \in Nat
    PROVE  \E g : Sums(f, g, S)
<1> DEFINE Is(g) == g = [s \in SUBSET S |-> SumStep(f, g, s)]
           sum == CHOOSE g : Is(g)
<1>1. SumFunctionOnSet(f, S) = sum[S]
  BY DEF SumFunctionOnSet, FoldFunctionOnSet, MapThenFoldSet, SumStep, First,
         Rest
<1>2. \A s \in SUBSET S : Cardinality(s) \in Nat
  BY FS_Subset, FS_CardinalityType
<1>3. PICK g \in [SUBSET S -> Nat] : SumsUpTo(f, g, S, Cardinality(S))
  BY <1>2, SumsExist
<1>4. Is(g)
  <2>1. \A s \in SUBSET S : g[s] = SumStep(f, g, s)
    BY <1>3, <1>2, FS_Subset DEF SumsUpTo
  <2>2. QED
    BY <2>1
<1>5. Is(sum)
  BY <1>4
<1>6. \A s \in SUBSET S : sum[s] = SumStep(f, sum, s)
  BY <1>5 DEF Is
<1> HIDE DEF sum, Is
<1>7. sum \in [SUBSET S -> Nat]
  <2> DEFINE Bad == {Cardinality(s) : s \in {t \in SUBSET S :
                                                sum[t] \notin Nat}}
  <2>1. SUFFICES ASSUME Bad # {} PROVE FALSE
    BY <1>5 DEF Is
  <2>9. Bad \in SUBSET Nat
    BY <1>2
  <2>2. PICK k \in Bad : \A m \in Bad : k <= m
    BY <2>1, <2>9, LeastNat
  <2>3. PICK s \in SUBSET S : sum[s] \notin Nat /\ Cardinality(s) = k
    BY <2>2
  <2>4. s # {}
    <3>1. s = {} => sum[s] = 0
      BY <1>6 DEF SumStep
    <3>2. QED
      BY <3>1, <2>3
  <2>10. k \in Nat /\ \A m \in Bad : m \in Nat
    BY <2>2, <2>9
  <2>5. /\ Rest(s) \in SUBSET S /\ First(s) \in s
        /\ Cardinality(Rest(s)) = k - 1 /\ k \in Nat
    BY <2>3, <2>4, RestIsSmaller
  <2>6. sum[Rest(s)] \in Nat
    <3>1. k - 1 \notin Bad
      <4> HIDE DEF Bad
      <4> QED
        BY <2>2, <2>5, <2>10
    <3>2. QED
      BY <2>5, <3>1
  <2>7. sum[s] = f[First(s)] + sum[Rest(s)]
    BY <1>6, <2>4 DEF SumStep
  <2>8. QED
    BY <2>3, <2>5, <2>6, <2>7
<1>8. QED
  BY <1>1, <1>6, <1>7 DEF Sums
LEMMA TimesIsMonotone ==
    ASSUME NEW a \in Nat, NEW b \in Nat, NEW c \in Nat, a <= b
    PROVE  a * c <= b * c /\ a * c \in Nat /\ b * c \in Nat
<1>1. PICK d \in Nat : b = a + d
  BY b - a \in Nat
<1>2. b * c = a * c + d * c /\ d * c \in Nat /\ a * c \in Nat
  BY <1>1
<1>3. QED
  BY <1>2

\* A weighted value more keeps a sum between the bounds of its values.
LEMMA WeighOneMore ==
    ASSUME NEW lo \in Nat, NEW hi \in Nat, NEW v \in Nat, NEW w \in Nat,
           NEW W \in Nat, NEW P \in Nat,
           lo <= v, v <= hi, lo * W <= P, P <= hi * W
    PROVE  lo * (w + W) <= v * w + P /\ v * w + P <= hi * (w + W)
<1>1. lo * w <= v * w /\ v * w <= hi * w
  BY TimesIsMonotone
<1>2. lo * (w + W) = lo * w + lo * W /\ hi * (w + W) = hi * w + hi * W
  OBVIOUS
<1>3. /\ lo * w \in Nat /\ v * w \in Nat /\ hi * w \in Nat
      /\ lo * W \in Nat /\ hi * W \in Nat
  BY TimesIsMonotone
<1>4. QED
  BY <1>1, <1>2, <1>3

\* A weighted sum lies between the bounds of the values, times the weights.
LEMMA WeightedBetween ==
    ASSUME NEW S, IsFiniteSet(S), NEW w, NEW p, NEW v,
           NEW lo \in Nat, NEW hi \in Nat,
           \A x \in S : /\ w[x] \in Nat /\ v[x] \in lo .. hi
                        /\ p[x] = v[x] * w[x]
    PROVE  /\ SumFunctionOnSet(w, S) \in Nat /\ SumFunctionOnSet(p, S) \in Nat
           /\ lo * SumFunctionOnSet(w, S) <= SumFunctionOnSet(p, S)
           /\ SumFunctionOnSet(p, S) <= hi * SumFunctionOnSet(w, S)
<1>1. \A x \in S : w[x] \in Nat /\ v[x] \in Nat /\ lo <= v[x] /\ v[x] <= hi
  OBVIOUS
<1>2. \A x \in S : p[x] \in Nat
  BY <1>1, TimesIsMonotone
<1>3. PICK W : Sums(w, W, S)
  BY <1>1, SumIs
<1>4. PICK P : Sums(p, P, S)
  BY <1>2, SumIs
<1> DEFINE Good(s) == lo * W[s] <= P[s] /\ P[s] <= hi * W[s]
           Bad == {Cardinality(s) : s \in {t \in SUBSET S : ~ Good(t)}}
<1>5. \A s \in SUBSET S : Cardinality(s) \in Nat
  BY FS_Subset, FS_CardinalityType
<1>6. Bad = {}
  <2>1. SUFFICES ASSUME Bad # {} PROVE FALSE
    OBVIOUS
  <2>2. Bad \in SUBSET Nat
    BY <1>5
  <2>3. PICK k \in Bad : \A m \in Bad : k <= m
    BY <2>1, <2>2, LeastNat
  <2>4. k \in Nat /\ \A m \in Bad : m \in Nat
    BY <2>2, <2>3
  <2>5. PICK s \in SUBSET S : ~ Good(s) /\ Cardinality(s) = k
    BY <2>3
  <2>6. s # {}
    <3>1. s = {} => W[s] = 0 /\ P[s] = 0
      BY <1>3, <1>4 DEF Sums, SumStep
    <3>2. QED
      BY <3>1, <2>5
  <2>7. /\ Rest(s) \in SUBSET S /\ First(s) \in s
        /\ Cardinality(Rest(s)) = k - 1
    BY <2>5, <2>6, RestIsSmaller
  <2>8. Good(Rest(s))
    <3>1. k - 1 \notin Bad
      <4> HIDE DEF Bad
      <4> QED
        BY <2>3, <2>4
    <3>2. QED
      BY <2>7, <3>1
  <2>9. /\ W[s] = w[First(s)] + W[Rest(s)]
        /\ P[s] = p[First(s)] + P[Rest(s)]
    BY <1>3, <1>4, <2>6 DEF Sums, SumStep
  <2>10. Good(s)
    <3>1. /\ w[First(s)] \in Nat /\ v[First(s)] \in Nat
          /\ lo <= v[First(s)] /\ v[First(s)] <= hi
          /\ p[First(s)] = v[First(s)] * w[First(s)]
      BY <1>1, <2>7
    <3>2. W[Rest(s)] \in Nat /\ P[Rest(s)] \in Nat
      BY <1>3, <1>4, <2>7 DEF Sums
    <3>3. QED
      BY <2>8, <2>9, <3>1, <3>2, WeighOneMore
  <2>11. QED
    BY <2>5, <2>10
<1>7. Good(S)
  BY <1>6
<1>8. QED
  BY <1>3, <1>4, <1>7 DEF Sums

\* One for every element is their number.
LEMMA CountIs ==
    ASSUME NEW S, IsFiniteSet(S)
    PROVE  SumFunctionOnSet([x \in S |-> 1], S) = Cardinality(S)
<1> DEFINE w == [x \in S |-> 1]
<1>1. PICK W : Sums(w, W, S)
  BY SumIs
<1> DEFINE Bad == {Cardinality(s) : s \in {t \in SUBSET S :
                                              W[t] # Cardinality(t)}}
<1>2. \A s \in SUBSET S : Cardinality(s) \in Nat
  BY FS_Subset, FS_CardinalityType
<1>3. Bad = {}
  <2>1. SUFFICES ASSUME Bad # {} PROVE FALSE
    OBVIOUS
  <2>2. Bad \in SUBSET Nat
    BY <1>2
  <2>3. PICK k \in Bad : \A m \in Bad : k <= m
    BY <2>1, <2>2, LeastNat
  <2>4. k \in Nat /\ \A m \in Bad : m \in Nat
    BY <2>2, <2>3
  <2>5. PICK s \in SUBSET S : W[s] # Cardinality(s) /\ Cardinality(s) = k
    BY <2>3
  <2>6. s # {}
    BY <1>1, <2>5, FS_EmptySet DEF Sums, SumStep
  <2>7. /\ Rest(s) \in SUBSET S /\ First(s) \in s
        /\ Cardinality(Rest(s)) = k - 1
    BY <2>5, <2>6, RestIsSmaller
  <2>8. W[Rest(s)] = k - 1
    <3>1. k - 1 \notin Bad
      <4> HIDE DEF Bad
      <4> QED
        BY <2>3, <2>4
    <3>2. QED
      BY <2>7, <3>1
  <2>9. W[s] = w[First(s)] + W[Rest(s)] /\ w[First(s)] = 1
    BY <1>1, <2>6, <2>7 DEF Sums, SumStep
  <2>10. QED
    BY <2>4, <2>5, <2>8, <2>9
<1>4. QED
  BY <1>1, <1>3 DEF Sums

-----------------------------------------------------------------------------
(* The prediction.                                                          *)

\* The lowest and the highest of some scores.
LEMMA Extremes ==
    ASSUME NEW S \in SUBSET (0 .. 100), S # {}
    PROVE  /\ Min(S) \in S /\ Max(S) \in S
           /\ \A x \in S : Min(S) <= x /\ x <= Max(S)
<1>1. PICK a \in S : \A x \in S : a <= x
  BY LeastNat
<1>2. Min(S) \in S /\ \A x \in S : Min(S) <= x
  BY <1>1 DEF Min
<1> DEFINE T == {100 - x : x \in S}
<1>3. PICK t \in T : \A x \in T : t <= x
  <2>1. T \in SUBSET Nat /\ T # {}
    OBVIOUS
  <2>2. QED
    BY <2>1, LeastNat
<1>4. PICK b \in S : t = 100 - b
  BY <1>3
<1>5. ASSUME NEW x \in S PROVE b >= x
  <2>1. t <= 100 - x
    BY <1>3
  <2>2. b \in 0 .. 100 /\ x \in 0 .. 100
    OBVIOUS
  <2>3. QED
    BY <1>4, <2>1, <2>2
<1>6. Max(S) \in S /\ \A x \in S : Max(S) >= x
  BY <1>5 DEF Max
<1>7. QED
  BY <1>2, <1>6

\* A level follows its score.
LEMMA LabelFollows ==
    ASSUME NEW lo \in 0 .. 100, NEW hi \in 0 .. 100,
           NEW n \in Nat, NEW d \in Nat \ {0}, lo * d <= n, n <= hi * d
    PROVE  Label(n, d) \in Label(lo, 1) .. Label(hi, 1)
<1>1. lo >= 40 => n >= 40 * d
  BY TimesIsMonotone
<1>2. lo >= 75 => n >= 75 * d
  BY TimesIsMonotone
<1>3. hi < 40 => n < 40 * d
  <2>1. SUFFICES ASSUME hi < 40 PROVE n < 40 * d
    OBVIOUS
  <2>2. hi * d <= 39 * d
    BY <2>1, TimesIsMonotone
  <2>3. QED
    BY <2>2
<1>4. hi < 75 => n < 75 * d
  <2>1. SUFFICES ASSUME hi < 75 PROVE n < 75 * d
    OBVIOUS
  <2>2. hi * d <= 74 * d
    BY <2>1, TimesIsMonotone
  <2>3. QED
    BY <2>2
<1>5. lo <= hi
  <2>1. SUFFICES ASSUME hi < lo PROVE FALSE
    OBVIOUS
  <2>2. (hi + 1) * d <= lo * d
    BY <2>1, TimesIsMonotone
  <2>3. (hi + 1) * d = hi * d + d
    OBVIOUS
  <2>4. hi * d \in Nat /\ lo * d \in Nat
    BY TimesIsMonotone
  <2>5. QED
    BY <2>2, <2>3, <2>4
<1>6. QED
  BY <1>1, <1>2, <1>3, <1>4, <1>5 DEF Label

\* Seven parts of a fraction and three of a score are between what both are.
LEMMA BlendBetween ==
    ASSUME NEW lo \in Nat, NEW hi \in Nat, NEW s \in Nat, NEW n \in Nat,
           NEW d \in Nat, lo <= s, s <= hi, lo * d <= n, n <= hi * d
    PROVE  /\ lo * (10 * d) <= 7 * n + 3 * s * d
           /\ 7 * n + 3 * s * d <= hi * (10 * d)
           /\ 7 * n + 3 * s * d \in Nat
<1>1. lo * d <= s * d /\ s * d <= hi * d
  BY TimesIsMonotone
<1>2. s * d \in Nat /\ lo * d \in Nat /\ hi * d \in Nat
  BY TimesIsMonotone
<1>3. /\ lo * (10 * d) = 10 * (lo * d) /\ hi * (10 * d) = 10 * (hi * d)
      /\ 3 * s * d = 3 * (s * d)
  OBVIOUS
<1>4. QED
  BY <1>1, <1>2, <1>3

LEMMA HeardAre ==
    ASSUME CrowdTypeOK
    PROVE  /\ IsFiniteSet(DOMAIN rows)
           /\ \A i \in DOMAIN rows :
                 /\ rows[i].score \in 0 .. 100
                 /\ Score[i] = rows[i].score
                 /\ Trust[i] \in Nat
                 /\ Weighted[i] = rows[i].score * Trust[i]
<1>1. rows \in Seq(Row)
  BY DEF CrowdTypeOK
<1>2. IsFiniteSet(DOMAIN rows) /\ \A i \in DOMAIN rows : rows[i] \in Row
  BY <1>1, LenProperties, ElementOfSeq, FS_Interval
<1>3. \A i \in DOMAIN rows : rows[i].score \in 0 .. 100
  BY <1>2, CrowdAssumption DEF Row
<1>4. \A w : Known(w).trust \in 0 .. 100
  <2>1. \A w \in DOMAIN profiles : profiles[w] \in Profile
    BY DEF CrowdTypeOK
  <2>2. \A w \in DOMAIN profiles : profiles[w].trust \in 0 .. 100
    BY <2>1 DEF Profile
  <2>3. NewProfile.trust \in 0 .. 100
    BY CrowdAssumption DEF NewProfile
  <2>4. QED
    BY <2>2, <2>3 DEF Known
<1>6. \A i \in DOMAIN rows : Trust[i] \in Nat
  BY <1>4, CrowdAssumption DEF Trust
<1>5. QED
  BY <1>2, <1>3, <1>6 DEF Score, Weighted

\* The average is a fraction between the bounds of the scores.
LEMMA AverageBetween ==
    ASSUME CrowdTypeOK, NEW is \in SUBSET DOMAIN rows, is # {},
           NEW lo \in Nat, NEW hi \in Nat,
           \A i \in is : rows[i].score \in lo .. hi
    PROVE  /\ Average(is)[1] \in Nat /\ Average(is)[2] \in Nat \ {0}
           /\ lo * Average(is)[2] <= Average(is)[1]
           /\ Average(is)[1] <= hi * Average(is)[2]
<1>1. IsFiniteSet(is)
  BY HeardAre, FS_Subset
<1> DEFINE one == [i \in is |-> 1]
<1>2. /\ SumFunctionOnSet(Trust, is) \in Nat
      /\ SumFunctionOnSet(Weighted, is) \in Nat
      /\ lo * SumFunctionOnSet(Trust, is) <= SumFunctionOnSet(Weighted, is)
      /\ SumFunctionOnSet(Weighted, is) <= hi * SumFunctionOnSet(Trust, is)
  <2>1. \A i \in is : /\ Trust[i] \in Nat /\ Score[i] \in lo .. hi
                      /\ Weighted[i] = Score[i] * Trust[i]
    BY HeardAre
  <2>2. QED
    BY <1>1, <2>1, WeightedBetween
<1>3. /\ SumFunctionOnSet(one, is) = Cardinality(is)
      /\ Cardinality(is) \in Nat \ {0}
  BY <1>1, CountIs, FS_CardinalityType, FS_EmptySet
<1>4. /\ SumFunctionOnSet(Score, is) \in Nat
      /\ lo * SumFunctionOnSet(one, is) <= SumFunctionOnSet(Score, is)
      /\ SumFunctionOnSet(Score, is) <= hi * SumFunctionOnSet(one, is)
  <2>1. \A i \in is : /\ one[i] \in Nat /\ Score[i] \in lo .. hi
                      /\ Score[i] = Score[i] * one[i]
    BY HeardAre
  <2>2. QED
    BY <1>1, <2>1, WeightedBetween
<1>5. CASE SumFunctionOnSet(Trust, is) > 0
  BY <1>2, <1>5 DEF Average
<1>6. CASE ~ (SumFunctionOnSet(Trust, is) > 0)
  BY <1>3, <1>4, <1>6 DEF Average
<1>7. QED
  BY <1>5, <1>6

\* A prediction lies between the bounds of the scores it listens to.
LEMMA PredictionBetween ==
    ASSUME CrowdTypeOK, NEW when \in 0 .. MaxTime, NEW hist \in Historical,
           NEW lo \in 0 .. 100, NEW hi \in 0 .. 100, lo <= hist, hist <= hi,
           Cardinality(Live(when)) >= Quorum =>
              \A i \in Live(when) : rows[i].score \in lo .. hi
    PROVE  Prediction(when, hist) \in Label(lo, 1) .. Label(hi, 1)
<1>1. hist \in Nat /\ lo * 1 <= hist /\ hist <= hi * 1
  BY DEF Historical
<1>2. IsFiniteSet(Live(when)) /\ Cardinality(Live(when)) \in Nat
  BY HeardAre, FS_Subset, FS_CardinalityType DEF Live
<1>3. CASE Cardinality(Live(when)) < Quorum
  <2>1. PICK d : d = 1
    OBVIOUS
  <2>2. /\ d \in Nat \ {0} /\ hist \in Nat
        /\ lo * d <= hist /\ hist <= hi * d
    BY <1>1, <2>1
  <2>3. Label(hist, d) \in Label(lo, 1) .. Label(hi, 1)
    BY <2>2, LabelFollows
  <2>4. QED
    BY <1>3, <2>1, <2>3 DEF Prediction
<1>4. CASE ~ (Cardinality(Live(when)) < Quorum)
  <2> DEFINE a == Average(Live(when))
  <2>1. Prediction(when, hist) = Label(7 * a[1] + 3 * hist * a[2], 10 * a[2])
    BY <1>4 DEF Prediction
  <2>2. Live(when) # {} /\ Cardinality(Live(when)) >= Quorum
    BY <1>2, <1>4, CrowdAssumption, FS_EmptySet
  <2>3. Live(when) \in SUBSET DOMAIN rows
    BY DEF Live
  <2> HIDE DEF a
  <2>4. /\ a[1] \in Nat /\ a[2] \in Nat \ {0}
        /\ lo * a[2] <= a[1] /\ a[1] <= hi * a[2]
    BY <2>2, <2>3, AverageBetween DEF a
  <2>5. PICK n, d : n = a[1] /\ d = a[2]
    OBVIOUS
  <2>6. /\ lo * (10 * d) <= 7 * n + 3 * hist * d
        /\ 7 * n + 3 * hist * d <= hi * (10 * d)
        /\ 7 * n + 3 * hist * d \in Nat
    <3>1. /\ n \in Nat /\ d \in Nat /\ lo * d <= n /\ n <= hi * d
          /\ lo \in Nat /\ hi \in Nat /\ hist \in Nat
      BY <1>1, <2>4, <2>5
    <3>2. QED
      BY <3>1, BlendBetween
  <2>7. 10 * d \in Nat \ {0}
    BY <2>4, <2>5
  <2>8. Label(7 * n + 3 * hist * d, 10 * d) \in Label(lo, 1) .. Label(hi, 1)
    BY <2>6, <2>7, LabelFollows
  <2>9. QED
    BY <2>1, <2>5, <2>8
<1>5. QED
  BY <1>3, <1>4

\* What is heard of the reports keeps the prediction within them.
LEMMA BlendIsWithin == CrowdTypeOK => BlendWithinReports
<1>1. SUFFICES ASSUME CrowdTypeOK, NEW when \in 0 .. MaxTime,
                      NEW hist \in Historical
               PROVE  LET heard == IF Cardinality(Live(when)) < Quorum THEN {}
                                   ELSE {rows[i].score : i \in Live(when)}
                          all == heard \union {hist}
                      IN  Prediction(when, hist)
                             \in Label(Min(all), 1) .. Label(Max(all), 1)
  BY DEF BlendWithinReports
<1> DEFINE heard == IF Cardinality(Live(when)) < Quorum THEN {}
                    ELSE {rows[i].score : i \in Live(when)}
<1>2. PICK all : all = heard \union {hist}
  OBVIOUS
<1>3. {rows[i].score : i \in Live(when)} \in SUBSET (0 .. 100)
  BY <1>1, HeardAre DEF Live
<1>4. all \in SUBSET (0 .. 100) /\ hist \in 0 .. 100 /\ hist \in all
  <2>1. heard \in SUBSET (0 .. 100)
    BY <1>3
  <2>2. QED
    BY <1>2, <2>1 DEF Historical
<1>5. Cardinality(Live(when)) >= Quorum =>
         \A i \in Live(when) : rows[i].score \in all
  <2>1. IsFiniteSet(Live(when)) /\ Cardinality(Live(when)) \in Nat
    BY <1>1, HeardAre, FS_Subset, FS_CardinalityType DEF Live
  <2>2. QED
    BY <1>2, <2>1, CrowdAssumption
<1>6. PICK lo \in 0 .. 100, hi \in 0 .. 100 :
         /\ lo = Min(all) /\ hi = Max(all) /\ lo <= hist /\ hist <= hi
         /\ \A x \in all : lo <= x /\ x <= hi
  BY <1>4, Extremes
<1>7. ASSUME Cardinality(Live(when)) >= Quorum, NEW i \in Live(when)
      PROVE  rows[i].score \in lo .. hi
  <2>1. rows[i].score \in all
    BY <1>5, <1>7
  <2>2. rows[i].score \in 0 .. 100
    BY <1>4, <2>1
  <2>3. QED
    BY <1>6, <2>1, <2>2
<1>8. Prediction(when, hist) \in Label(lo, 1) .. Label(hi, 1)
  BY <1>1, <1>6, <1>7, PredictionBetween
<1>9. QED
  BY <1>2, <1>6, <1>8

\* For any passengers, scores, trust and history: the level that is predicted
\* lies between the lowest and the highest of the reports it listens to and
\* the historical score (predict, _get_live_reports).
THEOREM BlendCorrect == CrowdSpec => []BlendWithinReports
<1>1. CrowdInv => BlendWithinReports
  BY BlendIsWithin DEF CrowdInv
<1>2. QED
  BY <1>1, CrowdCorrect, PTL

-----------------------------------------------------------------------------
(* Places on the grid.                                                      *)

\* A coordinate that is not beyond two others, and a point in their box.
Amid(x, a, b) == (a <= x /\ x <= b) \/ (b <= x /\ x <= a)
On(q, a, b) == Amid(q[1], a[1], b[1]) /\ Amid(q[2], a[2], b[2])
Axis(a, b) == a[1] = b[1] \/ a[2] = b[2]

LEMMA Coordinates ==
    ASSUME NEW p \in Point
    PROVE  /\ p[1] \in 0 .. Width /\ p[2] \in 0 .. Width
           /\ p[1] \in Nat /\ p[2] \in Nat /\ p = <<p[1], p[2]>>
  BY GeometryAssumption DEF Point

LEMMA LesserGreater ==
    ASSUME NEW a \in Nat, NEW b \in Nat
    PROVE  /\ Min({a, b}) = IF a <= b THEN a ELSE b
           /\ Max({a, b}) = IF a <= b THEN b ELSE a
<1>1. Min({a, b}) \in {a, b} /\ Min({a, b}) <= a /\ Min({a, b}) <= b
  BY DEF Min
<1>2. Max({a, b}) \in {a, b} /\ Max({a, b}) >= a /\ Max({a, b}) >= b
  BY DEF Max
<1>3. QED
  BY <1>1, <1>2

\* The coordinate put between two others is the nearest that is.
LEMMA BetweenIs ==
    ASSUME NEW n \in Nat, NEW a \in Nat, NEW b \in Nat
    PROVE  /\ Between(n, a, b) \in Nat /\ Amid(Between(n, a, b), a, b)
           /\ Amid(n, a, b) => Between(n, a, b) = n
           /\ \A x \in Nat : Amid(x, a, b) /\ x # Between(n, a, b) =>
                 \/ n < Between(n, a, b) /\ Between(n, a, b) < x
                 \/ x < Between(n, a, b) /\ Between(n, a, b) < n
                 \/ Between(n, a, b) = n
  BY LesserGreater DEF Between, Amid

LEMMA FartherSquared ==
    ASSUME NEW n \in Nat, NEW c \in Nat, NEW x \in Nat,
           (n < c /\ c < x) \/ (x < c /\ c < n) \/ (c = n /\ x # n)
    PROVE  (n - c) * (n - c) < (n - x) * (n - x)
<1>1. ASSUME NEW u \in Nat, NEW v \in Nat, u < v
      PROVE  u * u < v * v
  <2>1. PICK d \in Nat \ {0} : v = u + d
    BY <1>1, v - u \in Nat \ {0}
  <2>2. v * v = u * u + 2 * (u * d) + d * d
    BY <2>1
  <2>3. u * d \in Nat /\ d * d \in Nat \ {0} /\ u * u \in Nat
    OBVIOUS
  <2>4. QED
    BY <2>2, <2>3
<1>2. CASE n < c /\ c < x
  <2>1. (c - n) * (c - n) < (x - n) * (x - n)
    BY <1>1, <1>2, c - n \in Nat, x - n \in Nat, c - n < x - n
  <2>2. /\ (n - c) * (n - c) = (c - n) * (c - n)
        /\ (n - x) * (n - x) = (x - n) * (x - n)
    OBVIOUS
  <2>3. QED
    BY <2>1, <2>2
<1>3. CASE x < c /\ c < n
  BY <1>1, <1>3, n - c \in Nat, n - x \in Nat, n - c < n - x
<1>4. CASE c = n /\ x # n
  <2>1. (n - c) * (n - c) = 0
    BY <1>4
  <2>2. CASE x < n
    BY <1>1, <2>1, <2>2, n - x \in Nat, 0 < n - x
  <2>3. CASE n < x
    <3>1. 0 * 0 < (x - n) * (x - n)
      BY <1>1, <2>3, x - n \in Nat, 0 < x - n
    <3>2. (n - x) * (n - x) = (x - n) * (x - n)
      OBVIOUS
    <3>3. QED
      BY <2>1, <3>1, <3>2
  <2>4. QED
    BY <1>4, <2>2, <2>3
<1>5. QED
  BY <1>2, <1>3, <1>4

\* The foot of a point on a side is the nearest point of the side.
LEMMA FootIsNearest ==
    ASSUME NEW p \in Point, NEW a \in Point, NEW b \in Point
    PROVE  /\ Foot(p, a, b) \in Point /\ On(Foot(p, a, b), a, b)
           /\ On(p, a, b) => Foot(p, a, b) = p
           /\ \A q \in Point : On(q, a, b) /\ q # Foot(p, a, b) =>
                 Square(p, Foot(p, a, b)) < Square(p, q)
<1>1. PICK c1 \in Nat, c2 \in Nat : Foot(p, a, b) = <<c1, c2>>
                        /\ c1 = Between(p[1], a[1], b[1])
                        /\ c2 = Between(p[2], a[2], b[2])
  BY Coordinates, BetweenIs DEF Foot
<1>2. Amid(c1, a[1], b[1]) /\ Amid(c2, a[2], b[2])
  BY <1>1, Coordinates, BetweenIs
<1>3. c1 \in 0 .. Width /\ c2 \in 0 .. Width
  BY <1>1, <1>2, Coordinates, GeometryAssumption DEF Amid
<1>4. Foot(p, a, b) \in Point /\ On(Foot(p, a, b), a, b)
  BY <1>1, <1>2, <1>3 DEF Point, On
<1>5. On(p, a, b) => Foot(p, a, b) = p
  BY <1>1, Coordinates, BetweenIs DEF On
<1>6. ASSUME NEW q \in Point, On(q, a, b), q # Foot(p, a, b)
      PROVE  Square(p, Foot(p, a, b)) < Square(p, q)
  <2>1. PICK p1 \in Nat, p2 \in Nat, q1 \in Nat, q2 \in Nat :
           /\ p1 = p[1] /\ p2 = p[2] /\ q1 = q[1] /\ q2 = q[2]
           /\ q = <<q1, q2>>
    BY Coordinates
  <2>2. q1 # c1 \/ q2 # c2
    BY <1>1, <1>6, <2>1
  <2>3. /\ q1 # c1 => (p1 - c1) * (p1 - c1) < (p1 - q1) * (p1 - q1)
        /\ q2 # c2 => (p2 - c2) * (p2 - c2) < (p2 - q2) * (p2 - q2)
    <3>0. /\ Amid(q1, a[1], b[1]) /\ Amid(q2, a[2], b[2])
          /\ a[1] \in Nat /\ b[1] \in Nat /\ a[2] \in Nat /\ b[2] \in Nat
      BY <1>6, <2>1, Coordinates DEF On
    <3>1. q1 # c1 => \/ p1 < c1 /\ c1 < q1
                     \/ q1 < c1 /\ c1 < p1
                     \/ c1 = p1 /\ q1 # p1
      <4>1. PICK v \in Nat, w \in Nat : /\ v = a[1] /\ w = b[1]
                                       /\ c1 = Between(p1, v, w)
        BY <1>1, <2>1, <3>0
      <4>2. \A x \in Nat : Amid(x, v, w) /\ x # c1 =>
                              \/ p1 < c1 /\ c1 < x
                              \/ x < c1 /\ c1 < p1
                              \/ c1 = p1
        BY <4>1, BetweenIs
      <4>3. QED
        BY <3>0, <4>1, <4>2
    <3>2. q2 # c2 => \/ p2 < c2 /\ c2 < q2
                     \/ q2 < c2 /\ c2 < p2
                     \/ c2 = p2 /\ q2 # p2
      <4>1. PICK v \in Nat, w \in Nat : /\ v = a[2] /\ w = b[2]
                                       /\ c2 = Between(p2, v, w)
        BY <1>1, <2>1, <3>0
      <4>2. \A x \in Nat : Amid(x, v, w) /\ x # c2 =>
                              \/ p2 < c2 /\ c2 < x
                              \/ x < c2 /\ c2 < p2
                              \/ c2 = p2
        BY <4>1, BetweenIs
      <4>3. QED
        BY <3>0, <4>1, <4>2
    <3>3. QED
      BY <3>1, <3>2, FartherSquared
  <2>4. /\ Square(p, Foot(p, a, b)) =
              (p1 - c1) * (p1 - c1) + (p2 - c2) * (p2 - c2)
        /\ Square(p, q) = (p1 - q1) * (p1 - q1) + (p2 - q2) * (p2 - q2)
    BY <1>1, <2>1 DEF Square
  <2>5. PICK x1 \in Int, x2 \in Int, y1 \in Int, y2 \in Int :
           /\ x1 = (p1 - c1) * (p1 - c1) /\ x2 = (p2 - c2) * (p2 - c2)
           /\ y1 = (p1 - q1) * (p1 - q1) /\ y2 = (p2 - q2) * (p2 - q2)
    OBVIOUS
  <2>6. (q1 = c1 => x1 = y1) /\ (q2 = c2 => x2 = y2)
    BY <2>5
  <2>7. x1 + x2 < y1 + y2
    BY <2>2, <2>3, <2>5, <2>6
  <2>8. QED
    BY <2>4, <2>5, <2>7
<1>7. QED
  BY <1>4, <1>5, <1>6

\* Points of a side parallel to an axis are told apart by their way from its
\* start, and there is one at every length.
LEMMA AlongSide ==
    ASSUME NEW a \in Point, NEW b \in Point, Axis(a, b)
    PROVE  /\ Length(a, b) \in Nat /\ On(a, a, b) /\ On(b, a, b)
           /\ Length(a, a) = 0 /\ (Length(a, b) = 0 => a = b)
           /\ \A q \in Point : On(q, a, b) =>
                 Length(a, q) \in 0 .. Length(a, b)
           /\ \A q \in Point, r \in Point :
                 On(q, a, b) /\ On(r, a, b) /\ Length(a, q) = Length(a, r)
                    => q = r
           /\ \A n \in 0 .. Length(a, b) :
                 \E q \in Point : On(q, a, b) /\ Length(a, q) = n
<1>1. PICK a1 \in 0 .. Width, a2 \in 0 .. Width, b1 \in 0 .. Width,
           b2 \in 0 .. Width :
         /\ a1 = a[1] /\ a2 = a[2] /\ b1 = b[1] /\ b2 = b[2]
         /\ a = <<a1, a2>> /\ b = <<b1, b2>>
  BY Coordinates
<1>2. Width \in Nat /\ (a1 = b1 \/ a2 = b2)
  BY <1>1, GeometryAssumption DEF Axis
<1>3. \A q \in Point :
         /\ Length(a, q) = Apart1(a1, q[1]) + Apart1(a2, q[2])
         /\ On(q, a, b) <=> Amid(q[1], a1, b1) /\ Amid(q[2], a2, b2)
  BY <1>1 DEF Length, On
<1>4. /\ Length(a, b) \in Nat /\ On(a, a, b) /\ On(b, a, b)
      /\ Length(a, a) = 0 /\ (Length(a, b) = 0 => a = b)
  <2>1. On(a, a, b) /\ On(b, a, b)
    BY <1>1, <1>2 DEF On, Amid
  <2>2. Length(a, b) = Apart1(a1, b1) + Apart1(a2, b2)
    BY <1>1, <1>3
  <2>3. Length(a, a) = Apart1(a1, a1) + Apart1(a2, a2)
    BY <1>1, <1>3
  <2>4. Length(a, b) \in Nat /\ (Length(a, b) = 0 => a1 = b1 /\ a2 = b2)
    BY <1>2, <2>2 DEF Apart1
  <2>5. Length(a, a) = 0
    BY <1>2, <2>3 DEF Apart1
  <2>6. QED
    BY <1>1, <2>1, <2>4, <2>5
<1>5. ASSUME NEW q \in Point, On(q, a, b)
      PROVE  Length(a, q) \in 0 .. Length(a, b)
  <2>1. /\ Length(a, b) = Apart1(a1, b1) + Apart1(a2, b2)
        /\ Length(a, q) = Apart1(a1, q[1]) + Apart1(a2, q[2])
        /\ Amid(q[1], a1, b1) /\ Amid(q[2], a2, b2)
    BY <1>1, <1>3, <1>5
  <2>2. PICK q1 \in Nat, q2 \in Nat : q1 = q[1] /\ q2 = q[2]
    BY Coordinates
  <2>3. QED
    BY <1>2, <2>1, <2>2 DEF Apart1, Amid
<1>6. ASSUME NEW q \in Point, NEW r \in Point, On(q, a, b), On(r, a, b),
             Length(a, q) = Length(a, r)
      PROVE  q = r
  <2>1. q[1] = r[1] /\ q[2] = r[2]
    BY <1>1, <1>2, <1>3, <1>6, Coordinates DEF Apart1, Amid
  <2>2. QED
    BY <2>1, Coordinates
<1>7. ASSUME NEW n \in 0 .. Length(a, b)
      PROVE  \E q \in Point : On(q, a, b) /\ Length(a, q) = n
  <2> DEFINE q1 == IF a1 < b1 THEN a1 + n ELSE IF b1 < a1 THEN a1 - n ELSE a1
             q2 == IF a2 < b2 THEN a2 + n ELSE IF b2 < a2 THEN a2 - n ELSE a2
  <2>1. Length(a, b) = Apart1(a1, b1) + Apart1(a2, b2)
    BY <1>1, <1>3
  <2>2. /\ q1 \in 0 .. Width /\ q2 \in 0 .. Width
        /\ Amid(q1, a1, b1) /\ Amid(q2, a2, b2)
        /\ Apart1(a1, q1) + Apart1(a2, q2) = n
    BY <1>2, <1>4, <2>1 DEF Apart1, Amid
  <2> HIDE DEF q1, q2
  <2>3. <<q1, q2>> \in Point
    BY <2>2 DEF Point
  <2>4. On(<<q1, q2>>, a, b) /\ Length(a, <<q1, q2>>) = n
    BY <1>3, <2>2, <2>3
  <2>5. QED
    BY <2>3, <2>4
<1>8. QED
  BY <1>4, <1>5, <1>6, <1>7

-----------------------------------------------------------------------------
(* Lines.                                                                   *)

\* The states g of a loop of n rounds.
Runs(g, n, V, base, step) ==
    /\ g \in [0 .. n -> V] /\ g[0] = base
    /\ \A i \in 1 .. n : g[i] = step[i][g[i - 1]]

\* A loop of n rounds has a state after every round.
LEMMA LoopRuns ==
    ASSUME NEW n \in Nat, NEW V, NEW base \in V,
           NEW step \in [1 .. n -> [V -> V]]
    PROVE  \E g : Runs(g, n, V, base, step)
<1> DEFINE Upto(g, k) == /\ g[0] = base
                         /\ \A i \in 1 .. n : i <= k =>
                               g[i] = step[i][g[i - 1]]
           Bad == {k \in Nat : ~ \E g \in [0 .. n -> V] : Upto(g, k)}
<1>1. Bad = {}
  <2>1. SUFFICES ASSUME Bad # {} PROVE FALSE
    OBVIOUS
  <2>2. PICK k \in Bad : \A m \in Bad : k <= m
    BY <2>1, LeastNat
  <2>3. k \in Nat /\ ~ \E g \in [0 .. n -> V] : Upto(g, k)
    BY <2>2
  <2>4. CASE k = 0
    <3>1. PICK g \in [0 .. n -> V] : g = [i \in 0 .. n |-> base]
      OBVIOUS
    <3>2. Upto(g, 0)
      BY <3>1
    <3>3. QED
      BY <2>3, <2>4, <3>2
  <2>5. CASE k # 0
    <3>1. k - 1 \in Nat /\ k - 1 < k
      BY <2>3, <2>5
    <3>2. k - 1 \notin Bad
      <4>1. \A m \in Bad : m \in Nat /\ k <= m
        BY <2>2
      <4> HIDE DEF Bad
      <4>2. QED
        BY <2>3, <3>1, <4>1
    <3>3. PICK g \in [0 .. n -> V] : Upto(g, k - 1)
      BY <3>1, <3>2
    <3>4. CASE k > n
      <4>1. Upto(g, k)
        BY <2>3, <3>3, <3>4
      <4>2. QED
        BY <2>3, <4>1
    <3>5. CASE ~ (k > n)
      <4> DEFINE h == [g EXCEPT ![k] = step[k][g[k - 1]]]
      <4>1. k \in 1 .. n /\ k - 1 \in 0 .. n
        BY <2>3, <2>5, <3>5
      <4>2. h \in [0 .. n -> V]
        BY <4>1
      <4>3. h[k] = step[k][g[k - 1]] /\ \A i \in 0 .. n : i # k => h[i] = g[i]
        BY <4>1
      <4> HIDE DEF h
      <4>4. ASSUME NEW i \in 1 .. n, i <= k
            PROVE  h[i] = step[i][h[i - 1]]
        <5>1. i - 1 \in 0 .. n /\ i - 1 # k /\ i \in 0 .. n
          BY <2>3, <4>4
        <5>2. h[i - 1] = g[i - 1]
          BY <4>3, <5>1
        <5>3. CASE i = k
          BY <4>3, <5>2, <5>3
        <5>4. CASE i # k
          <6>1. i <= k - 1
            BY <2>3, <4>4, <5>4
          <6>2. g[i] = step[i][g[i - 1]]
            BY <3>3, <6>1
          <6>3. QED
            BY <4>3, <5>1, <5>2, <5>4, <6>2
        <5>5. QED
          BY <5>3, <5>4
      <4>5. h[0] = base
        BY <3>3, <4>1, <4>3
      <4>6. Upto(h, k)
        BY <4>4, <4>5
      <4>7. QED
        BY <2>3, <4>2, <4>6
    <3>6. QED
      BY <3>4, <3>5
  <2>6. QED
    BY <2>4, <2>5
<1>2. PICK g \in [0 .. n -> V] : Upto(g, n)
  BY <1>1
<1>3. QED
  BY <1>2 DEF Runs

\* A line is a sequence of points whose sides are parallel to an axis.
LEMMA LineIs ==
    ASSUME NEW l \in Lines
    PROVE  /\ l \in Seq(Point) /\ Len(l) \in Nat /\ DOMAIN l = 1 .. Len(l)
           /\ \A i \in 1 .. Len(l) : l[i] \in Point
           /\ \A i \in Sides(l) : /\ i \in 1 .. Len(l) /\ i + 1 \in 1 .. Len(l)
                                  /\ l[i] \in Point /\ l[i + 1] \in Point
                                  /\ Axis(l[i], l[i + 1])
<1>1. PICK n \in 0 .. MaxLine : l \in [1 .. n -> Point]
  BY DEF Lines
<1>2. l \in Seq(Point)
  BY <1>1, GeometryAssumption
<1>3. Len(l) \in Nat /\ DOMAIN l = 1 .. Len(l)
  BY <1>2, LenProperties
<1>4. \A i \in 1 .. Len(l) : l[i] \in Point
  BY <1>2, <1>3, ElementOfSeq
<1>5. ASSUME NEW i \in Sides(l)
      PROVE  /\ i \in 1 .. Len(l) /\ i + 1 \in 1 .. Len(l)
             /\ Axis(l[i], l[i + 1])
  <2>1. i \in 1 .. Len(l) /\ i + 1 \in 1 .. Len(l)
    BY <1>3 DEF Sides
  <2>2. PICK x \in 1 .. 2 : l[i][x] = l[i + 1][x]
    BY DEF Lines
  <2>3. x = 1 \/ x = 2
    OBVIOUS
  <2>4. QED
    BY <2>1, <2>2, <2>3 DEF Axis
<1>6. QED
  BY <1>2, <1>3, <1>4, <1>5

LEMMA SideLength ==
    ASSUME NEW l \in Lines, NEW i \in Sides(l)
    PROVE  SegLen(l, i) \in Nat /\ (SegLen(l, i) = 0 => l[i] = l[i + 1])
  BY LineIs, AlongSide DEF SegLen

\* What a way is.
LEMMA WayIs ==
    ASSUME NEW l \in Lines
    PROVE  /\ Way(l) \in [0 .. Len(l) -> Nat]
           /\ Way(l)[0] = 0 /\ (Len(l) >= 1 => Way(l)[1] = 0)
           /\ \A i \in Sides(l) : Way(l)[i + 1] = Way(l)[i] + SegLen(l, i)
<1> DEFINE N == Len(l)
           Is(w) == w = [i \in 0 .. N |-> IF i <= 1 THEN 0
                                       ELSE w[i - 1] + SegLen(l, i - 1)]
           step == [i \in 1 .. N |-> [v \in Nat |->
                       IF i <= 1 THEN 0 ELSE v + SegLen(l, i - 1)]]
<1>1. N \in Nat
  BY LineIs
<1>2. \A i \in 1 .. N : i > 1 => i - 1 \in Sides(l) /\ SegLen(l, i - 1) \in Nat
  BY <1>1, SideLength DEF Sides
<1>3. step \in [1 .. N -> [Nat -> Nat]]
  BY <1>1, <1>2
<1>4. PICK g : Runs(g, N, Nat, 0, step)
  <2> HIDE DEF step
  <2> QED
    BY <1>1, <1>3, LoopRuns
<1>16. g \in [0 .. N -> Nat] /\ g[0] = 0
  BY <1>4 DEF Runs
<1>5. ASSUME NEW i \in 1 .. N
      PROVE  g[i] = IF i <= 1 THEN 0 ELSE g[i - 1] + SegLen(l, i - 1)
  <2>1. i - 1 \in 0 .. N
    BY <1>1
  <2>2. g[i] = step[i][g[i - 1]] /\ g[i - 1] \in Nat
    BY <1>4, <1>16, <2>1 DEF Runs
  <2>3. QED
    BY <2>2
<1>6. \A i \in 0 .. N : g[i] = IF i <= 1 THEN 0
                              ELSE g[i - 1] + SegLen(l, i - 1)
  BY <1>1, <1>16, <1>5
<1>7. Is(g)
  BY <1>6, <1>16
<1>8. PICK w : w = Way(l) /\ Is(w)
  <2>1. Way(l) = CHOOSE w : Is(w)
    BY DEF Way
  <2>2. QED
    BY <1>7, <2>1
<1>9. \A i \in 0 .. N : w[i] = IF i <= 1 THEN 0
                              ELSE w[i - 1] + SegLen(l, i - 1)
  BY <1>8
<1>10. DOMAIN w = 0 .. N
  BY <1>8
<1> HIDE DEF Is
<1>11. \A i \in 0 .. N : w[i] = g[i]
  <2> DEFINE Bad == {i \in 0 .. N : w[i] # g[i]}
  <2>1. SUFFICES ASSUME Bad # {} PROVE FALSE
    OBVIOUS
  <2>0. Bad \in SUBSET Nat
    BY <1>1
  <2>2. PICK k \in Bad : \A m \in Bad : k <= m
    BY <2>0, <2>1, LeastNat
  <2>3. k \in 0 .. N /\ w[k] # g[k] /\ \A m \in 0 .. N : m < k => w[m] = g[m]
    BY <1>1, <2>2
  <2>4. k > 1
    BY <1>1, <1>6, <1>9, <2>3
  <2>5. w[k - 1] = g[k - 1]
    BY <1>1, <2>3, <2>4
  <2>6. QED
    BY <1>1, <1>6, <1>9, <2>3, <2>4, <2>5
<1>12. w \in [0 .. N -> Nat]
  <2>1. w = [i \in 0 .. N |-> IF i <= 1 THEN 0
                                       ELSE w[i - 1] + SegLen(l, i - 1)]
    BY <1>8 DEF Is
  <2>2. \A i \in 0 .. N : w[i] \in Nat
    BY <1>16, <1>11
  <2>3. QED
    BY <1>10, <2>1, <2>2
<1>13. ASSUME NEW i \in Sides(l) PROVE w[i + 1] = w[i] + SegLen(l, i)
  <2>1. i \in Nat /\ i >= 1 /\ i + 1 \in 0 .. N /\ ~ (i + 1 <= 1)
        /\ (i + 1) - 1 = i
    BY <1>1 DEF Sides
  <2>2. w[i + 1] = w[(i + 1) - 1] + SegLen(l, (i + 1) - 1)
    BY <1>9, <2>1
  <2>3. QED
    BY <2>1, <2>2
<1>14. w[0] = 0 /\ (N >= 1 => w[1] = 0)
  BY <1>1, <1>9
<1>15. QED
  BY <1>8, <1>12, <1>13, <1>14

LEMMA WayAt ==
    ASSUME NEW l \in Lines, NEW i \in 1 .. Len(l)
    PROVE  Way(l)[i] \in Nat
  BY WayIs, LineIs

\* The way to a later point is no shorter, and only longer when they differ.
LEMMA WayGrows ==
    ASSUME NEW l \in Lines, NEW i \in 1 .. Len(l), NEW j \in 1 .. Len(l),
           i <= j
    PROVE  /\ Way(l)[i] <= Way(l)[j]
           /\ Way(l)[i] = Way(l)[j] => l[i] = l[j]
<1> DEFINE w == Way(l)
           Good(k) == w[i] <= w[k] /\ (w[i] = w[k] => l[i] = l[k])
           Bad == {k \in i .. Len(l) : ~ Good(k)}
<1>1. Len(l) \in Nat /\ i \in Nat /\ \A k \in 1 .. Len(l) : w[k] \in Nat
  BY LineIs, WayAt
<1>2. Bad = {}
  <2>1. SUFFICES ASSUME Bad # {} PROVE FALSE
    OBVIOUS
  <2>0. Bad \in SUBSET Nat
    BY <1>1
  <2>2. PICK k \in Bad : \A m \in Bad : k <= m
    BY <2>0, <2>1, LeastNat
  <2>3. /\ k \in i .. Len(l) /\ ~ Good(k)
        /\ \A m \in i .. Len(l) : m < k => Good(m)
    <3>1. k \in i .. Len(l) /\ ~ Good(k)
      BY <2>2
    <3>2. ASSUME NEW m \in i .. Len(l), m < k PROVE Good(m)
      <4>1. m \notin Bad
        <5>1. \A x \in Bad : k <= x
          BY <2>2
        <5> HIDE DEF Bad
        <5>2. QED
          BY <1>1, <3>1, <3>2, <5>1
      <4>2. QED
        BY <4>1
    <3>3. QED
      BY <3>1, <3>2
  <2>4. k # i
    BY <1>1, <2>3
  <2>5. /\ k - 1 \in i .. Len(l) /\ k - 1 < k /\ k - 1 \in Sides(l)
        /\ k \in 1 .. Len(l) /\ k - 1 \in 1 .. Len(l) /\ (k - 1) + 1 = k
    BY <1>1, <2>3, <2>4 DEF Sides
  <2>6. Good(k - 1)
    BY <2>3, <2>5
  <2>7. /\ w[k] = w[k - 1] + SegLen(l, k - 1) /\ SegLen(l, k - 1) \in Nat
        /\ SegLen(l, k - 1) = 0 => l[k - 1] = l[k]
    BY <2>5, WayIs, SideLength
  <2>8. w[k] \in Nat /\ w[k - 1] \in Nat /\ w[i] \in Nat
    BY <1>1, <2>5
  <2>9. Good(k)
    <3> HIDE DEF w
    <3> QED
      BY <2>6, <2>7, <2>8
  <2>10. QED
    BY <2>3, <2>9
<1>3. j \in i .. Len(l)
  BY <1>1
<1>4. QED
  BY <1>2, <1>3

-----------------------------------------------------------------------------
(* The points of a line.                                                    *)

\* q is the point of side i at n along the line.
At(l, n, i, q) ==
    /\ i \in Sides(l) /\ Way(l)[i] <= n /\ n <= Way(l)[i + 1]
    /\ On(q, l[i], l[i + 1]) /\ Length(l[i], q) = n - Way(l)[i]

LEMMA SideIs ==
    ASSUME NEW l \in Lines, NEW i \in Sides(l)
    PROVE  /\ Len(l) \in Nat /\ i \in Nat /\ i \in 1 .. Len(l)
           /\ i + 1 \in 1 .. Len(l)
           /\ l[i] \in Point /\ l[i + 1] \in Point /\ Axis(l[i], l[i + 1])
           /\ Way(l)[i] \in Nat /\ Way(l)[i + 1] \in Nat
           /\ SegLen(l, i) \in Nat /\ SegLen(l, i) = Length(l[i], l[i + 1])
           /\ Way(l)[i + 1] = Way(l)[i] + SegLen(l, i)
           /\ SegLen(l, i) = 0 => l[i] = l[i + 1]
  BY LineIs, WayIs, WayAt, SideLength DEF Sides, SegLen

LEMMA TotalIs ==
    ASSUME NEW l \in Lines
    PROVE  /\ Total(l) \in Nat /\ (Len(l) < 2 => Total(l) = 0)
           /\ \A i \in 1 .. Len(l) : Way(l)[i] <= Total(l)
<1>1. Len(l) \in Nat
  BY LineIs
<1>2. Total(l) \in Nat /\ (Len(l) < 2 => Total(l) = 0)
  BY <1>1, WayIs DEF Total
<1>3. ASSUME NEW i \in 1 .. Len(l) PROVE Way(l)[i] <= Total(l)
  <2>1. Len(l) \in 1 .. Len(l) /\ i <= Len(l)
    BY <1>1
  <2>2. QED
    BY <2>1, WayGrows DEF Total
<1>4. QED
  BY <1>2, <1>3

\* Every place of a line is on a side that has a length.
LEMMA SideAtPlace ==
    ASSUME NEW l \in Lines, Total(l) > 0, NEW n \in 0 .. Total(l)
    PROVE  \E i \in Sides(l) : /\ SegLen(l, i) # 0 /\ Way(l)[i] <= n
                               /\ n <= Way(l)[i + 1]
<1>1. Len(l) \in Nat /\ Len(l) >= 2 /\ Total(l) \in Nat /\ n \in Nat
  BY LineIs, TotalIs
<1>2. PICK m \in 1 .. Total(l) : n <= m /\ (n # 0 => m = n) /\ (n = 0 => m = 1)
  <2>1. CASE n = 0
    BY <1>1, <2>1
  <2>2. CASE n # 0
    BY <1>1, <2>2
  <2>3. QED
    BY <2>1, <2>2
<1> DEFINE S == {j \in 1 .. Len(l) : Way(l)[j] >= m}
<1>3. PICK j \in S : \A k \in S : j <= k
  <2>1. S \in SUBSET Nat
    OBVIOUS
  <2>2. Len(l) \in S
    BY <1>1, <1>2 DEF Total
  <2>3. QED
    BY <2>1, <2>2, LeastNat
<1>4. j \in 1 .. Len(l) /\ Way(l)[j] >= m
  BY <1>3
<1>5. j # 1
  BY <1>1, <1>2, <1>4, WayIs
<1>6. j - 1 \in Sides(l) /\ j - 1 \in 1 .. Len(l) /\ (j - 1) + 1 = j
      /\ j - 1 < j
  BY <1>1, <1>4, <1>5 DEF Sides
<1>7. j - 1 \notin S
  <2>1. \A k \in S : j <= k
    BY <1>3
  <2> HIDE DEF S
  <2>2. QED
    BY <1>4, <1>6, <2>1
<1>8. Way(l)[j - 1] < m
  <2>1. Way(l)[j - 1] \in Nat
    BY <1>6, WayAt
  <2>2. QED
    BY <1>2, <1>6, <1>7, <2>1
<1>9. PICK i \in Sides(l) : i = j - 1 /\ i + 1 = j
  BY <1>6
<1>10. Way(l)[i] < m /\ m <= Way(l)[i + 1]
  BY <1>4, <1>8, <1>9
<1>11. QED
  BY <1>1, <1>2, <1>10, SideIs

\* A place of a line is one point, whichever side it is looked for on.
LEMMA PlaceIsOne ==
    ASSUME NEW l \in Lines, NEW n \in Nat, NEW i, NEW j, NEW q \in Point,
           NEW r \in Point, At(l, n, i, q), At(l, n, j, r)
    PROVE  q = r
<1>1. ASSUME NEW a \in Sides(l), NEW b \in Sides(l), NEW x \in Point,
             NEW y \in Point, At(l, n, a, x), At(l, n, b, y), a <= b
      PROVE  x = y
  <2>1. CASE a = b
    BY <1>1, <2>1, SideIs, AlongSide DEF At
  <2>2. CASE a # b
    <3>1. a + 1 <= b /\ a + 1 \in 1 .. Len(l) /\ b \in 1 .. Len(l)
      BY <1>1, <2>2, SideIs
    <3>2. Way(l)[a + 1] <= Way(l)[b]
          /\ (Way(l)[a + 1] = Way(l)[b] => l[a + 1] = l[b])
      BY <3>1, WayGrows
    <3>3. n <= Way(l)[a + 1] /\ Way(l)[b] <= n
      BY <1>1 DEF At
    <3>4. Way(l)[a + 1] = n /\ Way(l)[b] = n /\ l[a + 1] = l[b]
      BY <3>2, <3>3, SideIs
    <3>5. Length(l[a], x) = Length(l[a], l[a + 1])
      <4>1. /\ Way(l)[a] \in Nat /\ Way(l)[a + 1] \in Nat
            /\ Length(l[a], l[a + 1]) \in Nat
            /\ Way(l)[a + 1] = Way(l)[a] + Length(l[a], l[a + 1])
        BY SideIs
      <4>2. Length(l[a], x) = Way(l)[a + 1] - Way(l)[a]
        <5>1. Length(l[a], x) = n - Way(l)[a]
          BY <1>1 DEF At
        <5>2. QED
          BY <3>4, <5>1
      <4>3. QED
        BY <4>1, <4>2
    <3>6. x = l[a + 1]
      <4>1. l[a] \in Point /\ l[a + 1] \in Point /\ Axis(l[a], l[a + 1])
        BY SideIs
      <4>2. On(x, l[a], l[a + 1]) /\ On(l[a + 1], l[a], l[a + 1])
        BY <1>1, <4>1, AlongSide DEF At
      <4>3. QED
        BY <3>5, <4>1, <4>2, AlongSide
    <3>7. Length(l[b], y) = 0
      BY <1>1, <3>4, SideIs DEF At
    <3>8. y = l[b]
      <4>1. l[b] \in Point /\ l[b + 1] \in Point /\ Axis(l[b], l[b + 1])
        BY SideIs
      <4>2. On(y, l[b], l[b + 1]) /\ On(l[b], l[b], l[b + 1])
        BY <1>1, <4>1, AlongSide DEF At
      <4>3. Length(l[b], l[b]) = 0
        BY <4>1, AlongSide
      <4>4. QED
        BY <3>7, <4>1, <4>2, <4>3, AlongSide
    <3>9. QED
      BY <3>4, <3>6, <3>8
  <2>3. QED
    BY <2>1, <2>2
<1>2. i \in Sides(l) /\ j \in Sides(l)
  BY DEF At
<1>3. i <= j \/ j <= i
  BY <1>2, SideIs
<1>4. QED
  BY <1>1, <1>2, <1>3

\* PointAt is that point.
LEMMA PointAtIs ==
    ASSUME NEW l \in Lines, Total(l) > 0, NEW n \in 0 .. Total(l)
    PROVE  /\ PointAt(l, n) \in Point
           /\ \E i \in Sides(l) : /\ SegLen(l, i) # 0
                                  /\ At(l, n, i, PointAt(l, n))
           /\ \A q \in Point, i \in Sides(l) :
                 At(l, n, i, q) => q = PointAt(l, n)
<1> DEFINE Is(p) == \E i \in Sides(l) :
                       /\ Way(l)[i] <= n /\ n <= Way(l)[i] + SegLen(l, i)
                       /\ p = FootOn(l, i, p)
                       /\ Length(l[i], p) = n - Way(l)[i]
           z == PointAt(l, n)
<1>0. n \in Nat
  BY TotalIs
<1>1. ASSUME NEW p \in Point, NEW i \in Sides(l)
      PROVE  On(p, l[i], l[i + 1]) <=> p = FootOn(l, i, p)
  <2>1. l[i] \in Point /\ l[i + 1] \in Point
    BY SideIs
  <2>2. QED
    BY <2>1, FootIsNearest DEF FootOn
<1>2. ASSUME NEW p \in Point, NEW i \in Sides(l), At(l, n, i, p) PROVE Is(p)
  <2>1. Way(l)[i + 1] = Way(l)[i] + SegLen(l, i)
    BY SideIs
  <2>2. QED
    BY <1>1, <1>2, <2>1 DEF At
<1>3. ASSUME NEW p \in Point, Is(p)
      PROVE  \E i \in Sides(l) : At(l, n, i, p)
  BY <1>1, <1>3, SideIs DEF At
<1>4. PICK i \in Sides(l) : /\ SegLen(l, i) # 0 /\ Way(l)[i] <= n
                            /\ n <= Way(l)[i + 1]
  BY SideAtPlace
<1>5. PICK q \in Point : At(l, n, i, q)
  <2>1. n - Way(l)[i] \in 0 .. Length(l[i], l[i + 1])
    BY <1>0, <1>4, SideIs
  <2>2. PICK q \in Point : On(q, l[i], l[i + 1])
                           /\ Length(l[i], q) = n - Way(l)[i]
    <3>1. l[i] \in Point /\ l[i + 1] \in Point /\ Axis(l[i], l[i + 1])
      BY SideIs
    <3>2. QED
      BY <2>1, <3>1, AlongSide
  <2>3. QED
    BY <1>4, <2>2 DEF At
<1>6. z \in Point /\ Is(z)
  <2>1. z = CHOOSE p \in Point : Is(p)
    BY DEF PointAt
  <2>2. \E p \in Point : Is(p)
    BY <1>2, <1>5
  <2> HIDE DEF Is, z
  <2>3. QED
    BY <2>1, <2>2
<1> HIDE DEF Is, z
<1>7. PICK k \in Sides(l) : At(l, n, k, z)
  BY <1>3, <1>6
<1>8. \A p \in Point, j \in Sides(l) : At(l, n, j, p) => p = z
  BY <1>0, <1>6, <1>7, PlaceIsOne
<1>9. z = q
  BY <1>5, <1>8
<1>10. QED
  BY <1>4, <1>5, <1>6, <1>8, <1>9 DEF z

-----------------------------------------------------------------------------
(* The scan of the sides.                                                   *)

LEMMA SquareOfDifference ==
    ASSUME NEW a \in 0 .. Width, NEW b \in 0 .. Width
    PROVE  /\ (a - b) * (a - b) \in Nat
           /\ (a - b) * (a - b) = 0 => a = b
           /\ (a - b) * (a - b) <= Width * Width
<1>1. Width \in Nat
  BY GeometryAssumption
<1>2. ASSUME NEW u \in Nat, u <= Width
      PROVE  /\ u * u \in Nat /\ (u * u = 0 => u = 0)
             /\ u * u <= Width * Width
  <2>1. PICK d \in Nat : Width = u + d
    BY <1>1, <1>2, Width - u \in Nat
  <2>2. Width * Width = u * u + 2 * (u * d) + d * d
    BY <2>1
  <2>3. u * d \in Nat /\ d * d \in Nat /\ u * u \in Nat
    OBVIOUS
  <2>4. u # 0 => u * u # 0
    OBVIOUS
  <2>5. QED
    BY <1>1, <2>2, <2>3, <2>4
<1>3. CASE a >= b
  BY <1>1, <1>2, <1>3, a - b \in Nat, a - b <= Width
<1>4. CASE a < b
  <2>1. (a - b) * (a - b) = (b - a) * (b - a)
    BY <1>1
  <2>2. /\ (b - a) * (b - a) \in Nat /\ ((b - a) * (b - a) = 0 => b - a = 0)
        /\ (b - a) * (b - a) <= Width * Width
    BY <1>1, <1>2, <1>4, b - a \in Nat, b - a <= Width
  <2>3. QED
    BY <1>1, <1>4, <2>1, <2>2
<1>5. QED
  BY <1>1, <1>3, <1>4

LEMMA SquareIs ==
    ASSUME NEW p \in Point, NEW q \in Point
    PROVE  /\ Square(p, q) \in Nat /\ (Square(p, q) = 0 <=> p = q)
           /\ Square(p, q) <= Far /\ Far \in Nat
<1>1. PICK p1 \in 0 .. Width, p2 \in 0 .. Width, q1 \in 0 .. Width,
           q2 \in 0 .. Width :
         p = <<p1, p2>> /\ q = <<q1, q2>>
  BY Coordinates
<1>2. PICK x \in Nat, y \in Nat :
         /\ x = (p1 - q1) * (p1 - q1) /\ y = (p2 - q2) * (p2 - q2)
         /\ (x = 0 => p1 = q1) /\ (y = 0 => p2 = q2)
         /\ x <= Width * Width /\ y <= Width * Width
  BY SquareOfDifference
<1>3. Square(p, q) = x + y
  BY <1>1, <1>2 DEF Square
<1>4. Square(p, q) = 0 => p = q
  BY <1>1, <1>2, <1>3
<1>5. Width * Width + Width * Width <= Far /\ Far \in Nat
  <2>1. Width \in Nat /\ Width * Width \in Nat
    BY GeometryAssumption
  <2>2. (Width + 1) * (Width + 1) = Width * Width + 2 * Width + 1
    BY <2>1
  <2>3. QED
    BY <2>1, <2>2 DEF Far
<1>6. p = q => Square(p, q) = 0
  <2>1. (p1 - p1) * (p1 - p1) = 0 /\ (p2 - p2) * (p2 - p2) = 0
    OBVIOUS
  <2>2. QED
    BY <1>1, <2>1 DEF Square
<1>7. Square(p, q) \in Nat /\ Square(p, q) <= Far
  <2>1. Width * Width \in Nat
    BY GeometryAssumption
  <2>2. QED
    BY <1>2, <1>3, <1>5, <2>1
<1>8. QED
  BY <1>4, <1>5, <1>6, <1>7

\* How far a point is from a side, and how far along the line its foot is.
Off(l, p, i) == Square(p, FootOn(l, i, p))
Along(l, p, i) == Way(l)[i] + Length(l[i], FootOn(l, i, p))

LEMMA FootOnIs ==
    ASSUME NEW l \in Lines, NEW p \in Point, NEW i \in Sides(l)
    PROVE  /\ FootOn(l, i, p) \in Point /\ Off(l, p, i) \in Nat
           /\ Along(l, p, i) \in Nat
           /\ At(l, Along(l, p, i), i, FootOn(l, i, p))
           /\ Along(l, p, i) <= Total(l)
           /\ \A q \in Point :
                 On(q, l[i], l[i + 1]) /\ q # FootOn(l, i, p) =>
                    Off(l, p, i) < Square(p, q)
<1>1. l[i] \in Point /\ l[i + 1] \in Point /\ Axis(l[i], l[i + 1])
  BY SideIs
<1>2. FootOn(l, i, p) \in Point /\ On(FootOn(l, i, p), l[i], l[i + 1])
  BY <1>1, FootIsNearest DEF FootOn
<1>3. Length(l[i], FootOn(l, i, p)) \in 0 .. Length(l[i], l[i + 1])
  BY <1>1, <1>2, AlongSide
<1>4. /\ Way(l)[i] \in Nat /\ Way(l)[i + 1] \in Nat
      /\ Length(l[i], l[i + 1]) \in Nat
      /\ Way(l)[i + 1] = Way(l)[i] + Length(l[i], l[i + 1])
  BY SideIs
<1>5. /\ Along(l, p, i) \in Nat /\ Way(l)[i] <= Along(l, p, i)
      /\ Along(l, p, i) <= Way(l)[i + 1]
      /\ Length(l[i], FootOn(l, i, p)) = Along(l, p, i) - Way(l)[i]
  BY <1>3, <1>4 DEF Along
<1>6. At(l, Along(l, p, i), i, FootOn(l, i, p))
  BY <1>2, <1>5 DEF At
<1>7. Along(l, p, i) <= Total(l)
  <2>1. Way(l)[i + 1] <= Total(l) /\ Total(l) \in Nat
    BY SideIs, TotalIs
  <2>2. QED
    BY <1>4, <1>5, <2>1
<1>8. \A q \in Point : On(q, l[i], l[i + 1]) /\ q # FootOn(l, i, p) =>
         Off(l, p, i) < Square(p, q)
  BY <1>1, FootIsNearest DEF FootOn, Off
<1>9. QED
  BY <1>2, <1>5, <1>6, <1>7, <1>8, SquareIs DEF Off

\* The state of the scan when i sides have been looked at: j is the first of
\* the nearest that has a length.
IsFirst(l, p, i, j) ==
    /\ j \in 1 .. i /\ SegLen(l, j) # 0
    /\ \A k \in 1 .. i : SegLen(l, k) # 0 =>
          /\ Off(l, p, j) <= Off(l, p, k)
          /\ k < j => Off(l, p, j) < Off(l, p, k)
ScanState == [best : Int, along : Nat, passed : Nat]
Scanned(l, p, i, s) ==
    /\ s \in ScanState /\ s.passed = Way(l)[i + 1]
    /\ \/ /\ s.best = -1 /\ s.along = 0
          /\ \A k \in 1 .. i : SegLen(l, k) = 0
       \/ \E j \in 1 .. i : /\ IsFirst(l, p, i, j)
                            /\ s.best = Off(l, p, j)
                            /\ s.along = Along(l, p, j)

LEMMA SideIsScanned ==
    ASSUME NEW l \in Lines, NEW p \in Point, NEW i \in Sides(l), NEW s,
           Scanned(l, p, i - 1, s)
    PROVE  Scanned(l, p, i, Side(l, p, i, s))
<1> DEFINE n == SegLen(l, i)
           f == FootOn(l, i, p)
           d == Square(p, f)
           t == Side(l, p, i, s)
<1>1. /\ i \in Nat /\ i >= 1 /\ n \in Nat /\ Way(l)[i] \in Nat
      /\ Way(l)[i + 1] = Way(l)[i] + n /\ i \in 1 .. Len(l)
      /\ (i - 1) + 1 = i
  BY SideIs
<1>2. /\ s \in ScanState /\ s.passed = Way(l)[i] /\ s.best \in Int
      /\ s.along \in Nat
  BY <1>1 DEF Scanned, ScanState
<1>3. d \in Nat /\ d = Off(l, p, i) /\ Length(l[i], f) \in Nat
      /\ Along(l, p, i) = Way(l)[i] + Length(l[i], f)
      /\ Along(l, p, i) \in Nat
  <2>1. /\ f \in Point /\ On(f, l[i], l[i + 1]) /\ l[i] \in Point
        /\ l[i + 1] \in Point /\ Axis(l[i], l[i + 1])
    BY FootOnIs, SideIs DEF At
  <2>2. QED
    BY <2>1, FootOnIs, AlongSide DEF Off, Along
<1>4. \A k \in 1 .. i : k = i \/ k \in 1 .. i - 1
  BY <1>1
<1>5. \A k \in 1 .. i : k \in Sides(l) /\ Off(l, p, k) \in Nat
  <2>1. \A k \in 1 .. i : k \in Sides(l)
    BY <1>1, LineIs DEF Sides
  <2>2. QED
    BY <2>1, FootOnIs
<1> HIDE DEF n, f, d
<1>6. CASE n = 0
  <2>1. t = s
    BY <1>6 DEF Side, n
  <2>2. \A j \in 1 .. i - 1 : IsFirst(l, p, i - 1, j) => IsFirst(l, p, i, j)
    BY <1>1, <1>4, <1>6 DEF IsFirst, n
  <2>3. QED
    BY <1>1, <1>2, <1>4, <1>6, <2>1, <2>2 DEF Scanned, n
<1>7. CASE n # 0 /\ Nearer(d, s.best)
  <2>1. t = [best |-> d, along |-> s.passed + Length(l[i], f),
             passed |-> s.passed + n]
    BY <1>7 DEF Side, n, f, d
  <2>2. /\ t \in ScanState /\ t.passed = Way(l)[i + 1]
        /\ t.best = Off(l, p, i) /\ t.along = Along(l, p, i)
    BY <1>1, <1>2, <1>3, <2>1 DEF ScanState
  <2>3. ASSUME NEW k \in 1 .. i, SegLen(l, k) # 0, k # i
        PROVE  Off(l, p, i) < Off(l, p, k)
    <3>1. k \in 1 .. i - 1
      BY <1>4, <2>3
    <3>2. s.best # -1
      <4>1. SUFFICES ASSUME s.best = -1 PROVE FALSE
        OBVIOUS
      <4>2. \A j \in 1 .. i - 1 : Off(l, p, j) # -1
        BY <1>1, <1>5
      <4>3. \A j \in 1 .. i - 1 : SegLen(l, j) = 0
        BY <4>1, <4>2 DEF Scanned
      <4>4. QED
        BY <2>3, <3>1, <4>3
    <3>3. PICK j \in 1 .. i - 1 : /\ IsFirst(l, p, i - 1, j)
                                  /\ s.best = Off(l, p, j)
      BY <3>2 DEF Scanned
    <3>4. Off(l, p, j) <= Off(l, p, k)
      BY <2>3, <3>1, <3>3 DEF IsFirst
    <3>5. d < s.best
      BY <1>7, <3>2 DEF Nearer
    <3>6. Off(l, p, j) \in Nat /\ Off(l, p, k) \in Nat
      BY <1>5, <1>1
    <3>7. QED
      BY <1>3, <3>3, <3>4, <3>5, <3>6
  <2>4. IsFirst(l, p, i, i)
    BY <1>1, <1>5, <1>7, <2>3 DEF IsFirst, n
  <2>5. QED
    BY <1>1, <2>2, <2>4 DEF Scanned
<1>8. CASE n # 0 /\ ~ Nearer(d, s.best)
  <2>1. t = [s EXCEPT !.passed = @ + n]
    BY <1>8 DEF Side, n, f, d
  <2>2. /\ t \in ScanState /\ t.passed = Way(l)[i + 1]
        /\ t.best = s.best /\ t.along = s.along
    BY <1>1, <1>2, <2>1 DEF ScanState
  <2>3. s.best # -1 /\ s.best <= d
    BY <1>2, <1>3, <1>8 DEF Nearer
  <2>4. PICK j \in 1 .. i - 1 : /\ IsFirst(l, p, i - 1, j)
                                /\ s.best = Off(l, p, j)
                                /\ s.along = Along(l, p, j)
    BY <2>3 DEF Scanned
  <2>5. j \in 1 .. i /\ j < i
    BY <1>1
  <2>6. IsFirst(l, p, i, j)
    BY <1>3, <1>4, <2>3, <2>4, <2>5 DEF IsFirst
  <2>7. QED
    BY <2>2, <2>4, <2>5, <2>6 DEF Scanned
<1>9. QED
  BY <1>6, <1>7, <1>8

\* The scan of all sides.
LEMMA ScanIs ==
    ASSUME NEW l \in Lines, NEW p \in Point, Len(l) >= 2
    PROVE  Scanned(l, p, Len(l) - 1, Scan(l, p))
<1> DEFINE N == Len(l) - 1
           base == [best |-> -1, along |-> 0, passed |-> 0]
           Is(g) == g = [i \in 0 .. N |-> IF i = 0 THEN base
                                          ELSE Side(l, p, i, g[i - 1])]
<1>1. N \in Nat /\ Sides(l) = 1 .. N
  BY LineIs DEF Sides
<1>2. Scanned(l, p, 0, base)
  BY WayIs DEF Scanned, ScanState
<1>3. \E g : Is(g)
  <2> DEFINE step == [i \in 1 .. N |-> [s \in ScanState |-> Side(l, p, i, s)]]
  <2>1. ASSUME NEW i \in 1 .. N, NEW s \in ScanState
        PROVE  Side(l, p, i, s) \in ScanState
    <3>1. /\ SegLen(l, i) \in Nat /\ FootOn(l, i, p) \in Point
          /\ Square(p, FootOn(l, i, p)) \in Nat
      BY <1>1, SideIs, FootOnIs, SquareIs
    <3>2. Length(l[i], FootOn(l, i, p)) \in Nat
      <4>1. /\ On(FootOn(l, i, p), l[i], l[i + 1]) /\ l[i] \in Point
            /\ l[i + 1] \in Point /\ Axis(l[i], l[i + 1])
        BY <1>1, FootOnIs, SideIs DEF At
      <4>2. QED
        BY <3>1, <4>1, AlongSide
    <3>3. QED
      BY <3>1, <3>2 DEF Side, ScanState
  <2>2. step \in [1 .. N -> [ScanState -> ScanState]]
    BY <2>1
  <2>3. base \in ScanState
    BY DEF ScanState
  <2>4. PICK g : Runs(g, N, ScanState, base, step)
    <3> HIDE DEF step, base
    <3> QED
      BY <1>1, <2>2, <2>3, LoopRuns
  <2>5. g \in [0 .. N -> ScanState] /\ g[0] = base
    BY <2>4 DEF Runs
  <2>6. ASSUME NEW i \in 1 .. N PROVE g[i] = Side(l, p, i, g[i - 1])
    <3>1. i - 1 \in 0 .. N
      BY <1>1
    <3>2. g[i] = step[i][g[i - 1]] /\ g[i - 1] \in ScanState
      BY <2>4, <2>5, <3>1 DEF Runs
    <3>3. QED
      BY <3>2
  <2>7. \A i \in 0 .. N : g[i] = IF i = 0 THEN base
                                 ELSE Side(l, p, i, g[i - 1])
    BY <1>1, <2>5, <2>6
  <2>8. QED
    BY <2>5, <2>7
<1>4. PICK g : Scan(l, p) = g[N] /\ Is(g)
  <2>1. Scan(l, p) = (CHOOSE g : Is(g))[N]
    BY DEF Scan
  <2>2. QED
    BY <1>3, <2>1
<1>5. \A i \in 0 .. N : g[i] = IF i = 0 THEN base
                               ELSE Side(l, p, i, g[i - 1])
  BY <1>4
<1> HIDE DEF base, Is
<1> DEFINE Bad == {i \in 0 .. N : ~ Scanned(l, p, i, g[i])}
<1>6. Bad = {}
  <2>1. SUFFICES ASSUME Bad # {} PROVE FALSE
    OBVIOUS
  <2>2. Bad \in SUBSET Nat
    BY <1>1
  <2>3. PICK k \in Bad : \A m \in Bad : k <= m
    BY <2>1, <2>2, LeastNat
  <2>4. /\ k \in 0 .. N /\ ~ Scanned(l, p, k, g[k])
        /\ \A m \in Bad : m \in Nat
    BY <2>2, <2>3
  <2>5. k # 0
    BY <1>2, <1>5, <2>4
  <2>6. k - 1 \in 0 .. N /\ k - 1 < k /\ k \in 1 .. N
    BY <1>1, <2>4, <2>5
  <2>7. Scanned(l, p, k - 1, g[k - 1])
    <3>1. k - 1 \notin Bad
      <4> HIDE DEF Bad
      <4> QED
        BY <1>1, <2>3, <2>4, <2>6
    <3>2. QED
      BY <2>6, <3>1
  <2>8. g[k] = Side(l, p, k, g[k - 1])
    BY <1>5, <2>4, <2>5
  <2>9. QED
    BY <1>1, <2>4, <2>6, <2>7, <2>8, SideIsScanned
<1>7. N \in 0 .. N
  BY <1>1
<1>8. QED
  BY <1>4, <1>6, <1>7

-----------------------------------------------------------------------------
(* Where a bus is put.                                                      *)

\* The side that is found: it has a length, none before it is as near and
\* none after it is nearer.
LEMMA NearestSide ==
    ASSUME NEW l \in Lines, NEW p \in Point, Total(l) > 0
    PROVE  \E j \in Sides(l) : /\ SegLen(l, j) # 0
                               /\ DistAlong(l, p) = Along(l, p, j)
                               /\ IsFirst(l, p, Len(l) - 1, j)
<1>1. Len(l) >= 2 /\ Len(l) \in Nat /\ Sides(l) = 1 .. Len(l) - 1
  BY LineIs, TotalIs DEF Sides
<1>2. PICK i \in Sides(l) : SegLen(l, i) # 0
  <2>1. 0 \in 0 .. Total(l)
    BY TotalIs
  <2>2. QED
    BY <2>1, SideAtPlace
<1>3. Scanned(l, p, Len(l) - 1, Scan(l, p))
  BY <1>1, ScanIs
<1>4. PICK j \in 1 .. Len(l) - 1 : /\ IsFirst(l, p, Len(l) - 1, j)
                                   /\ Scan(l, p).along = Along(l, p, j)
  BY <1>1, <1>2, <1>3 DEF Scanned
<1>5. DistAlong(l, p) = Scan(l, p).along
  BY <1>1 DEF DistAlong
<1>6. QED
  BY <1>1, <1>4, <1>5 DEF IsFirst

LEMMA DistAlongIs ==
    ASSUME NEW l \in Lines, NEW p \in Point
    PROVE  /\ DistAlong(l, p) \in 0 .. Total(l)
           /\ Remaining(l, p) + DistAlong(l, p) = Total(l)
<1>1. Total(l) \in Nat /\ Len(l) \in Nat
  BY TotalIs, LineIs
<1>2. CASE Total(l) > 0
  <2>1. PICK j \in Sides(l) : DistAlong(l, p) = Along(l, p, j)
    BY <1>2, NearestSide
  <2>2. DistAlong(l, p) \in 0 .. Total(l)
    BY <1>1, <2>1, FootOnIs
  <2>3. Remaining(l, p) = Total(l) - DistAlong(l, p)
    <3>1. ~ (Len(l) < 2 \/ Total(l) = 0)
      BY <1>1, <1>2, TotalIs
    <3>2. PICK r \in Nat : r = Total(l) - DistAlong(l, p)
      BY <1>1, <2>2
    <3>3. Remaining(l, p) = Max({0, r})
      BY <3>1, <3>2 DEF Remaining
    <3>4. Max({0, r}) = r
      BY LesserGreater
    <3>5. QED
      BY <3>2, <3>3, <3>4
  <2>4. QED
    BY <1>1, <2>2, <2>3
<1>3. CASE Total(l) = 0 /\ Len(l) >= 2
  <2>1. Scanned(l, p, Len(l) - 1, Scan(l, p))
    BY <1>3, ScanIs
  <2>2. \A i \in 1 .. Len(l) - 1 : SegLen(l, i) = 0
    <3>1. ASSUME NEW i \in Sides(l) PROVE SegLen(l, i) = 0
      <4>1. /\ Way(l)[i + 1] <= 0 /\ Way(l)[i + 1] = Way(l)[i] + SegLen(l, i)
            /\ Way(l)[i] \in Nat /\ SegLen(l, i) \in Nat
        BY <1>3, SideIs, TotalIs
      <4>2. QED
        BY <4>1
    <3>2. QED
      BY <3>1 DEF Sides
  <2>3. Scan(l, p).along = 0
    BY <2>1, <2>2 DEF Scanned, IsFirst
  <2>4. QED
    BY <1>3, <2>3 DEF DistAlong, Remaining
<1>4. CASE Len(l) < 2
  BY <1>4, TotalIs DEF DistAlong, Remaining
<1>5. QED
  BY <1>1, <1>2, <1>3, <1>4

\* The distance from the line is that of the side that is found.
LEMMA OffRouteIs ==
    ASSUME NEW l \in Lines, NEW p \in Point, NEW j \in Sides(l),
           Total(l) > 0, SegLen(l, j) # 0, IsFirst(l, p, Len(l) - 1, j)
    PROVE  OffRoute(l, p) = Off(l, p, j)
<1> DEFINE D == {IF SegLen(l, i) = 0 THEN Square(p, l[i])
                 ELSE Square(p, FootOn(l, i, p)) : i \in Sides(l)}
<1>1. Len(l) >= 2 /\ Len(l) \in Nat /\ Sides(l) = 1 .. Len(l) - 1
      /\ l # <<>> /\ Len(l) # 1
  BY LineIs, TotalIs, EmptySeq DEF Sides
<1>2. OffRoute(l, p) = Min(D)
  BY <1>1 DEF OffRoute
<1>3. Off(l, p, j) \in D
  BY DEF Off
<1>4. ASSUME NEW i \in Sides(l), SegLen(l, i) # 0
      PROVE  Off(l, p, j) <= Off(l, p, i)
  BY <1>1, <1>4 DEF IsFirst
<1>5. ASSUME NEW i \in Sides(l), SegLen(l, i) = 0
      PROVE  Off(l, p, j) <= Square(p, l[i])
  <2>1. Way(l)[i] \in 0 .. Total(l) /\ i \in 1 .. Len(l) /\ l[i] \in Point
        /\ l[i + 1] \in Point /\ Axis(l[i], l[i + 1])
    BY SideIs, TotalIs
  <2>2. PICK n \in Nat : n = Way(l)[i]
    BY <2>1, TotalIs
  <2>3. At(l, n, i, l[i])
    BY <2>1, <2>2, SideIs, AlongSide DEF At
  <2>4. PICK k \in Sides(l) : SegLen(l, k) # 0 /\ At(l, n, k, PointAt(l, n))
    BY <2>1, <2>2, PointAtIs
  <2>5. l[i] = PointAt(l, n)
    BY <2>1, <2>2, <2>3, PointAtIs
  <2>6. On(l[i], l[k], l[k + 1])
    BY <2>4, <2>5 DEF At
  <2>7. Off(l, p, k) <= Square(p, l[i])
    <3>1. Off(l, p, k) \in Nat
      BY FootOnIs
    <3>2. CASE l[i] = FootOn(l, k, p)
      <4>1. Off(l, p, k) = Square(p, l[i])
        BY <3>2 DEF Off
      <4>2. QED
        BY <3>1, <4>1
    <3>3. CASE l[i] # FootOn(l, k, p)
      <4>1. Off(l, p, k) < Square(p, l[i])
        BY <2>1, <2>6, <3>3, FootOnIs
      <4>2. QED
        BY <2>1, <3>1, <4>1, SquareIs
    <3>4. QED
      BY <3>2, <3>3
  <2>8. Off(l, p, j) <= Off(l, p, k)
    BY <1>4, <2>4
  <2>9. Off(l, p, j) \in Nat /\ Off(l, p, k) \in Nat /\ Square(p, l[i]) \in Nat
    BY <2>1, FootOnIs, SquareIs
  <2>10. QED
    BY <2>7, <2>8, <2>9
<1>6. \A d \in D : Off(l, p, j) <= d /\ d \in Nat
  <2>1. ASSUME NEW i \in Sides(l)
        PROVE  LET d == IF SegLen(l, i) = 0 THEN Square(p, l[i])
                        ELSE Square(p, FootOn(l, i, p))
               IN  Off(l, p, j) <= d /\ d \in Nat
    <3>1. CASE SegLen(l, i) = 0
      BY <1>5, <3>1, SideIs, SquareIs
    <3>2. CASE SegLen(l, i) # 0
      BY <1>4, <3>2, FootOnIs DEF Off
    <3>3. QED
      BY <3>1, <3>2
  <2>2. QED
    BY <2>1
<1>7. Off(l, p, j) \in Nat
  BY FootOnIs
<1> HIDE DEF D
<1>8. Min(D) \in D /\ Min(D) <= Off(l, p, j)
  BY <1>3, <1>6 DEF Min
<1>9. QED
  BY <1>2, <1>6, <1>7, <1>8

\* The place is the first of the nearest.
LEMMA PlaceIsFirst ==
    ASSUME NEW l \in Lines, NEW p \in Point, Total(l) > 0
    PROVE  /\ Square(p, PointAt(l, DistAlong(l, p))) = OffRoute(l, p)
           /\ \A m \in 0 .. DistAlong(l, p) - 1 :
                 Square(p, PointAt(l, m)) > OffRoute(l, p)
<1>1. PICK j \in Sides(l) : /\ SegLen(l, j) # 0
                            /\ DistAlong(l, p) = Along(l, p, j)
                            /\ IsFirst(l, p, Len(l) - 1, j)
  BY NearestSide
<1>2. OffRoute(l, p) = Off(l, p, j)
  BY <1>1, OffRouteIs
<1>3. /\ FootOn(l, j, p) \in Point /\ Along(l, p, j) \in 0 .. Total(l)
      /\ At(l, Along(l, p, j), j, FootOn(l, j, p)) /\ Off(l, p, j) \in Nat
  BY FootOnIs, TotalIs
<1>4. PointAt(l, Along(l, p, j)) = FootOn(l, j, p)
  BY <1>3, PointAtIs
<1>5. ASSUME NEW m \in 0 .. Along(l, p, j) - 1
      PROVE  Square(p, PointAt(l, m)) > Off(l, p, j)
  <2>1. m \in 0 .. Total(l) /\ m \in Nat /\ m < Along(l, p, j)
    BY <1>3, TotalIs
  <2>2. PICK q \in Point : q = PointAt(l, m)
    BY <2>1, PointAtIs
  <2>3. PICK k \in Sides(l) : SegLen(l, k) # 0 /\ At(l, m, k, q)
    BY <2>1, <2>2, PointAtIs
  <2>4. /\ On(q, l[k], l[k + 1]) /\ Way(l)[k] <= m /\ m <= Way(l)[k + 1]
        /\ Length(l[k], q) = m - Way(l)[k]
    BY <2>3 DEF At
  <2>5. k \in Nat /\ j \in Nat
    BY SideIs
  <2>6. Off(l, p, k) \in Nat /\ Square(p, q) \in Nat
        /\ (q # FootOn(l, k, p) => Off(l, p, k) < Square(p, q))
        /\ (q = FootOn(l, k, p) => Off(l, p, k) = Square(p, q))
    BY <2>4, FootOnIs, SquareIs DEF Off
  <2>7. CASE k < j
    <3>1. Off(l, p, j) < Off(l, p, k)
      BY <1>1, <2>3, <2>7 DEF IsFirst, Sides
    <3>2. QED
      BY <1>3, <2>2, <2>6, <3>1
  <2>8. CASE k = j
    <3>1. Way(l)[j] \in Nat /\ Along(l, p, j) \in Nat
      BY <1>3, SideIs
    <3>2. Length(l[j], FootOn(l, j, p)) = Along(l, p, j) - Way(l)[j]
      BY <1>3 DEF At
    <3>3. Length(l[j], q) # Length(l[j], FootOn(l, j, p))
      BY <2>1, <2>4, <2>8, <3>1, <3>2
    <3>4. QED
      BY <2>2, <2>6, <2>8, <3>3
  <2>9. CASE k > j
    <3>1. j + 1 <= k /\ j + 1 \in 1 .. Len(l) /\ k \in 1 .. Len(l)
      BY <2>5, <2>9, SideIs
    <3>2. Way(l)[j + 1] <= Way(l)[k]
      BY <3>1, WayGrows
    <3>3. Along(l, p, j) <= Way(l)[j + 1]
      BY <1>3 DEF At
    <3>4. /\ Way(l)[j + 1] \in Nat /\ Way(l)[k] \in Nat
          /\ Along(l, p, j) \in Nat
      BY <1>3, SideIs
    <3>5. QED
      BY <2>1, <2>4, <3>2, <3>3, <3>4
  <2>10. QED
    BY <2>5, <2>7, <2>8, <2>9
<1>6. QED
  BY <1>1, <1>2, <1>4, <1>5, SquareIs DEF Off

\* On a line that does not touch itself a point of the line is its place.
LEMMA PlaceOfPoint ==
    ASSUME NEW l \in Lines, Simple(l), Total(l) > 0, NEW n \in 0 .. Total(l)
    PROVE  DistAlong(l, PointAt(l, n)) = n
<1>1. PICK q \in Point : q = PointAt(l, n)
  BY PointAtIs
<1>2. PICK m \in 0 .. Total(l) : m = DistAlong(l, q)
  BY DistAlongIs
<1>3. PICK r \in Point : r = PointAt(l, m)
  BY PointAtIs
<1>4. Square(q, r) = OffRoute(l, q)
  BY <1>2, <1>3, PlaceIsFirst
<1>5. OffRoute(l, q) = 0
  <2>1. PICK i \in Sides(l) : SegLen(l, i) # 0 /\ At(l, n, i, q)
    BY <1>1, PointAtIs
  <2>2. PICK j \in Sides(l) : /\ SegLen(l, j) # 0
                              /\ IsFirst(l, q, Len(l) - 1, j)
    BY NearestSide
  <2>3. OffRoute(l, q) = Off(l, q, j) /\ Off(l, q, j) \in Nat
    BY <2>2, OffRouteIs, FootOnIs
  <2>4. Off(l, q, j) <= Off(l, q, i)
    BY <2>1, <2>2 DEF IsFirst, Sides
  <2>5. Off(l, q, i) = 0
    <3>1. l[i] \in Point /\ l[i + 1] \in Point /\ On(q, l[i], l[i + 1])
      BY <2>1, SideIs DEF At
    <3>2. FootOn(l, i, q) = q
      BY <3>1, FootIsNearest DEF FootOn
    <3>3. QED
      BY <3>2, SquareIs DEF Off
  <2>6. QED
    BY <2>3, <2>4, <2>5
<1>6. q = r
  BY <1>4, <1>5, SquareIs
<1>7. QED
  BY <1>1, <1>2, <1>3, <1>6 DEF Simple

\* Both copies of the projection measure the same.
LEMMA CopiesMeasureTheSame ==
    ASSUME NEW l \in Lines, NEW p \in Point, l # <<>>
    PROVE  OffRoute(l, p) = OffPolyline(l, p)
<1> DEFINE D == {IF SegLen(l, i) = 0 THEN Square(p, l[i])
                 ELSE Square(p, FootOn(l, i, p)) : i \in Sides(l)}
<1>1. CASE Len(l) = 1
  BY <1>1 DEF OffRoute, OffPolyline
<1>2. CASE Len(l) # 1
  <2>1. OffRoute(l, p) = Min(D) /\ OffPolyline(l, p) = Min({Far} \union D)
    BY <1>2 DEF OffRoute, OffPolyline
  <2>2. D # {}
    <3>1. Len(l) \in Nat /\ Len(l) # 0
      BY LineIs, EmptySeq
    <3>2. PICK n \in Nat : n = Len(l) /\ n # 0 /\ n # 1
      BY <1>2, <3>1
    <3>3. 1 \in 1 .. n - 1
      BY <3>2
    <3>4. 1 \in Sides(l)
      BY <3>2, <3>3 DEF Sides
    <3>5. QED
      BY <3>4
  <2>3. \A d \in D : d \in Nat /\ d <= Far
    <3>1. \A i \in Sides(l) : /\ Square(p, l[i]) \in Nat
                              /\ Square(p, l[i]) <= Far
                              /\ Square(p, FootOn(l, i, p)) \in Nat
                              /\ Square(p, FootOn(l, i, p)) <= Far
      BY SideIs, FootOnIs, SquareIs
    <3>2. QED
      BY <3>1
  <2> HIDE DEF D
  <2>4. Far \in Nat
    BY SquareIs
  <2>5. D \in SUBSET Nat
    BY <2>3
  <2>6. PICK a \in D : \A d \in D : a <= d
    BY <2>2, <2>5, LeastNat
  <2>7. Min(D) = a
    <3>1. Min(D) \in D /\ \A d \in D : Min(D) <= d
      BY <2>6 DEF Min
    <3>2. QED
      BY <2>3, <2>6, <3>1
  <2>8. Min({Far} \union D) = a
    <3>1. a \in {Far} \union D /\ \A d \in {Far} \union D : a <= d
      BY <2>3, <2>6
    <3>2. /\ Min({Far} \union D) \in {Far} \union D
          /\ \A d \in {Far} \union D : Min({Far} \union D) <= d
      BY <3>1 DEF Min
    <3>3. PICK b \in Nat : b = Min({Far} \union D)
      BY <2>3, <2>4, <3>2
    <3>4. a <= b /\ b <= a /\ a \in Nat
      BY <2>3, <3>1, <3>2, <3>3
    <3>5. QED
      BY <3>3, <3>4
  <2>9. QED
    BY <2>1, <2>7, <2>8
<1>3. QED
  BY <1>1, <1>2

-----------------------------------------------------------------------------
(* The states.                                                              *)

\* What the steps keep: the line, places along it, and a reading on the grid.
GeometryIsTyped ==
    /\ line \in Lines /\ at \in 0 .. Total(line) /\ gps \in Point
    /\ stops \in Seq(0 .. Total(line))

LEMMA TypedIsCorrect == GeometryIsTyped => GeometryInv
<1>1. SUFFICES ASSUME GeometryIsTyped PROVE GeometryInv
  OBVIOUS
<1>2. /\ line \in Lines /\ at \in 0 .. Total(line) /\ gps \in Point
      /\ stops \in Seq(0 .. Total(line)) /\ Total(line) \in Nat
  BY <1>1, TotalIs DEF GeometryIsTyped
<1>3. \A k \in DOMAIN stops : stops[k] \in 0 .. Total(line)
  BY <1>2, LenProperties, ElementOfSeq
<1>4. GeometryTypeOK
  BY <1>2, <1>3, DistAlongIs DEF GeometryTypeOK
<1>5. PlaceIsExact
  BY <1>2, PlaceOfPoint DEF PlaceIsExact, OnLine
<1>6. FirstOfNearest
  BY <1>2, PlaceIsFirst DEF FirstOfNearest
<1>7. StopsAheadAreAhead
  <2>1. SUFFICES ASSUME Simple(line), OnLine
                 PROVE  [k \in DOMAIN stops |-> StopPlace(line, stops[k])
                                                   - DistAlong(line, gps)]
                           = [k \in DOMAIN stops |-> stops[k] - at]
    BY DEF StopsAheadAreAhead, Ahead
  <2>2. DistAlong(line, gps) = at
    BY <1>2, <2>1, PlaceOfPoint DEF OnLine
  <2>3. \A k \in DOMAIN stops : StopPlace(line, stops[k]) = stops[k]
    BY <1>2, <1>3, <2>1, PlaceOfPoint DEF OnLine, StopPlace
  <2>4. QED
    BY <2>2, <2>3
<1>8. CopiesAgree
  BY <1>2, CopiesMeasureTheSame DEF CopiesAgree
<1>9. QED
  BY <1>4, <1>5, <1>6, <1>7, <1>8 DEF GeometryInv

\* For any grid and any lines on it whose sides are parallel to an axis: a
\* bus is put at the first of the nearest points of its line, which on a line
\* that does not touch itself is where it is; its stops ahead are those it
\* has not left; and both services measure the same distance from the line
\* (get_dist_along_route, calculate_route_progress, distance_to_route,
\* distance_to_polyline).
THEOREM GeometryCorrect == GeometrySpec => []GeometryInv
<1>1. GeometryInit => GeometryIsTyped
  <2>1. SUFFICES ASSUME GeometryInit PROVE GeometryIsTyped
    OBVIOUS
  <2>2. line \in Lines /\ Total(line) \in Nat /\ at = 0
    BY <2>1, TotalIs DEF GeometryInit
  <2>3. gps \in Point
    BY <2>1, <2>2, PointAtIs DEF GeometryInit
  <2>4. stops \in Seq(0 .. Total(line))
    <3>1. CASE Total(line) = 0
      BY <2>1, <3>1, EmptySeq DEF GeometryInit
    <3>2. CASE Total(line) # 0
      <4>1. stops = [k \in 1 .. Total(line) + 1 |-> k - 1]
        BY <2>1, <3>2 DEF GeometryInit
      <4>2. stops \in [1 .. Total(line) + 1 -> 0 .. Total(line)]
        BY <2>2, <4>1
      <4>3. PICK n \in Nat : n = Total(line) + 1
        BY <2>2
      <4>7. PICK S : S = 0 .. Total(line)
        OBVIOUS
      <4>4. stops \in [1 .. n -> S]
        BY <4>2, <4>3, <4>7
      <4>5. stops \in Seq(S)
        BY <4>4
      <4>6. QED
        BY <4>5, <4>7
    <3>3. QED
      BY <3>1, <3>2
  <2>5. QED
    BY <2>2, <2>3, <2>4 DEF GeometryIsTyped
<1>2. GeometryIsTyped /\ [GeometryNext]_geometryVars => GeometryIsTyped'
  <2>1. SUFFICES ASSUME GeometryIsTyped, [GeometryNext]_geometryVars
                 PROVE  GeometryIsTyped'
    OBVIOUS
  <2>2. line \in Lines /\ Total(line) \in Nat /\ at \in 0 .. Total(line)
    BY <2>1, TotalIs DEF GeometryIsTyped
  <2>3. CASE Drive
    <3>1. /\ line' = line /\ stops' = stops /\ at' = at + 1
          /\ gps' = PointAt(line, at + 1) /\ at < Total(line)
      BY <2>3 DEF Drive
    <3>2. at + 1 \in 0 .. Total(line) /\ Total(line) > 0
      BY <2>2, <3>1
    <3>3. gps' \in Point
      BY <2>2, <3>1, <3>2, PointAtIs
    <3>4. QED
      BY <2>1, <3>1, <3>2, <3>3 DEF GeometryIsTyped
  <2>4. CASE Stray
    BY <2>1, <2>4 DEF Stray, GeometryIsTyped
  <2>5. CASE UNCHANGED geometryVars
    BY <2>1, <2>5 DEF geometryVars, GeometryIsTyped
  <2>6. QED
    BY <2>1, <2>3, <2>4, <2>5 DEF GeometryNext
<1>3. QED
  BY <1>1, <1>2, TypedIsCorrect, PTL DEF GeometrySpec
=============================================================================
