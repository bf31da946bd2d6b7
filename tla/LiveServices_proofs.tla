------------------------- MODULE LiveServices_proofs -------------------------
(***************************************************************************)
(* Proofs about EtaService and AnomalyService, for every set of trips and  *)
(* of buses, every window and threshold, and every bound.                  *)
(***************************************************************************)
EXTENDS EtaService, AnomalyService, FiniteSetTheorems, TLAPS

-----------------------------------------------------------------------------
(* EtaService: types and offsets.                                           *)

\* EtaTypeOK by the variables that change together.
FeatsOK  == feats \in Seq(Feature)
ThreadOK == etaThread \in Steps /\ stopEvent \in BOOLEAN
PlacesOK == /\ read \in 0 .. Len(feats) /\ joined \in 0 .. Len(feats)
            /\ from \in 0 .. Len(feats)
            /\ committed \in Nobody .. Len(feats)
SpeedsOK == speeds \in [EtaTrips -> Seq(EtaTimes)]
RedisOK  == /\ snapshot \in [EtaTrips -> 0 .. Len(feats)]
            /\ live \in Seq(1 .. Len(feats))
CountsOK == closings \in 0 .. restarts + 1 /\ restarts \in 0 .. MaxRestarts

LEMMA EtaParts ==
    EtaTypeOK <=> /\ FeatsOK /\ ThreadOK /\ PlacesOK
                  /\ SpeedsOK /\ RedisOK /\ CountsOK
  BY DEF EtaTypeOK, FeatsOK, ThreadOK, PlacesOK, SpeedsOK, RedisOK, CountsOK

LEMMA EtaPartsNext ==
    EtaTypeOK' <=> /\ FeatsOK' /\ ThreadOK' /\ PlacesOK'
                   /\ SpeedsOK' /\ RedisOK' /\ CountsOK'
  BY DEF EtaTypeOK, FeatsOK, ThreadOK, PlacesOK, SpeedsOK, RedisOK, CountsOK

\* What is counted from zero has a least member.
LEMMA LeastOf ==
    ASSUME NEW S \in SUBSET Nat, S # {}
    PROVE  \E x \in S : \A y \in S : x <= y
<1>1. PICK x \in S : \A y \in S : ~(<<y, x>> \in OpToRel(<, Nat))
  BY NatLessThanWellFounded, WFMin
<1>2. \A y \in S : <<y, x>> \in OpToRel(<, Nat) <=> y < x
  BY DEF OpToRel
<1>3. \A y \in S : ~(y < x)
  BY <1>1, <1>2, Zenon
<1> QED
  BY <1>3

\* The deque with a sample of time now is the end of s, the old one with it:
\* d of the n samples are dropped, none, those that exceed the window, or all
\* up to a stale one.
Drops(h, now, s, n, d) ==
    /\ Smoothed(h, now) \in Seq(EtaTimes)
    /\ Len(Smoothed(h, now)) = n - d /\ n - d <= Window
    /\ \A k \in 1 .. (n - d) : Smoothed(h, now)[k] = s[k + d]
    /\ s[d + 1] >= now - Ttl
    /\ d = 0 \/ n - d = Window \/ s[d] < now - Ttl

LEMMA SmoothedIs ==
    ASSUME NEW h \in Seq(EtaTimes), NEW now \in EtaTimes,
           NEW s, s = Append(h, now), NEW n, n = Len(h) + 1
    PROVE  \E d \in 0 .. (n - 1) : Drops(h, now, s, n, d)
<1>1. /\ n \in Nat /\ n >= 1 /\ s \in Seq(EtaTimes) /\ Len(s) = n
      /\ s[n] = now /\ now \in Nat /\ Ttl \in Nat
      /\ Window \in Nat /\ Window >= 1
      /\ \A k \in 1 .. n : s[k] \in Nat
  <2>1. \A x \in EtaTimes : x \in Nat
    BY EtaAssumption
  <2>2. n \in Nat /\ n >= 1 /\ s \in Seq(EtaTimes) /\ Len(s) = n /\ s[n] = now
    OBVIOUS
  <2>3. \A k \in 1 .. n : s[k] \in Nat
    <3>1. \A k \in 1 .. n : s[k] \in EtaTimes
      BY <2>2
    <3> QED
      BY <2>1, <3>1
  <2>4. Ttl \in Nat /\ Window \in Nat /\ Window >= 1
    BY EtaAssumption
  <2>5. now \in Nat
    BY <2>1
  <2> QED
    BY <2>2, <2>3, <2>4, <2>5
<1>2. PICK d0 \in 0 .. (n - 1) :
        /\ d0 = 0 \/ n - d0 = Window
        /\ n - d0 <= Window
        /\ Kept(s) = SubSeq(s, d0 + 1, n)
  <2>1. CASE n > Window
    <3>1. PICK d0 \in 0 .. (n - 1) : d0 = n - Window
      <4>1. n - Window \in 0 .. (n - 1)
        BY <1>1, <2>1
      <4> QED
        BY <4>1
    <3>2. n - d0 = Window /\ n - d0 <= Window
      BY <1>1, <3>1
    <3>3. Kept(s) = SubSeq(s, d0 + 1, n)
      BY <1>1, <2>1, <3>1 DEF Kept
    <3> QED
      BY <3>2, <3>3
  <2>2. CASE ~(n > Window)
    <3>1. PICK d0 \in 0 .. (n - 1) : d0 = 0
      BY <1>1
    <3>2. n - d0 <= Window
      BY <1>1, <2>2, <3>1
    <3>3. Kept(s) = SubSeq(s, d0 + 1, n)
      <4>1. d0 + 1 = 1
        BY <3>1
      <4> QED
        BY <1>1, <2>2, <4>1 DEF Kept
    <3> QED
      BY <3>1, <3>2, <3>3
  <2> QED
    BY <2>1, <2>2
<1> DEFINE q == Kept(s)
           c == n - d0
<1>3. /\ q \in Seq(EtaTimes) /\ Len(q) = c /\ c \in Nat /\ c >= 1
      /\ \A k \in 1 .. c : q[k] = s[k + d0]
      /\ DOMAIN q = 1 .. c
  <2>1. c \in Nat /\ c >= 1 /\ d0 + 1 \in 1 .. n
    BY <1>1, <1>2
  <2>2. q = SubSeq(s, d0 + 1, n)
    BY <1>2
  <2>3. q \in Seq(EtaTimes) /\ Len(q) = c
    BY <1>1, <2>1, <2>2
  <2>4. ASSUME NEW k \in 1 .. c
        PROVE  q[k] = s[k + d0]
    <3>1. SubSeq(s, d0 + 1, n)[k] = s[((d0 + 1) + k) - 1]
      <4>1. PICK m \in 1 .. n : m = d0 + 1
        BY <2>1
      <4>2. k \in 1 .. ((n - m) + 1)
        BY <1>1, <4>1
      <4>3. SubSeq(s, m, n)[k] = s[(m + k) - 1]
        BY <1>1, <4>2
      <4> QED
        BY <4>1, <4>3
    <3>2. ((d0 + 1) + k) - 1 = k + d0
      BY <2>1
    <3> QED
      BY <2>2, <3>1, <3>2
  <2> QED
    BY <2>1, <2>3, <2>4
<1> DEFINE young == {i \in 1 .. c : q[i] >= now - Ttl}
<1>4. PICK k \in young : \A j \in young : k <= j
  <2>1. c \in young
    <3>1. c + d0 = n /\ c \in 1 .. c
      BY <1>1, <1>2, <1>3
    <3> QED
      BY <1>1, <1>3, <3>1
  <2>2. young \in SUBSET Nat
    <3>1. \A i \in 1 .. c : i \in Nat
      BY <1>3
    <3> QED
      BY <3>1
  <2>3. young # {}
    BY <2>1
  <2> QED
    BY <2>2, <2>3, LeastOf
<1>5. /\ k \in 1 .. c /\ q[k] >= now - Ttl
      /\ \A j \in 1 .. (k - 1) : q[j] < now - Ttl
  <2>1. k \in 1 .. c /\ q[k] >= now - Ttl
    OBVIOUS
  <2>2. ASSUME NEW j \in 1 .. (k - 1)
        PROVE  q[j] < now - Ttl
    <3>1. j \in 1 .. c /\ ~(k <= j)
      BY <1>3, <2>1
    <3>2. q[j] \in Nat /\ j \notin young
      <4>1. j + d0 \in 1 .. n
        BY <1>2, <1>3, <3>1
      <4> QED
        BY <1>1, <1>3, <1>4, <3>1, <4>1
    <3> QED
      BY <1>1, <3>1, <3>2
  <2> QED
    BY <2>1, <2>2
<1>6. ASSUME NEW i \in DOMAIN q, q[i] >= now - Ttl,
             \A j \in 1 .. (i - 1) : q[j] < now - Ttl
      PROVE  i = k
  <2>1. i \in 1 .. c /\ i \in young
    BY <1>3, <1>6
  <2>2. k <= i
    BY <1>4, <2>1
  <2>3. ~(k < i)
    <3>1. SUFFICES ASSUME k < i PROVE FALSE
      OBVIOUS
    <3>2. k \in 1 .. (i - 1)
      BY <1>5, <2>1, <3>1
    <3>3. q[k] \in Nat
      <4>1. k + d0 \in 1 .. n
        BY <1>2, <1>3, <1>5
      <4> QED
        BY <1>1, <1>3, <1>5, <4>1
    <3> QED
      BY <1>1, <1>5, <1>6, <3>2, <3>3
  <2> QED
    BY <1>5, <2>1, <2>2, <2>3
<1>7. Smoothed(h, now) = SubSeq(q, k, c)
  <2>1. k = CHOOSE i \in DOMAIN q :
               /\ q[i] >= now - Ttl
               /\ \A j \in 1 .. (i - 1) : q[j] < now - Ttl
    BY <1>3, <1>5, <1>6
  <2> QED
    BY <1>3, <2>1 DEF Smoothed
<1>8. PICK d \in 0 .. (n - 1) : d = d0 + (k - 1)
  <2>1. d0 + (k - 1) \in 0 .. (n - 1)
    BY <1>2, <1>3, <1>5
  <2> QED
    BY <2>1
<1>9. /\ Smoothed(h, now) \in Seq(EtaTimes)
      /\ Len(Smoothed(h, now)) = n - d /\ n - d <= Window
      /\ \A j \in 1 .. (n - d) : Smoothed(h, now)[j] = s[j + d]
  <2>1. /\ k \in Nat /\ 1 <= k /\ k <= c /\ (c - k) + 1 = n - d
        /\ n - d <= Window /\ c = n - d0 /\ d0 \in Nat
    BY <1>1, <1>2, <1>3, <1>5, <1>8
  <2>2. /\ Smoothed(h, now) \in Seq(EtaTimes)
        /\ Len(Smoothed(h, now)) = n - d
    BY <1>3, <1>7, <2>1
  <2>3. ASSUME NEW j \in 1 .. (n - d)
        PROVE  Smoothed(h, now)[j] = s[j + d]
    <3>1. (k + j) - 1 \in 1 .. c /\ ((k + j) - 1) + d0 = j + d
      BY <1>8, <2>1
    <3>2. Smoothed(h, now)[j] = q[(k + j) - 1]
      BY <1>3, <1>7, <2>1
    <3> QED
      BY <1>3, <3>1, <3>2
  <2> QED
    BY <2>1, <2>2, <2>3
<1>10. s[d + 1] >= now - Ttl
  <2>1. d + 1 = k + d0
    BY <1>2, <1>3, <1>5, <1>8
  <2> QED
    BY <1>3, <1>5, <2>1
<1>11. d = 0 \/ n - d = Window \/ s[d] < now - Ttl
  <2>1. CASE k = 1
    BY <1>2, <1>8, <2>1
  <2>2. CASE k # 1
    <3>1. k - 1 \in 1 .. (k - 1) /\ k - 1 \in 1 .. c /\ (k - 1) + d0 = d
      BY <1>2, <1>3, <1>5, <1>8, <2>2
    <3>2. q[k - 1] < now - Ttl /\ q[k - 1] = s[(k - 1) + d0]
      BY <1>3, <1>5, <3>1
    <3> QED
      BY <3>1, <3>2
  <2> QED
    BY <2>1, <2>2
<1> QED
  BY <1>9, <1>10, <1>11 DEF Drops

\* The deque keeps its type.
LEMMA SmoothedType ==
    ASSUME NEW h \in Seq(EtaTimes), NEW now \in EtaTimes
    PROVE  Smoothed(h, now) \in Seq(EtaTimes)
  BY SmoothedIs DEF Drops

\* The loop is in one of five places.
LEMMA WhereItIs ==
    ASSUME EtaTypeOK
    PROVE  /\ etaThread \in {"joining", "idle", "setex", "publish", "closed"}
           /\ Consuming <=> etaThread \notin {"joining", "closed"}
           /\ InHand => Consuming
           /\ read \in Nat /\ joined \in Nat /\ from \in Nat
           /\ Len(feats) \in Nat /\ committed \in Int
           /\ read <= Len(feats) /\ Done \in Int
           /\ closings \in Nat /\ restarts \in Nat
<1>1. ThreadOK /\ PlacesOK /\ FeatsOK /\ CountsOK
  BY EtaParts
<1>2. etaThread \in {"joining", "idle", "setex", "publish", "closed"}
  BY <1>1 DEF ThreadOK, Steps
<1>3. /\ read \in Nat /\ joined \in Nat /\ from \in Nat
      /\ Len(feats) \in Nat /\ read <= Len(feats)
  BY <1>1 DEF PlacesOK, FeatsOK
<1>4. committed \in Int
  BY <1>1, <1>3 DEF PlacesOK, Nobody
<1>5. closings \in Nat /\ restarts \in Nat
  BY <1>1, EtaAssumption DEF CountsOK
<1> QED
  BY <1>2, <1>3, <1>4, <1>5 DEF Consuming, InHand, Done

\* The message that is taken next.
LEMMA TakenIs ==
    ASSUME EtaTypeOK, NEW K, NextIs(K)
    PROVE  /\ etaThread = "idle" /\ read' = read + 1
           /\ read + 1 \in 1 .. Len(feats)
           /\ feats[read + 1] \in Feature /\ feats[read + 1].kind \in K
<1>1. /\ etaThread = "idle" /\ read' = read + 1 /\ read < Len(feats)
      /\ feats[read + 1].kind \in K
  BY DEF NextIs
<1>2. read + 1 \in 1 .. Len(feats)
  BY <1>1, WhereItIs
<1>3. feats \in Seq(Feature)
  BY DEF EtaTypeOK
<1> QED
  BY <1>1, <1>2, <1>3

\* A message with an ETA to compute has a trip and a time.
LEMMA OkFeature ==
    ASSUME NEW m \in Feature, m.kind = "ok"
    PROVE  m.trip \in EtaTrips /\ m.ts \in EtaTimes
  BY DEF Feature

\* The ways the loop is left.
LEMMA Closing ==
    ASSUME EtaTypeOK, TakeWhenStopping \/ TakeNoStop \/ RedisRaises
    PROVE  /\ Consuming /\ etaThread' = "closed"
           /\ committed' \in {Done + 1, committed}
           /\ Done + 1 \in 0 .. Len(feats) /\ read' = Done + 1
           /\ closings' = closings + 1
           /\ UNCHANGED <<feats, stopEvent, speeds, snapshot, live, joined,
                          from, restarts>>
<1>1. CASE TakeWhenStopping \/ TakeNoStop
  <2>1. /\ etaThread = "idle" /\ read' = read + 1
        /\ read + 1 \in 1 .. Len(feats)
    BY <1>1, TakenIs DEF TakeWhenStopping, TakeNoStop
  <2>2. Done = read /\ Consuming
    BY <2>1 DEF Done, InHand, Consuming
  <2> QED
    BY <1>1, <2>1, <2>2 DEF TakeWhenStopping, TakeNoStop, CloseBehind
<1>2. CASE RedisRaises
  <2>1. etaThread \in {"setex", "publish"} /\ read' = read
    BY <1>2 DEF RedisRaises
  <2>2. Done = read - 1 /\ Consuming
    BY <2>1 DEF Done, InHand, Consuming
  <2>3. (read - 1) + 1 = read /\ read \in 0 .. Len(feats)
    BY WhereItIs
  <2> QED
    BY <1>2, <2>1, <2>2, <2>3 DEF RedisRaises, CloseBehind
<1> QED
  BY <1>1, <1>2

LEMMA EtaTypeStep ==
    EtaTypeOK /\ Offsets /\ [EtaNext]_etaVars => EtaTypeOK'
<1> SUFFICES ASSUME EtaTypeOK, Offsets, [EtaNext]_etaVars
             PROVE  /\ FeatsOK' /\ ThreadOK' /\ PlacesOK'
                    /\ SpeedsOK' /\ RedisOK' /\ CountsOK'
  BY EtaPartsNext
<1>0. /\ FeatsOK /\ ThreadOK /\ PlacesOK
      /\ SpeedsOK /\ RedisOK /\ CountsOK
  BY EtaParts
<1>c. closings <= restarts + (IF etaThread = "closed" THEN 1 ELSE 0)
  BY DEF Offsets
<1>1. CASE \E m \in Feature : Feed(m)
  <2>1. PICK m \in Feature : Feed(m)
    BY <1>1
  <2>2. /\ feats' = Append(feats, m)
        /\ UNCHANGED <<etaThread, stopEvent, read, committed, speeds,
                       snapshot, live, joined, from, closings, restarts>>
    BY <2>1 DEF Feed
  <2>3. /\ feats' \in Seq(Feature) /\ Len(feats') = Len(feats) + 1
        /\ Len(feats) \in Nat
    BY <1>0, <2>2 DEF FeatsOK
  <2>4. /\ 0 .. Len(feats) \subseteq 0 .. Len(feats')
        /\ 1 .. Len(feats) \subseteq 1 .. Len(feats')
        /\ Nobody .. Len(feats) \subseteq Nobody .. Len(feats')
    BY <2>3 DEF Nobody
  <2>5. FeatsOK' /\ ThreadOK' /\ SpeedsOK' /\ CountsOK'
    BY <1>0, <2>2, <2>3 DEF FeatsOK, ThreadOK, SpeedsOK, CountsOK
  <2>6. PlacesOK'
    BY <1>0, <2>2, <2>4 DEF PlacesOK
  <2>7. RedisOK'
    <3>1. live \in Seq(1 .. Len(feats'))
      BY <1>0, <2>4 DEF RedisOK
    <3> QED
      BY <1>0, <2>2, <2>4, <3>1 DEF RedisOK
  <2> QED
    BY <2>5, <2>6, <2>7
<1>2. CASE Join
  <2>1. /\ etaThread' = "idle" /\ joined' = read'
        /\ read' = IF committed = Nobody THEN Len(feats) ELSE committed
        /\ from' = IF committed = Nobody THEN read' ELSE from
        /\ UNCHANGED <<feats, stopEvent, committed, speeds, snapshot, live,
                       closings, restarts>>
    BY <1>2 DEF Join
  <2>2. read' \in 0 .. Len(feats)
    <3>1. /\ Len(feats) \in Nat
          /\ committed \in -1 .. Len(feats)
      BY <1>0 DEF PlacesOK, FeatsOK, Nobody
    <3> QED
      BY <2>1, <3>1 DEF Nobody
  <2>3. from' \in 0 .. Len(feats)
    BY <1>0, <2>1, <2>2 DEF PlacesOK
  <2> QED
    BY <1>0, <2>1, <2>2, <2>3
       DEF FeatsOK, ThreadOK, Steps, PlacesOK, SpeedsOK, RedisOK, CountsOK
<1>3. CASE AutoCommit
  <2>1. committed' \in Nobody .. Len(feats)
    BY <1>0, <1>3 DEF AutoCommit, PlacesOK, Nobody
  <2> QED
    BY <1>0, <1>3, <2>1
       DEF AutoCommit, FeatsOK, ThreadOK, PlacesOK, SpeedsOK, RedisOK,
           CountsOK
<1>4. CASE TakeWhenStopping \/ TakeNoStop \/ RedisRaises
  <2>1. /\ Consuming /\ etaThread' = "closed"
        /\ committed' \in {Done + 1, committed}
        /\ Done + 1 \in 0 .. Len(feats) /\ read' = Done + 1
        /\ closings' = closings + 1
        /\ UNCHANGED <<feats, stopEvent, speeds, snapshot, live, joined, from,
                       restarts>>
    BY <1>4, Closing
  <2>2. closings' \in 0 .. restarts' + 1
    <3>1. closings <= restarts
      BY <1>c, <2>1, WhereItIs DEF Consuming
    <3> QED
      BY <2>1, <3>1, WhereItIs
  <2>3. committed' \in Nobody .. Len(feats)
    BY <1>0, <2>1 DEF PlacesOK, Nobody
  <2> QED
    BY <1>0, <2>1, <2>2, <2>3
       DEF FeatsOK, ThreadOK, Steps, PlacesOK, SpeedsOK, RedisOK, CountsOK
<1>5. CASE TakeOffRoute
  <2>1. read' \in 0 .. Len(feats)
    BY <1>5, TakenIs DEF TakeOffRoute
  <2> QED
    BY <1>0, <1>5, <2>1
       DEF TakeOffRoute, FeatsOK, ThreadOK, PlacesOK, SpeedsOK, RedisOK,
           CountsOK
<1>6. CASE TakeOk
  <2>1. PICK m : m = feats[read + 1]
    OBVIOUS
  <2>2. /\ read' \in 0 .. Len(feats) /\ m \in Feature /\ m.kind = "ok"
    BY <1>6, <2>1, TakenIs DEF TakeOk
  <2>3. m.trip \in EtaTrips /\ m.ts \in EtaTimes
    BY <2>2, OkFeature
  <2>4. speeds' = [speeds EXCEPT ![m.trip] = Smoothed(speeds[m.trip], m.ts)]
    BY <1>6, <2>1 DEF TakeOk
  <2>5. Smoothed(speeds[m.trip], m.ts) \in Seq(EtaTimes)
    BY <1>0, <2>3, SmoothedType DEF SpeedsOK
  <2>6. SpeedsOK'
    BY <1>0, <2>3, <2>4, <2>5 DEF SpeedsOK
  <2> QED
    BY <1>0, <1>6, <2>2, <2>6
       DEF TakeOk, FeatsOK, ThreadOK, Steps, PlacesOK, RedisOK, CountsOK
<1>7. CASE SetSnapshot
  <2>1. snapshot' \in [EtaTrips -> 0 .. Len(feats)]
    BY <1>0, <1>7 DEF SetSnapshot, RedisOK, PlacesOK
  <2> QED
    BY <1>0, <1>7, <2>1
       DEF SetSnapshot, FeatsOK, ThreadOK, Steps, PlacesOK, SpeedsOK, RedisOK,
           CountsOK
<1>8. CASE Announce
  <2>1. read \in 1 .. Len(feats)
    <3>1. InHand
      BY <1>8 DEF Announce, InHand
    <3>2. joined < read
      BY <3>1 DEF Offsets
    <3> QED
      BY <3>2, WhereItIs
  <2>2. live' \in Seq(1 .. Len(feats))
    BY <1>0, <1>8, <2>1 DEF Announce, RedisOK
  <2> QED
    BY <1>0, <1>8, <2>2
       DEF Announce, FeatsOK, ThreadOK, Steps, PlacesOK, SpeedsOK, RedisOK,
           CountsOK
<1>9. CASE StopRequest
  BY <1>0, <1>9
     DEF StopRequest, FeatsOK, ThreadOK, PlacesOK, SpeedsOK, RedisOK, CountsOK
<1>10. CASE EtaRestart
  <2>1. /\ restarts' = restarts + 1 /\ restarts < MaxRestarts
        /\ etaThread' = "joining" /\ stopEvent' = FALSE
        /\ speeds' = NoSpeeds
        /\ UNCHANGED <<feats, read, committed, snapshot, live, joined, from,
                       closings>>
    BY <1>10 DEF EtaRestart
  <2>2. CountsOK'
    <3>1. /\ closings \in Nat /\ restarts \in Nat /\ MaxRestarts \in Nat
          /\ closings <= restarts + 1
      BY <1>0, EtaAssumption DEF CountsOK
    <3> QED
      BY <2>1, <3>1 DEF CountsOK
  <2>3. SpeedsOK'
    BY <2>1 DEF SpeedsOK, NoSpeeds
  <2> QED
    BY <1>0, <2>1, <2>2, <2>3 DEF FeatsOK, ThreadOK, Steps, PlacesOK, RedisOK
<1>11. CASE \E t \in EtaTrips : SnapshotExpires(t)
  <2>1. PICK t \in EtaTrips : SnapshotExpires(t)
    BY <1>11
  <2>2. 0 \in 0 .. Len(feats)
    BY WhereItIs
  <2>3. snapshot' \in [EtaTrips -> 0 .. Len(feats)]
    BY <1>0, <2>1, <2>2 DEF SnapshotExpires, RedisOK
  <2> QED
    BY <1>0, <2>1, <2>3
       DEF SnapshotExpires, FeatsOK, ThreadOK, PlacesOK, SpeedsOK, RedisOK,
           CountsOK
<1>12. CASE UNCHANGED etaVars
  BY <1>0, <1>12
     DEF etaVars, FeatsOK, ThreadOK, PlacesOK, SpeedsOK, RedisOK, CountsOK
<1> QED
  BY <1>1, <1>2, <1>3, <1>4, <1>5, <1>6, <1>7, <1>8, <1>9, <1>10, <1>11,
     <1>12 DEF EtaNext, Take, Store

\* What the offsets say of each other survives every step.
LEMMA OffsetsStep ==
    EtaTypeOK /\ Offsets /\ [EtaNext]_etaVars => Offsets'
<1> SUFFICES ASSUME EtaTypeOK, Offsets, [EtaNext]_etaVars
             PROVE  Offsets'
  OBVIOUS
<1>0. /\ etaThread \in {"joining", "idle", "setex", "publish", "closed"}
      /\ read \in Nat /\ joined \in Nat /\ from \in Nat
      /\ committed \in Int /\ Nobody = -1
      /\ closings \in Nat /\ restarts \in Nat
  BY WhereItIs DEF Nobody
<1>1. CASE \E m \in Feature : Feed(m)
  <2>1. PICK m \in Feature : Feed(m)
    BY <1>1
  <2>2. /\ feats' = Append(feats, m)
        /\ UNCHANGED <<etaThread, read, committed, speeds, joined, from,
                       closings, restarts>>
    BY <2>1 DEF Feed
  <2>3. InHand => (Eligible(read)' <=> Eligible(read))
    <3>1. SUFFICES ASSUME InHand PROVE Eligible(read)' <=> Eligible(read)
      OBVIOUS
    <3>2. read \in 1 .. Len(feats) /\ feats \in Seq(Feature)
      BY <1>0, <3>1, WhereItIs DEF Offsets, EtaTypeOK
    <3>3. feats'[read] = feats[read]
      BY <2>2, <3>2
    <3> QED
      BY <2>2, <3>3 DEF Eligible
  <2>4. (InHand' <=> InHand) /\ (Consuming' <=> Consuming)
    BY <2>2 DEF InHand, Consuming
  <2> QED
    BY <2>2, <2>3, <2>4 DEF Offsets, NoSpeeds
<1>2. CASE Join
  <2>1. /\ etaThread' = "idle" /\ joined' = read' /\ etaThread = "joining"
        /\ read' = IF committed = Nobody THEN Len(feats) ELSE committed
        /\ from' = IF committed = Nobody THEN read' ELSE from
        /\ UNCHANGED <<feats, committed, speeds, closings, restarts>>
    BY <1>2 DEF Join
  <2>2. read' \in Int /\ joined' <= read'
    BY <1>0, <2>1, WhereItIs
  <2>3. committed # Nobody => joined' <= committed
    BY <1>0, <2>1
  <2>4. ~InHand'
    BY <2>1 DEF InHand
  <2>5. closings' <= restarts' + (IF etaThread' = "closed" THEN 1 ELSE 0)
    BY <2>1 DEF Offsets
  <2> QED
    BY <2>1, <2>2, <2>3, <2>4, <2>5 DEF Offsets
<1>3. CASE AutoCommit
  <2>1. /\ etaThread = "idle" /\ committed' = read
        /\ UNCHANGED <<feats, etaThread, read, speeds, joined, from, closings,
                       restarts>>
    BY <1>3 DEF AutoCommit
  <2>2. Consuming /\ ~InHand /\ Consuming' /\ ~InHand'
    BY <2>1 DEF Consuming, InHand
  <2>3. joined <= read /\ committed' # Nobody
    BY <1>0, <2>1, <2>2 DEF Offsets
  <2> QED
    BY <2>1, <2>2, <2>3 DEF Offsets
<1>4. CASE TakeWhenStopping \/ TakeNoStop \/ RedisRaises
  <2>1. /\ Consuming /\ etaThread' = "closed" /\ closings' = closings + 1
        /\ restarts' = restarts
    BY <1>4, Closing
  <2>2. closings' <= restarts' + 1
    <3>1. etaThread # "closed"
      BY <2>1 DEF Consuming
    <3> QED
      BY <1>0, <2>1, <3>1 DEF Offsets
  <2> QED
    BY <2>1, <2>2 DEF Offsets, Consuming, InHand
<1>5. CASE TakeOffRoute
  <2>1. /\ etaThread = "idle" /\ read' = read + 1
        /\ UNCHANGED <<feats, etaThread, committed, speeds, joined, from,
                       closings, restarts>>
    BY <1>5, TakenIs DEF TakeOffRoute
  <2>2. Consuming /\ ~InHand'
    BY <2>1 DEF Consuming, InHand
  <2>3. joined <= read'
    BY <1>0, <2>1, <2>2 DEF Offsets
  <2> QED
    BY <2>1, <2>2, <2>3 DEF Offsets
<1>6. CASE TakeOk
  <2>1. /\ etaThread = "idle" /\ etaThread' = "setex" /\ read' = read + 1
        /\ feats[read + 1].kind = "ok"
        /\ UNCHANGED <<feats, committed, joined, from, closings, restarts>>
    BY <1>6, TakenIs DEF TakeOk
  <2>2. Consuming
    BY <2>1 DEF Consuming
  <2>3. joined < read' /\ joined <= read'
    BY <1>0, <2>1, <2>2 DEF Offsets
  <2>4. Eligible(read)'
    BY <2>1 DEF Eligible
  <2> QED
    BY <2>1, <2>2, <2>3, <2>4 DEF Offsets
<1>7. CASE SetSnapshot
  <2>1. /\ etaThread = "setex" /\ etaThread' = "publish"
        /\ UNCHANGED <<feats, read, committed, joined, from, closings,
                       restarts>>
    BY <1>7 DEF SetSnapshot
  <2>2. InHand /\ Consuming
    BY <2>1 DEF Consuming, InHand
  <2>3. Eligible(read)' <=> Eligible(read)
    BY <2>1 DEF Eligible
  <2> QED
    BY <2>1, <2>2, <2>3 DEF Offsets
<1>8. CASE Announce
  <2>1. /\ etaThread = "publish" /\ etaThread' = "idle"
        /\ UNCHANGED <<feats, read, committed, joined, from, closings,
                       restarts>>
    BY <1>8 DEF Announce
  <2>2. InHand /\ Consuming /\ ~InHand'
    BY <2>1 DEF Consuming, InHand
  <2> QED
    BY <2>1, <2>2 DEF Offsets
<1>9. CASE \/ StopRequest \/ \E t \in EtaTrips : SnapshotExpires(t)
           \/ UNCHANGED etaVars
  <2>1. UNCHANGED <<feats, etaThread, read, committed, speeds, joined, from,
                    closings, restarts>>
    BY <1>9 DEF StopRequest, SnapshotExpires, etaVars
  <2>2. /\ (InHand' <=> InHand) /\ (Consuming' <=> Consuming)
        /\ (Eligible(read)' <=> Eligible(read))
    BY <2>1 DEF InHand, Consuming, Eligible
  <2> QED
    BY <2>1, <2>2 DEF Offsets, NoSpeeds
<1>10. CASE EtaRestart
  <2>1. /\ restarts' = restarts + 1 /\ etaThread' = "joining"
        /\ speeds' = NoSpeeds /\ closings' = closings
    BY <1>10 DEF EtaRestart
  <2>2. closings <= restarts + 1
    BY <1>0 DEF Offsets
  <2>3. closings' <= restarts' + 0
    BY <1>0, <2>1, <2>2
  <2> QED
    BY <2>1, <2>3 DEF Offsets, Consuming, InHand, NoSpeeds
<1> QED
  BY <1>1, <1>2, <1>3, <1>4, <1>5, <1>6, <1>7, <1>8, <1>9, <1>10
     DEF EtaNext, Take, Store

\* A message is announced for good.
LEMMA AnnouncedGrows ==
    ASSUME EtaTypeOK, [EtaNext]_etaVars
    PROVE  /\ Announced \subseteq Announced'
           /\ Announce => Announced' = Announced \union {read}
           /\ ~Announce => live' = live
<1>1. ~Announce => live' = live
  BY DEF EtaNext, Take, Store, Feed, Join, AutoCommit, TakeWhenStopping,
         TakeOffRoute, TakeNoStop, TakeOk, SetSnapshot, RedisRaises,
         StopRequest, EtaRestart, SnapshotExpires, etaVars
<1>2. Announce => Announced' = Announced \union {read}
  <2> SUFFICES ASSUME Announce PROVE Announced' = Announced \union {read}
    OBVIOUS
  <2>1. live' = Append(live, read) /\ live \in Seq(1 .. Len(feats))
    BY DEF Announce, EtaTypeOK
  <2>2. /\ DOMAIN live' = DOMAIN live \union {Len(live) + 1}
        /\ live'[Len(live) + 1] = read
        /\ \A i \in DOMAIN live : live'[i] = live[i]
    BY <2>1
  <2> QED
    BY <2>2 DEF Announced
<1> QED
  BY <1>1, <1>2 DEF Announced

\* Messages keep their kind while the topic grows.
LEMMA EligibleStable ==
    ASSUME EtaTypeOK, [EtaNext]_etaVars
    PROVE  /\ \A i \in 1 .. Len(feats) : feats'[i] = feats[i]
           /\ \A i \in 1 .. Len(feats) : Eligible(i)' <=> Eligible(i)
<1>1. feats \in Seq(Feature)
  BY DEF EtaTypeOK
<1>2. feats' = feats \/ \E m \in Feature : feats' = Append(feats, m)
  BY DEF EtaNext, Take, Store, Feed, Join, AutoCommit, TakeWhenStopping,
         TakeOffRoute, TakeNoStop, TakeOk, SetSnapshot, Announce, RedisRaises,
         StopRequest, EtaRestart, SnapshotExpires, etaVars
<1>3. \A i \in 1 .. Len(feats) : feats'[i] = feats[i]
  BY <1>1, <1>2
<1> QED
  BY <1>3 DEF Eligible

\* What this process has dealt with, it has answered.
LEMMA AnsweredStep ==
    EtaTypeOK /\ Offsets /\ Answered /\ [EtaNext]_etaVars => Answered'
<1> SUFFICES ASSUME EtaTypeOK, Offsets, Answered, [EtaNext]_etaVars,
                    Consuming', NEW i \in ((joined + 1) .. Done)',
                    Eligible(i)'
             PROVE  i \in Announced'
  BY DEF Answered
<1>0. /\ read \in Nat /\ joined \in Nat /\ read <= Len(feats)
      /\ Len(feats) \in Nat /\ (Consuming => joined <= read)
  BY WhereItIs DEF Offsets
<1>1. /\ \A j \in 1 .. Len(feats) : Eligible(j)' <=> Eligible(j)
      /\ Announced \subseteq Announced'
  BY EligibleStable, AnnouncedGrows
<1>2. ASSUME Consuming, joined' = joined, Done' = Done
      PROVE  i \in Announced'
  <2>1. i \in (joined + 1) .. Done
    BY <1>2
  <2>2. i \in 1 .. Len(feats)
    BY <1>0, <2>1 DEF Done
  <2> QED
    BY <1>1, <1>2, <2>1, <2>2 DEF Answered
<1>3. CASE \/ \E m \in Feature : Feed(m)
           \/ AutoCommit \/ StopRequest \/ SetSnapshot
           \/ \E t \in EtaTrips : SnapshotExpires(t)
           \/ UNCHANGED etaVars
  <2>1. /\ Consuming /\ joined' = joined /\ read' = read
        /\ InHand' <=> InHand
    BY <1>3 DEF Feed, AutoCommit, StopRequest, SetSnapshot, SnapshotExpires,
                etaVars, Consuming, InHand
  <2> QED
    BY <1>2, <2>1 DEF Done
<1>4. CASE TakeOk
  <2>1. etaThread = "idle" /\ etaThread' = "setex" /\ read' = read + 1
          /\ joined' = joined
    BY <1>4, TakenIs DEF TakeOk
  <2>2. Done' = Done /\ Consuming
    BY <1>0, <2>1 DEF Done, InHand, Consuming
  <2> QED
    BY <1>2, <2>1, <2>2
<1>5. CASE TakeOffRoute
  <2>1. /\ etaThread = "idle" /\ etaThread' = "idle" /\ read' = read + 1
        /\ joined' = joined /\ feats' = feats
        /\ feats[read + 1].kind = "offRoute" /\ live' = live
    BY <1>5, TakenIs DEF TakeOffRoute
  <2>2. Done' = read + 1 /\ Done = read /\ Consuming
    BY <2>1 DEF Done, InHand, Consuming
  <2>3. i # read + 1
    BY <2>1 DEF Eligible
  <2>4. i \in (joined + 1) .. Done
    BY <1>0, <2>1, <2>2, <2>3
  <2>5. Eligible(i)
    BY <2>1 DEF Eligible
  <2> QED
    BY <1>1, <2>2, <2>4, <2>5 DEF Answered
<1>6. CASE Announce
  <2>1. /\ etaThread = "publish" /\ etaThread' = "idle"
        /\ UNCHANGED <<feats, read, joined>>
    BY <1>6 DEF Announce
  <2>2. Done' = read /\ Done = read - 1 /\ Consuming
    BY <2>1 DEF Done, InHand, Consuming
  <2>3. i = read \/ i \in (joined + 1) .. Done
    BY <1>0, <2>1, <2>2
  <2>4. Eligible(i)
    BY <2>1 DEF Eligible
  <2> QED
    BY <1>1, <1>6, <2>2, <2>3, <2>4, AnnouncedGrows DEF Answered
<1>7. CASE Join
  <2>1. joined' = read' /\ read' \in Int /\ Done' = read'
    <3>1. etaThread' = "idle" /\ joined' = read'
      BY <1>7 DEF Join
    <3>2. read' \in Int
      BY <1>7, WhereItIs DEF Join
    <3> QED
      BY <3>1, <3>2 DEF Done, InHand
  <2>2. PICK r \in Int : r = read'
    BY <2>1
  <2>3. i \in (r + 1) .. r
    BY <2>1, <2>2
  <2> QED
    BY <2>3
<1>8. CASE \/ TakeWhenStopping \/ TakeNoStop \/ RedisRaises \/ EtaRestart
  <2>1. etaThread' \in {"closed", "joining"}
    BY <1>8, Closing DEF EtaRestart
  <2> QED
    BY <2>1 DEF Consuming
<1> QED
  BY <1>3, <1>4, <1>5, <1>6, <1>7, <1>8 DEF EtaNext, Take, Store

-----------------------------------------------------------------------------
(* EtaService: one message lost for each time the thread is closed.         *)

\* Committing up to the message in hand loses that message at most.
LEMMA CommitLoses ==
    ASSUME EtaTypeOK, Offsets, Answered, Consuming,
           NEW p \in Int, p <= Done + 1, NEW i \in (from + 1) .. p,
           Eligible(i), i \notin Announced
    PROVE  i \in Lost \/ i = Done + 1
<1>0. /\ read \in Nat /\ joined \in Nat /\ from \in Nat
      /\ committed \in Int /\ Done \in Int /\ i \in Int
      /\ i <= Done + 1 /\ from < i
  BY WhereItIs
<1>1. i <= Done => i <= joined
  BY <1>0 DEF Answered
<1>2. i <= Done /\ committed = Nobody => FALSE
  BY <1>0, <1>1 DEF Offsets
<1>3. i <= Done /\ committed # Nobody => i <= committed
  BY <1>0, <1>1 DEF Offsets
<1>4. i <= committed => i \in Lost
  BY <1>0 DEF Lost
<1> QED
  BY <1>0, <1>2, <1>3, <1>4

\* What is lost is finite.
LEMMA LostFinite == EtaTypeOK => IsFiniteSet(Lost)
<1> SUFFICES ASSUME EtaTypeOK PROVE IsFiniteSet(Lost)
  OBVIOUS
<1>1. from + 1 \in Int /\ committed \in Int
  BY WhereItIs
<1>2. IsFiniteSet((from + 1) .. committed)
  BY <1>1, FS_Interval
<1>3. Lost \in SUBSET ((from + 1) .. committed)
  BY DEF Lost
<1> QED
  BY <1>2, <1>3, FS_Subset

\* The count of what is lost in the next state.
LEMMA LossBound ==
    ASSUME EtaTypeOK, OneLossPerClosing, NEW p,
           \/ Lost' \subseteq Lost /\ closings' = closings
           \/ Lost' \subseteq Lost \union {p} /\ closings' = closings + 1
    PROVE  OneLossPerClosing'
<1>0. IsFiniteSet(Lost) /\ closings \in Nat
  BY LostFinite, WhereItIs
<1>1. Cardinality(Lost) \in Nat /\ Cardinality(Lost) <= closings
  BY <1>0, FS_CardinalityType DEF OneLossPerClosing
<1>2. CASE Lost' \subseteq Lost /\ closings' = closings
  <2>1. /\ IsFiniteSet(Lost') /\ Cardinality(Lost') <= Cardinality(Lost)
    BY <1>0, <1>2, FS_Subset
  <2>2. Cardinality(Lost') \in Nat
    BY <2>1, FS_CardinalityType
  <2> QED
    BY <1>0, <1>1, <1>2, <2>1, <2>2 DEF OneLossPerClosing
<1>3. CASE Lost' \subseteq Lost \union {p} /\ closings' = closings + 1
  <2>1. /\ IsFiniteSet(Lost \union {p})
        /\ Cardinality(Lost \union {p})
             = IF p \in Lost THEN Cardinality(Lost) ELSE Cardinality(Lost) + 1
    BY <1>0, FS_AddElement
  <2>2. /\ IsFiniteSet(Lost')
        /\ Cardinality(Lost') <= Cardinality(Lost \union {p})
    BY <1>3, <2>1, FS_Subset
  <2>3. Cardinality(Lost') \in Nat
    BY <2>2, FS_CardinalityType
  <2> QED
    BY <1>0, <1>1, <1>3, <2>1, <2>2, <2>3 DEF OneLossPerClosing
<1> QED
  BY <1>2, <1>3

LEMMA LossStep ==
    EtaTypeOK /\ Offsets /\ Answered /\ OneLossPerClosing
      /\ [EtaNext]_etaVars => OneLossPerClosing'
<1> SUFFICES ASSUME EtaTypeOK, Offsets, Answered, OneLossPerClosing,
                    [EtaNext]_etaVars
             PROVE  OneLossPerClosing'
  OBVIOUS
<1>0. /\ from \in Nat /\ committed \in Int /\ committed <= Len(feats)
      /\ Len(feats) \in Nat /\ read \in Nat /\ read <= Len(feats)
      /\ Done \in Int
  <2>1. committed <= Len(feats)
    BY WhereItIs DEF EtaTypeOK, Nobody
  <2> QED
    BY <2>1, WhereItIs
<1>1. /\ \A j \in 1 .. Len(feats) : Eligible(j)' <=> Eligible(j)
      /\ Announced \subseteq Announced'
  BY EligibleStable, AnnouncedGrows
<1>2. ASSUME from' = from, committed' = committed
      PROVE  Lost' \subseteq Lost
  <2>1. SUFFICES ASSUME NEW i \in Lost' PROVE i \in Lost
    OBVIOUS
  <2>2. /\ i \in (from + 1) .. committed /\ Eligible(i)'
        /\ i \notin Announced'
    BY <1>2 DEF Lost
  <2>3. i \in 1 .. Len(feats)
    BY <1>0, <2>2
  <2> QED
    BY <1>1, <2>2, <2>3 DEF Lost
<1>3. CASE \/ \E m \in Feature : Feed(m)
           \/ TakeOffRoute \/ TakeOk \/ SetSnapshot \/ Announce
           \/ StopRequest \/ EtaRestart
           \/ \E t \in EtaTrips : SnapshotExpires(t)
           \/ UNCHANGED etaVars
  <2>1. from' = from /\ committed' = committed /\ closings' = closings
    BY <1>3 DEF Feed, TakeOffRoute, TakeOk, SetSnapshot, Announce,
                StopRequest, EtaRestart, SnapshotExpires, etaVars
  <2> QED
    BY <1>2, <2>1, LossBound
<1>4. CASE Join
  <2>1. /\ committed' = committed /\ closings' = closings
        /\ committed = Nobody => from' = Len(feats)
        /\ committed # Nobody => from' = from
    BY <1>4 DEF Join
  <2>2. committed = Nobody => Lost' = {}
    <3>1. SUFFICES ASSUME committed = Nobody, NEW i \in Lost' PROVE FALSE
      OBVIOUS
    <3>2. i \in (Len(feats) + 1) .. (-1)
      BY <2>1, <3>1 DEF Lost, Nobody
    <3> QED
      BY <1>0, <3>2
  <2> QED
    BY <1>2, <2>1, <2>2, LossBound
<1>5. CASE AutoCommit
  <2>1. /\ etaThread = "idle" /\ committed' = read /\ from' = from
        /\ closings' = closings /\ feats' = feats /\ live' = live
    BY <1>5 DEF AutoCommit
  <2>2. Consuming /\ Done = read
    BY <2>1 DEF Consuming, Done, InHand
  <2>3. ASSUME NEW i \in Lost'
        PROVE  i \in Lost
    <3>1. i \in (from + 1) .. read /\ Eligible(i) /\ i \notin Announced
      BY <2>1 DEF Lost, Eligible, Announced
    <3>2. i # Done + 1 /\ read <= Done + 1
      BY <1>0, <2>2, <3>1
    <3> QED
      BY <1>0, <2>2, <3>1, <3>2, CommitLoses
  <2>4. Lost' \subseteq Lost
    BY <2>3
  <2> QED
    BY <2>1, <2>4, LossBound
<1>6. CASE TakeWhenStopping \/ TakeNoStop \/ RedisRaises
  <2>1. /\ Consuming /\ committed' \in {Done + 1, committed}
        /\ closings' = closings + 1
        /\ UNCHANGED <<feats, live, from>>
    BY <1>6, Closing
  <2>2. CASE committed' = committed
    BY <1>2, <2>1, <2>2, LossBound
  <2>3. CASE committed' = Done + 1
    <3>1. ASSUME NEW i \in Lost'
          PROVE  i \in Lost \union {Done + 1}
      <4>1. /\ i \in (from + 1) .. (Done + 1) /\ Eligible(i)
            /\ i \notin Announced
        BY <2>1, <2>3 DEF Lost, Eligible, Announced
      <4>2. Done + 1 \in Int /\ Done + 1 <= Done + 1
        BY <1>0
      <4> QED
        BY <2>1, <4>1, <4>2, CommitLoses
    <3>2. Lost' \subseteq Lost \union {Done + 1}
      BY <3>1
    <3> QED
      BY <2>1, <3>2, LossBound
  <2> QED
    BY <2>1, <2>2, <2>3
<1> QED
  BY <1>3, <1>4, <1>5, <1>6 DEF EtaNext, Take, Store

-----------------------------------------------------------------------------
(* EtaService: the messages of a trip.                                      *)

\* A step that reads nothing leaves the messages of a trip as they are; one
\* that reads adds the message to those of its trip.
LEMMA SinceNext ==
    ASSUME EtaTypeOK, [EtaNext]_etaVars, joined' = joined, NEW t
    PROVE  /\ read' = read => Since(joined, t)' = Since(joined, t)
           /\ (read' = read + 1 /\ joined <= read /\ feats' = feats) =>
                 Since(joined, t)' = Since(joined, t) \union
                    {i \in {read + 1} : Eligible(i) /\ feats[i].trip = t}
<1>0. /\ read \in Nat /\ joined \in Nat /\ read <= Len(feats)
      /\ Len(feats) \in Nat
  BY WhereItIs
<1>1. ASSUME read' = read
      PROVE  Since(joined, t)' = Since(joined, t)
  <2>1. \A i \in (joined + 1) .. read : i \in 1 .. Len(feats)
    BY <1>0
  <2>2. \A i \in (joined + 1) .. read :
            (Eligible(i) /\ feats[i].trip = t)'
              <=> (Eligible(i) /\ feats[i].trip = t)
    BY <2>1, EligibleStable
  <2> QED
    BY <1>1, <2>2 DEF Since
<1>2. ASSUME read' = read + 1, joined <= read, feats' = feats
      PROVE  Since(joined, t)' = Since(joined, t) \union
                {i \in {read + 1} : Eligible(i) /\ feats[i].trip = t}
  <2>1. (joined + 1) .. (read + 1) = ((joined + 1) .. read) \union {read + 1}
    BY <1>0, <1>2
  <2> QED
    BY <1>2, <2>1 DEF Since, Eligible
<1> QED
  BY <1>1, <1>2

\* The messages of a trip are places in the topic.
LEMMA SinceIs ==
    ASSUME EtaTypeOK, NEW t, NEW i \in Since(joined, t)
    PROVE  /\ i \in (joined + 1) .. read /\ i \in 1 .. Len(feats)
           /\ Eligible(i) /\ feats[i].trip = t
           /\ feats[i] \in Feature /\ feats[i].ts \in EtaTimes
           /\ feats[i].ts \in Nat
<1>1. i \in (joined + 1) .. read /\ Eligible(i) /\ feats[i].trip = t
  BY DEF Since
<1>2. i \in 1 .. Len(feats)
  BY <1>1, WhereItIs
<1>3. feats[i] \in Feature
  BY <1>2 DEF EtaTypeOK
<1>4. feats[i].ts \in EtaTimes
  BY <1>1, <1>3, OkFeature DEF Eligible
<1>5. \A x \in EtaTimes : x \in Nat
  BY EtaAssumption
<1> QED
  BY <1>1, <1>2, <1>3, <1>4, <1>5

\* The snapshot of a trip keeps up with what is read of it.
LEMMA SnapshotAheadStep ==
    EtaTypeOK /\ Offsets /\ SnapshotAhead /\ [EtaNext]_etaVars
      => SnapshotAhead'
<1> SUFFICES ASSUME EtaTypeOK, Offsets, SnapshotAhead, [EtaNext]_etaVars,
                    NEW t \in EtaTrips, Consuming',
                    Since(joined, t)' # {}, snapshot'[t] # 0,
                    ~(etaThread' = "setex" /\ feats'[read'].trip = t)
             PROVE  /\ snapshot'[t] \in Since(joined, t)'
                    /\ \A i \in Since(joined, t)' : i <= snapshot'[t]
  BY DEF SnapshotAhead
<1>0. /\ read \in Nat /\ joined \in Nat /\ read <= Len(feats)
      /\ Len(feats) \in Nat /\ (Consuming => joined <= read)
      /\ (InHand => joined < read /\ Eligible(read))
  BY WhereItIs DEF Offsets
<1>1. ASSUME Consuming, joined' = joined, snapshot'[t] = snapshot[t],
             Since(joined, t)' = Since(joined, t),
             ~(etaThread = "setex" /\ feats[read].trip = t)
      PROVE  /\ snapshot'[t] \in Since(joined, t)'
             /\ \A i \in Since(joined, t)' : i <= snapshot'[t]
  BY <1>1 DEF SnapshotAhead
<1>2. CASE \E m \in Feature : Feed(m)
  <2>1. UNCHANGED <<etaThread, read, snapshot, joined>>
    BY <1>2 DEF Feed
  <2>2. Consuming
    BY <2>1 DEF Consuming
  <2>3. etaThread = "setex" => feats'[read] = feats[read]
    <3>1. etaThread = "setex" => read \in 1 .. Len(feats)
      BY <1>0 DEF InHand
    <3> QED
      BY <3>1, EligibleStable
  <2> QED
    BY <1>1, <2>1, <2>2, <2>3, SinceNext
<1>3. CASE \/ AutoCommit \/ StopRequest \/ Announce \/ UNCHANGED etaVars
  <2>1. /\ UNCHANGED <<feats, read, snapshot, joined>> /\ Consuming
        /\ etaThread = "setex" => etaThread' = "setex"
    BY <1>3 DEF AutoCommit, StopRequest, Announce, etaVars, Consuming
  <2> QED
    BY <1>1, <2>1, SinceNext
<1>4. CASE \E u \in EtaTrips : SnapshotExpires(u)
  <2>1. PICK u \in EtaTrips : SnapshotExpires(u)
    BY <1>4
  <2>2. /\ UNCHANGED <<feats, etaThread, read, joined>> /\ Consuming
        /\ snapshot' = [snapshot EXCEPT ![u] = 0]
    BY <2>1 DEF SnapshotExpires, Consuming
  <2>3. snapshot'[t] = snapshot[t]
    BY <2>2 DEF EtaTypeOK
  <2> QED
    BY <1>1, <2>2, <2>3, SinceNext
<1>5. CASE TakeOffRoute
  <2>1. /\ etaThread = "idle" /\ read' = read + 1
        /\ feats[read + 1].kind = "offRoute"
        /\ UNCHANGED <<feats, snapshot, joined>>
    BY <1>5, TakenIs DEF TakeOffRoute
  <2>2. Consuming /\ ~Eligible(read + 1)
    BY <2>1 DEF Consuming, Eligible
  <2>3. Since(joined, t)' = Since(joined, t)
    BY <1>0, <2>1, <2>2, SinceNext
  <2> QED
    BY <1>1, <2>1, <2>2, <2>3
<1>6. CASE TakeOk
  <2>1. /\ etaThread = "idle" /\ read' = read + 1 /\ etaThread' = "setex"
        /\ UNCHANGED <<feats, snapshot, joined>>
    BY <1>6, TakenIs DEF TakeOk
  <2>2. Consuming /\ feats[read + 1].trip # t
    BY <2>1 DEF Consuming
  <2>3. Since(joined, t)' = Since(joined, t)
    BY <1>0, <2>1, <2>2, SinceNext
  <2> QED
    BY <1>1, <2>1, <2>2, <2>3
<1>7. CASE SetSnapshot
  <2>1. /\ etaThread = "setex" /\ InHand /\ Consuming
        /\ snapshot' = [snapshot EXCEPT ![feats[read].trip] = read]
        /\ UNCHANGED <<feats, read, joined>>
    BY <1>7 DEF SetSnapshot, InHand, Consuming
  <2>2. Since(joined, t)' = Since(joined, t)
    BY <2>1, SinceNext
  <2>3. CASE feats[read].trip = t
    <3>1. snapshot'[t] = read
      BY <2>1, <2>3 DEF EtaTypeOK
    <3>2. read \in Since(joined, t)
      BY <1>0, <2>1, <2>3 DEF Since
    <3>3. \A i \in Since(joined, t) : i <= read
      BY <1>0 DEF Since
    <3> QED
      BY <2>2, <3>1, <3>2, <3>3
  <2>4. CASE feats[read].trip # t
    <3>1. snapshot'[t] = snapshot[t]
      BY <2>1, <2>4 DEF EtaTypeOK
    <3> QED
      BY <1>1, <2>1, <2>2, <2>4, <3>1
  <2> QED
    BY <2>3, <2>4
<1>8. CASE Join
  <2>1. joined' = read' /\ read' \in Int
    BY <1>8, WhereItIs DEF Join
  <2>2. PICK r \in Int : r = read'
    BY <2>1
  <2>3. Since(joined, t)' \subseteq (r + 1) .. r
    BY <2>1, <2>2 DEF Since
  <2>4. (r + 1) .. r = {}
    OBVIOUS
  <2> QED
    BY <2>3, <2>4
<1>9. CASE TakeWhenStopping \/ TakeNoStop \/ RedisRaises \/ EtaRestart
  <2>1. etaThread' \in {"closed", "joining"}
    BY <1>9, Closing DEF EtaRestart
  <2> QED
    BY <2>1 DEF Consuming
<1> QED
  BY <1>2, <1>3, <1>4, <1>5, <1>6, <1>7, <1>8, <1>9 DEF EtaNext, Take, Store

-----------------------------------------------------------------------------
(* EtaService: the samples kept.                                            *)

\* Nothing is read of a trip, and its deque is left alone.
LEMMA SamplesFrame ==
    ASSUME EtaTypeOK, SamplesKept, [EtaNext]_etaVars, NEW t \in EtaTrips,
           Consuming, InOrder(t)', joined' = joined,
           speeds'[t] = speeds[t], Since(joined, t)' = Since(joined, t)
    PROVE  /\ Len(speeds'[t]) <= Window
           /\ \E g \in [DOMAIN speeds'[t] -> Since(joined, t)'] :
                 SamplesOf(speeds[t], t, g)'
<1> DEFINE S == Since(joined, t)
           h == speeds[t]
<1>1. \A i \in S : feats'[i] = feats[i]
  BY SinceIs, EligibleStable
<1>2. InOrder(t)
  BY <1>1 DEF InOrder
<1>3. PICK g \in [DOMAIN h -> S] : SamplesOf(h, t, g)
  BY <1>2 DEF SamplesKept
<1>4. Len(h) <= Window
  BY <1>2 DEF SamplesKept
<1>5. \A i \in S : Stale(i, t)' <=> Stale(i, t)
  BY <1>1 DEF Stale
<1>6. \A k \in DOMAIN h : g[k] \in S
  BY <1>3
<1>7. SamplesOf(h, t, g)'
  BY <1>1, <1>3, <1>5, <1>6 DEF SamplesOf
<1> QED
  BY <1>3, <1>4, <1>7

\* The sample of a message in order: the deque drops the oldest ones, those
\* that exceed the window or have become stale.
LEMMA SamplesTake ==
    ASSUME EtaTypeOK, Offsets, SamplesKept, [EtaNext]_etaVars, TakeOk,
           NEW t, t = feats[read + 1].trip, InOrder(t)'
    PROVE  /\ Len(speeds'[t]) <= Window
           /\ \E g \in [DOMAIN speeds'[t] -> Since(joined, t)'] :
                 SamplesOf(speeds[t], t, g)'
<1>1. PICK i \in 1 .. Len(feats) : i = read + 1
  BY TakenIs DEF TakeOk
<1>2. PICK now : now = feats[i].ts
  OBVIOUS
<1>3. /\ etaThread = "idle" /\ Consuming /\ joined <= read
      /\ read' = read + 1 /\ Eligible(i) /\ feats[i] \in Feature
      /\ UNCHANGED <<feats, joined>> /\ read \in Nat /\ read < i
  <2>1. /\ etaThread = "idle" /\ read' = read + 1
        /\ feats[i].kind = "ok" /\ feats[i] \in Feature
        /\ UNCHANGED <<feats, joined>>
    BY <1>1, TakenIs DEF TakeOk
  <2>2. read \in Nat /\ read < i
    BY <1>1, WhereItIs
  <2> QED
    BY <2>1, <2>2 DEF Consuming, Eligible, Offsets
<1>4. t \in EtaTrips /\ now \in EtaTimes /\ now \in Nat /\ Ttl \in Nat
  <2>1. feats[i].trip \in EtaTrips /\ feats[i].ts \in EtaTimes
    BY <1>3, OkFeature DEF Eligible
  <2>2. \A x \in EtaTimes : x \in Nat
    BY EtaAssumption
  <2> QED
    BY <1>1, <1>2, <2>1, <2>2, EtaAssumption
<1> DEFINE S == Since(joined, t)
           T == S \union {i}
<1>h. PICK h : h = speeds[t]
  OBVIOUS
<1>n. PICK n : n = Len(h) + 1
  OBVIOUS
<1>s. PICK s : s = Append(h, now)
  OBVIOUS
<1>5. Since(joined, t)' = T
  BY <1>1, <1>3, SinceNext
<1>6. \A j \in T : feats[j].ts \in Nat
  BY <1>2, <1>4, SinceIs
<1>7. \A j, l \in T : j < l => feats[j].ts <= feats[l].ts
  BY <1>3, <1>5 DEF InOrder
<1>8. \A j \in S : j \in Nat /\ j < i
  <2>1. \A j \in S : j \in (joined + 1) .. read
    BY SinceIs
  <2> QED
    BY <1>3, <2>1, WhereItIs
<1>9. \A j \in T : feats[j].ts <= now
  BY <1>2, <1>4, <1>7, <1>8
<1>10. InOrder(t)
  BY <1>7 DEF InOrder
<1>11. PICK g \in [DOMAIN h -> S] : SamplesOf(h, t, g)
  BY <1>3, <1>4, <1>10, <1>h DEF SamplesKept
<1>12. /\ h \in Seq(EtaTimes) /\ Len(h) <= Window /\ n \in Nat /\ n >= 1
       /\ DOMAIN h = 1 .. (n - 1) /\ Len(h) = n - 1 /\ Window \in Nat
  <2>1. h \in Seq(EtaTimes)
    BY <1>4, <1>h DEF EtaTypeOK
  <2>2. Len(h) <= Window
    BY <1>3, <1>4, <1>10, <1>h DEF SamplesKept
  <2>3. Window \in Nat
    BY EtaAssumption
  <2> QED
    BY <1>n, <2>1, <2>2, <2>3
<1>13. PICK d \in 0 .. (n - 1) :
         /\ Smoothed(h, now) \in Seq(EtaTimes)
         /\ Len(Smoothed(h, now)) = n - d /\ n - d <= Window
         /\ \A k \in 1 .. (n - d) : Smoothed(h, now)[k] = s[k + d]
         /\ s[d + 1] >= now - Ttl
         /\ d = 0 \/ n - d = Window \/ s[d] < now - Ttl
  <2>1. /\ h \in Seq(EtaTimes) /\ now \in EtaTimes
        /\ s = Append(h, now) /\ n = Len(h) + 1
    BY <1>n, <1>s, <1>4, <1>12
  <2>2. \E d \in 0 .. (n - 1) : Drops(h, now, s, n, d)
    BY <2>1, SmoothedIs
  <2> QED
    BY <2>2, Zenon DEF Drops
<1>14. speeds'[t] = Smoothed(h, now)
  <2>1. speeds' = [speeds EXCEPT ![t] = Smoothed(speeds[t], now)]
    BY <1>1, <1>2 DEF TakeOk
  <2> QED
    BY <1>4, <1>h, <2>1 DEF EtaTypeOK
\* G says which message each sample of s is of.
<1> DEFINE G == [k \in 1 .. n |-> IF k < n THEN g[k] ELSE i]
<1>15. /\ \A k \in 1 .. n : G[k] \in T
       /\ \A k \in 1 .. (n - 1) : G[k] = g[k] /\ g[k] \in S
       /\ G[n] = i
  <2>1. \A k \in 1 .. (n - 1) : k \in 1 .. n /\ k < n
    BY <1>12
  <2>2. \A k \in 1 .. n : k = n \/ k \in 1 .. (n - 1)
    BY <1>12
  <2>3. n \in 1 .. n /\ ~(n < n)
    BY <1>12
  <2>4. \A k \in 1 .. (n - 1) : g[k] \in S
    BY <1>11, <1>12
  <2> QED
    BY <2>1, <2>2, <2>3, <2>4
<1>16. \A k, l \in 1 .. n : k < l => G[k] < G[l]
  <2> SUFFICES ASSUME NEW k \in 1 .. n, NEW l \in 1 .. n, k < l
               PROVE  G[k] < G[l]
    OBVIOUS
  <2>1. k \in 1 .. (n - 1)
    BY <1>12
  <2>2. CASE l = n
    BY <1>8, <1>15, <2>1, <2>2
  <2>3. CASE l # n
    <3>1. l \in 1 .. (n - 1)
      BY <1>12, <2>3
    <3> QED
      BY <1>11, <1>12, <1>15, <2>1, <3>1 DEF SamplesOf
  <2> QED
    BY <2>2, <2>3
<1>17. \A k \in 1 .. n : s[k] = feats[G[k]].ts
  <2> SUFFICES ASSUME NEW k \in 1 .. n
               PROVE  s[k] = feats[G[k]].ts
    OBVIOUS
  <2>1. CASE k = n
    BY <1>2, <1>s, <1>12, <1>15, <2>1
  <2>2. CASE k # n
    <3>1. k \in 1 .. (n - 1) /\ s[k] = h[k]
      BY <1>s, <1>12, <2>2
    <3> QED
      BY <1>11, <1>12, <1>15, <3>1 DEF SamplesOf
  <2> QED
    BY <2>1, <2>2
<1>18. \A j \in T : Stale(j, t)' <=> feats[j].ts < now - Ttl
  <2> SUFFICES ASSUME NEW j \in T
               PROVE  Stale(j, t)' <=> feats[j].ts < now - Ttl
    OBVIOUS
  <2>1. Stale(j, t)' <=> \E l \in T : feats[j].ts < feats[l].ts - Ttl
    BY <1>3, <1>5 DEF Stale
  <2>2. (\E l \in T : feats[j].ts < feats[l].ts - Ttl)
          => feats[j].ts < now - Ttl
    BY <1>4, <1>6, <1>9
  <2>3. i \in T /\ feats[i].ts = now
    BY <1>2
  <2> QED
    BY <2>1, <2>2, <2>3
<1>19. \A j \in S : Stale(j, t) => Stale(j, t)'
  <2> SUFFICES ASSUME NEW j \in S, Stale(j, t)
               PROVE  feats[j].ts < now - Ttl
    BY <1>18
  <2>1. PICK l \in S : feats[j].ts < feats[l].ts - Ttl
    BY DEF Stale
  <2> QED
    BY <1>4, <1>6, <1>9, <2>1
<1> DEFINE c == n - d
           f == [k \in 1 .. c |-> G[k + d]]
<1>20. /\ c \in Nat /\ c >= 1 /\ DOMAIN speeds'[t] = 1 .. c
       /\ Len(speeds'[t]) = c /\ c <= Window
       /\ \A k \in 1 .. c : /\ k + d \in 1 .. n
                            /\ speeds'[t][k] = s[k + d]
  <2>1. c \in Nat /\ c >= 1 /\ \A k \in 1 .. c : k + d \in 1 .. n
    BY <1>12
  <2>2. DOMAIN Smoothed(h, now) = 1 .. c
    BY <1>13
  <2> QED
    BY <1>13, <1>14, <2>1, <2>2
<1>21. /\ f \in [1 .. c -> T]
       /\ \A k \in 1 .. c : f[k] = G[k + d]
  BY <1>15, <1>20
\* The samples kept are in order, ...
<1>22. \A k, l \in 1 .. c : k < l => f[k] < f[l]
  <2> SUFFICES ASSUME NEW k \in 1 .. c, NEW l \in 1 .. c, k < l
               PROVE  f[k] < f[l]
    OBVIOUS
  <2>1. k + d < l + d /\ k + d \in 1 .. n /\ l + d \in 1 .. n
    BY <1>20
  <2> QED
    BY <1>16, <1>21, <2>1
\* ... none of them is stale, ...
<1>23. \A k \in 1 .. c : speeds'[t][k] = feats[f[k]].ts /\ ~Stale(f[k], t)'
  <2> SUFFICES ASSUME NEW k \in 1 .. c
               PROVE  speeds'[t][k] = feats[f[k]].ts /\ ~Stale(f[k], t)'
    OBVIOUS
  <2>1. /\ k + d \in 1 .. n /\ d + 1 \in 1 .. n
        /\ k + d = d + 1 \/ d + 1 < k + d
    BY <1>12, <1>20
  <2>2. speeds'[t][k] = feats[f[k]].ts
    BY <1>17, <1>20, <1>21, <2>1
  <2>3. feats[G[d + 1]].ts <= feats[G[k + d]].ts
    <3>1. /\ G[d + 1] \in T /\ G[k + d] \in T
          /\ G[d + 1] = G[k + d] \/ G[d + 1] < G[k + d]
      BY <1>15, <1>16, <2>1
    <3> QED
      BY <1>6, <1>7, <3>1
  <2>4. feats[G[d + 1]].ts >= now - Ttl
    BY <1>13, <1>17, <2>1
  <2>5. /\ feats[G[d + 1]].ts \in Nat /\ feats[G[k + d]].ts \in Nat
        /\ G[k + d] \in T
    BY <1>6, <1>15, <2>1
  <2>6. ~(feats[G[k + d]].ts < now - Ttl)
    <3>1. PICK x \in Nat : x = feats[G[d + 1]].ts
      BY <2>5
    <3>2. PICK y \in Nat : y = feats[G[k + d]].ts
      BY <2>5
    <3>3. x <= y /\ x >= now - Ttl
      BY <2>3, <2>4, <3>1, <3>2
    <3>4. ~(y < now - Ttl)
      BY ONLY <1>4, <3>3
    <3> QED
      BY <3>2, <3>4
  <2> QED
    BY <1>18, <1>21, <2>2, <2>5, <2>6
\* ... and what was dropped, or had been, is older and stale, or the deque is
\* full.
<1>24. ASSUME NEW j \in T, d >= 1, j = G[d] \/ j < G[d]
       PROVE  Stale(j, t)' \/ c = Window
  <2>1. CASE n - d = Window
    BY <2>1
  <2>2. CASE s[d] < now - Ttl
    <3>1. d \in 1 .. n
      BY <1>12, <1>24
    <3>2. G[d] \in T /\ feats[G[d]].ts < now - Ttl
      BY <1>15, <1>17, <2>2, <3>1
    <3>3. feats[j].ts <= feats[G[d]].ts
      BY <1>6, <1>7, <1>24, <3>2
    <3>4. feats[j].ts < now - Ttl
      BY <1>4, <1>6, <3>2, <3>3
    <3> QED
      BY <1>18, <3>4
  <2>3. d # 0
    BY <1>24
  <2> QED
    BY <1>13, <2>1, <2>2, <2>3
<1>25. ASSUME NEW j \in T
       PROVE  \/ \E k \in 1 .. c : f[k] = j
              \/ /\ \A k \in 1 .. c : j < f[k]
                 /\ Stale(j, t)' \/ c = Window
  <2>1. ASSUME NEW m \in 1 .. n, G[m] = j, m > d
        PROVE  \E k \in 1 .. c : f[k] = j
    <3>1. m - d \in 1 .. c /\ (m - d) + d = m
      BY <1>12, <2>1
    <3> QED
      BY <1>21, <2>1, <3>1
  <2>2. ASSUME NEW m \in 1 .. n, G[m] = j, ~(m > d)
        PROVE  /\ \A k \in 1 .. c : j < f[k]
               /\ Stale(j, t)' \/ c = Window
    <3>1. /\ d >= 1 /\ d \in 1 .. n /\ (m = d \/ m < d)
          /\ \A k \in 1 .. c : m < k + d /\ k + d \in 1 .. n
      BY <1>12, <1>20, <2>2
    <3>2. j = G[d] \/ j < G[d]
      BY <1>16, <2>2, <3>1
    <3>3. \A k \in 1 .. c : j < f[k]
      BY <1>16, <1>21, <2>2, <3>1
    <3> QED
      BY <1>24, <3>1, <3>2, <3>3
  <2>3. CASE j = i
    <3>1. n \in 1 .. n /\ n > d
      BY <1>12
    <3> QED
      BY <1>15, <2>1, <2>3, <3>1
  <2>4. CASE j \in S
    <3>1. CASE \E k \in DOMAIN h : g[k] = j
      <4>1. PICK m \in 1 .. (n - 1) : g[m] = j
        BY <1>12, <3>1
      <4>2. m \in 1 .. n /\ G[m] = j
        BY <1>12, <1>15, <4>1
      <4> QED
        BY <2>1, <2>2, <4>2
    <3>2. CASE /\ \A k \in DOMAIN h : j < g[k]
               /\ Stale(j, t) \/ Len(h) = Window
      <4>1. \A m \in 1 .. n : j < G[m]
        <5> SUFFICES ASSUME NEW m \in 1 .. n PROVE j < G[m]
          OBVIOUS
        <5>1. m = n \/ m \in 1 .. (n - 1)
          BY <1>12
        <5> QED
          BY <1>8, <1>12, <1>15, <2>4, <3>2, <5>1
      <4>2. \A k \in 1 .. c : j < f[k]
        BY <1>20, <1>21, <4>1
      <4>3. Len(h) = Window => d >= 1
        BY <1>12, <1>13
      <4>4. d >= 1 => d \in 1 .. n
        BY <1>12
      <4>5. Stale(j, t)' \/ c = Window
        BY <1>19, <1>24, <2>4, <3>2, <4>1, <4>3, <4>4
      <4> QED
        BY <4>2, <4>5
    <3> QED
      BY <1>11, <2>4, <3>1, <3>2 DEF SamplesOf
  <2> QED
    BY <2>3, <2>4
<1>26. SamplesOf(speeds[t], t, f)'
  BY <1>3, <1>5, <1>20, <1>22, <1>23, <1>25 DEF SamplesOf
<1> QED
  BY <1>5, <1>20, <1>21, <1>26

\* The deque of every trip goes on holding its last fresh samples.
LEMMA SamplesStep ==
    EtaTypeOK /\ Offsets /\ SamplesKept /\ [EtaNext]_etaVars => SamplesKept'
<1> SUFFICES ASSUME EtaTypeOK, Offsets, SamplesKept, [EtaNext]_etaVars,
                    NEW t \in EtaTrips, Consuming', InOrder(t)'
             PROVE  /\ Len(speeds'[t]) <= Window
                    /\ \E g \in [DOMAIN speeds'[t] -> Since(joined, t)'] :
                          SamplesOf(speeds[t], t, g)'
  BY DEF SamplesKept
<1>1. CASE \/ \E m \in Feature : Feed(m)
           \/ AutoCommit \/ SetSnapshot \/ Announce \/ StopRequest
           \/ \E u \in EtaTrips : SnapshotExpires(u)
           \/ UNCHANGED etaVars
  <2>1. Consuming /\ UNCHANGED <<read, joined, speeds>>
    BY <1>1 DEF Feed, AutoCommit, SetSnapshot, Announce, StopRequest,
                SnapshotExpires, etaVars, Consuming
  <2> QED
    BY <2>1, SamplesFrame, SinceNext
<1>2. CASE TakeOffRoute
  <2>1. /\ etaThread = "idle" /\ read' = read + 1
        /\ feats[read + 1].kind = "offRoute"
        /\ UNCHANGED <<feats, speeds, joined>>
    BY <1>2, TakenIs DEF TakeOffRoute
  <2>2. Consuming /\ ~Eligible(read + 1) /\ joined <= read
    BY <2>1 DEF Consuming, Eligible, Offsets
  <2>3. Since(joined, t)' = Since(joined, t)
    BY <2>1, <2>2, SinceNext
  <2> QED
    BY <2>1, <2>2, <2>3, SamplesFrame
<1>3. CASE TakeOk
  <2>1. CASE t = feats[read + 1].trip
    BY <1>3, <2>1, SamplesTake
  <2>2. CASE t # feats[read + 1].trip
    <3>1. /\ etaThread = "idle" /\ read' = read + 1
          /\ UNCHANGED <<feats, joined>>
      BY <1>3, TakenIs DEF TakeOk
    <3>2. Consuming /\ joined <= read
      BY <3>1 DEF Consuming, Offsets
    <3>3. Since(joined, t)' = Since(joined, t)
      BY <2>2, <3>1, <3>2, SinceNext
    <3>4. speeds'[t] = speeds[t]
      BY <1>3, <2>2 DEF TakeOk, EtaTypeOK
    <3> QED
      BY <3>1, <3>2, <3>3, <3>4, SamplesFrame
  <2> QED
    BY <2>1, <2>2
<1>4. CASE Join
  <2>1. joined' = read' /\ read' \in Int /\ speeds' = NoSpeeds
    BY <1>4, WhereItIs DEF Join, Offsets
  <2>2. PICK r \in Int : r = read'
    BY <2>1
  <2>3. Since(joined, t)' \subseteq (r + 1) .. r
    BY <2>1, <2>2 DEF Since
  <2>4. Since(joined, t)' = {}
    <3>1. (r + 1) .. r = {}
      OBVIOUS
    <3> QED
      BY <2>3, <3>1
  <2>5. speeds'[t] = <<>> /\ Len(speeds'[t]) = 0 /\ DOMAIN speeds'[t] = {}
    <3>1. speeds'[t] = <<>>
      BY <2>1 DEF NoSpeeds
    <3>2. Len(<<>>) = 0 /\ DOMAIN <<>> = {}
      OBVIOUS
    <3> QED
      BY <3>1, <3>2
  <2>6. [k \in {} |-> 0] \in [{} -> {}]
    OBVIOUS
  <2>7. SamplesOf(speeds[t], t, [k \in {} |-> 0])'
    BY <2>4, <2>5 DEF SamplesOf
  <2>8. 0 <= Window
    BY EtaAssumption
  <2> QED
    BY <2>4, <2>5, <2>6, <2>7, <2>8
<1>5. CASE TakeWhenStopping \/ TakeNoStop \/ RedisRaises \/ EtaRestart
  <2>1. etaThread' \in {"closed", "joining"}
    BY <1>5, Closing DEF EtaRestart
  <2> QED
    BY <2>1 DEF Consuming
<1> QED
  BY <1>1, <1>2, <1>3, <1>4, <1>5 DEF EtaNext, Take, Store
\* The deque of a trip in order holds as many samples as the trip has messages
\* that are fresh and among its last Window, and fresh ones only.
LEMMA AveragesFollow == EtaTypeOK /\ SamplesKept => AveragesFresh
<1> SUFFICES ASSUME EtaTypeOK, SamplesKept, NEW t \in EtaTrips,
                    etaThread \notin {"joining", "closed"}, InOrder(t)
             PROVE
        LET n == Len(speeds[t])
            Fresh(i) == \A j \in Since(joined, t) :
                            feats[i].ts >= feats[j].ts - Ttl
            InWindow(i) == Cardinality({j \in Since(joined, t) : j > i})
                               < Window
        IN  /\ n = Cardinality({i \in Since(joined, t) :
                                   Fresh(i) /\ InWindow(i)})
            /\ \A k \in 1 .. n : speeds[t][k] >= speeds[t][n] - Ttl
  BY DEF AveragesFresh
<1>0. Consuming
  BY WhereItIs
<1>1. PICK S : S = Since(joined, t)
  OBVIOUS
<1>2. PICK h : h = speeds[t]
  OBVIOUS
<1>3. PICK n : n = Len(h)
  OBVIOUS
<1>4. /\ h \in Seq(EtaTimes) /\ n \in Nat /\ DOMAIN h = 1 .. n
      /\ n <= Window /\ Window \in Nat /\ Ttl \in Nat
      /\ \E g \in [DOMAIN h -> S] : SamplesOf(h, t, g)
  <2>1. h \in Seq(EtaTimes)
    BY <1>2 DEF EtaTypeOK
  <2>2. Len(h) <= Window /\ \E g \in [DOMAIN h -> S] : SamplesOf(h, t, g)
    BY <1>0, <1>1, <1>2 DEF SamplesKept
  <2> QED
    BY <1>3, <2>1, <2>2, EtaAssumption
<1>5. PICK g \in [DOMAIN h -> S] : SamplesOf(h, t, g)
  BY <1>4
<1>6. /\ \A k \in 1 .. n : g[k] \in S
      /\ \A k, l \in 1 .. n : k < l => g[k] < g[l]
      /\ \A k \in 1 .. n : h[k] = feats[g[k]].ts /\ ~Stale(g[k], t)
      /\ \A i \in S : \/ \E k \in 1 .. n : g[k] = i
                      \/ /\ \A k \in 1 .. n : i < g[k]
                         /\ Stale(i, t) \/ n = Window
  BY <1>1, <1>3, <1>4, <1>5 DEF SamplesOf
<1>7. \A i \in S : i \in Nat /\ feats[i].ts \in Nat
  <2>1. \A i \in S : i \in 1 .. Len(feats) /\ feats[i].ts \in Nat
    BY <1>1, SinceIs
  <2> QED
    BY <2>1, WhereItIs
<1>8. IsFiniteSet(S)
  <2>1. IsFiniteSet((joined + 1) .. read)
    <3>1. joined + 1 \in Int /\ read \in Int
      BY WhereItIs
    <3> QED
      BY <3>1, FS_Interval
  <2>2. S \in SUBSET ((joined + 1) .. read)
    BY <1>1 DEF Since
  <2> QED
    BY <2>1, <2>2, FS_Subset
<1>9. PICK R : R = {i \in S : \E k \in 1 .. n : g[k] = i}
  OBVIOUS
<1>10. IsFiniteSet(R) /\ R \subseteq S
  <2>1. R \in SUBSET S
    BY <1>9
  <2> QED
    BY <1>8, <2>1, FS_Subset
<1>11. Cardinality(R) = n
  <2>1. g \in [1 .. n -> R]
    BY <1>4, <1>5, <1>6, <1>9
  <2>2. \A k, l \in 1 .. n : g[k] = g[l] => k = l
    <3> SUFFICES ASSUME NEW k \in 1 .. n, NEW l \in 1 .. n, k < l
                 PROVE  g[k] # g[l]
      BY <1>4
    <3>1. g[k] < g[l] /\ g[k] \in Nat /\ g[l] \in Nat
      BY <1>6, <1>7
    <3> QED
      BY <3>1
  <2>3. g \in Bijection(1 .. n, R)
    BY <1>9, <2>1, <2>2
       DEF Bijection, Injection, IsInjective, Surjection
  <2>4. IsFiniteSet(1 .. n) /\ Cardinality(1 .. n) = n
    BY <1>4, FS_Interval
  <2> QED
    BY <2>3, <2>4, FS_Bijection DEF ExistsBijection
<1> DEFINE Fresh(i) == \A j \in S : feats[i].ts >= feats[j].ts - Ttl
           InWindow(i) == Cardinality({j \in S : j > i}) < Window
<1>12. \A i \in S : Fresh(i) <=> ~Stale(i, t)
  <2> SUFFICES ASSUME NEW i \in S
               PROVE  Fresh(i) <=> ~Stale(i, t)
    OBVIOUS
  <2>1. \A j \in S : feats[i].ts >= feats[j].ts - Ttl
                       <=> ~(feats[i].ts < feats[j].ts - Ttl)
    BY <1>4, <1>7
  <2> QED
    BY <1>1, <2>1 DEF Stale
\* A message whose sample is kept is among the last n.
<1>13. ASSUME NEW k \in 1 .. n
       PROVE  InWindow(g[k])
  <2>1. {j \in S : j > g[k]} \in SUBSET (R \ {g[k]})
    <3> SUFFICES ASSUME NEW j \in S, j > g[k]
                 PROVE  j \in R \ {g[k]}
      OBVIOUS
    <3>1. j \in Nat /\ g[k] \in Nat /\ ~(j < g[k]) /\ j # g[k]
      BY <1>6, <1>7
    <3> QED
      BY <1>6, <1>9, <3>1
  <2>2. g[k] \in R
    BY <1>6, <1>9
  <2>3. IsFiniteSet(R \ {g[k]}) /\ Cardinality(R \ {g[k]}) = n - 1
    BY <1>10, <1>11, <2>2, FS_RemoveElement
  <2>4. PICK U : U = {j \in S : j > g[k]}
    OBVIOUS
  <2>5. Cardinality(U) <= n - 1 /\ Cardinality(U) \in Nat
    BY <2>1, <2>3, <2>4, FS_Subset, FS_CardinalityType
  <2>6. Cardinality(U) < Window
    BY ONLY <1>4, <2>5
  <2> QED
    BY <2>4, <2>6
\* One whose sample is not is stale or has Window newer ones.
<1>14. ASSUME NEW i \in S, i \notin R, Fresh(i)
       PROVE  ~InWindow(i)
  <2>1. (\A k \in 1 .. n : i < g[k]) /\ n = Window
    BY <1>6, <1>9, <1>12, <1>14
  <2>2. PICK U : U = {j \in S : j > i}
    OBVIOUS
  <2>3. R \in SUBSET U
    <3> SUFFICES ASSUME NEW j \in R
                 PROVE  j \in S /\ j > i
      BY <2>2
    <3>1. PICK k \in 1 .. n : g[k] = j
      BY <1>9
    <3>2. j \in S /\ i < j
      BY <1>10, <2>1, <3>1
    <3> QED
      BY <1>7, <3>2
  <2>4. IsFiniteSet(U)
    <3>1. U \in SUBSET S
      BY <2>2
    <3> QED
      BY <1>8, <3>1, FS_Subset
  <2>5. n <= Cardinality(U) /\ Cardinality(U) \in Nat
    BY <1>11, <2>3, <2>4, FS_Subset, FS_CardinalityType
  <2>6. ~(Cardinality(U) < Window)
    BY ONLY <1>4, <2>1, <2>5
  <2> QED
    BY <2>2, <2>6
<1>15. {i \in S : Fresh(i) /\ InWindow(i)} = R
  <2>1. ASSUME NEW i \in R
        PROVE  i \in S /\ Fresh(i) /\ InWindow(i)
    <3>1. PICK k \in 1 .. n : g[k] = i
      BY <1>9
    <3>2. InWindow(i)
      BY <1>13, <3>1
    <3> QED
      BY <1>6, <1>12, <3>1, <3>2
  <2>2. ASSUME NEW i \in S, Fresh(i), InWindow(i)
        PROVE  i \in R
    BY <1>14, <2>2
  <2> QED
    BY <1>10, <2>1, <2>2
<1>16. ASSUME NEW k \in 1 .. n
       PROVE  h[k] >= h[n] - Ttl
  <2>1. n \in 1 .. n
    BY <1>4
  <2>2. ~Stale(g[k], t) /\ g[n] \in S /\ g[k] \in S
    BY <1>6, <2>1
  <2>3. feats[g[k]].ts >= feats[g[n]].ts - Ttl
    BY <1>12, <2>2
  <2> QED
    BY <1>6, <2>1, <2>3
<1>17. n = Cardinality({i \in S : Fresh(i) /\ InWindow(i)})
  BY <1>11, <1>15
<1> HIDE DEF Fresh, InWindow
<1> QED
  BY <1>1, <1>2, <1>3, <1>16, <1>17 DEF Fresh, InWindow

-----------------------------------------------------------------------------
(* EtaService: the theorems.                                                *)

LEMMA EtaStart ==
    EtaInit => /\ EtaTypeOK /\ Offsets /\ Answered /\ SamplesKept
               /\ SnapshotAhead /\ OneLossPerClosing
<1> SUFFICES ASSUME EtaInit
             PROVE  /\ EtaTypeOK /\ Offsets /\ Answered /\ SamplesKept
                    /\ SnapshotAhead /\ OneLossPerClosing
  OBVIOUS
<1>1. /\ feats = <<>> /\ etaThread = "joining" /\ stopEvent = FALSE
      /\ read = 0 /\ joined = 0 /\ from = 0 /\ committed = -1
      /\ speeds = NoSpeeds /\ snapshot = [t \in EtaTrips |-> 0]
      /\ live = <<>> /\ closings = 0 /\ restarts = 0
  BY DEF EtaInit, Nobody
<1>2. ~Consuming /\ ~InHand
  BY <1>1 DEF Consuming, InHand
<1>3. EtaTypeOK
  <2>1. Len(<<>>) = 0
    OBVIOUS
  <2>2. MaxRestarts \in Nat
    BY EtaAssumption
  <2>3. FeatsOK
    <3>1. <<>> \in Seq(Feature)
      OBVIOUS
    <3> QED
      BY <1>1, <3>1 DEF FeatsOK
  <2>8. ThreadOK
    BY <1>1 DEF ThreadOK, Steps
  <2>6. SpeedsOK
    BY <1>1 DEF SpeedsOK, NoSpeeds
  <2>7. CountsOK
    BY <1>1, <2>2 DEF CountsOK
  <2>4. PlacesOK
    BY <1>1, <2>1 DEF PlacesOK, Nobody
  <2>5. RedisOK
    BY <1>1, <2>1 DEF RedisOK
  <2> QED
    BY <2>3, <2>4, <2>5, <2>6, <2>7, <2>8, EtaParts
<1>4. Offsets
  BY <1>1, <1>2 DEF Offsets
<1>5. Answered /\ SamplesKept /\ SnapshotAhead
  BY <1>2 DEF Answered, SamplesKept, SnapshotAhead
<1>6. OneLossPerClosing
  <2>1. (0 + 1) .. (-1) = {}
    OBVIOUS
  <2>2. Lost = {}
    BY <1>1, <2>1 DEF Lost
  <2>3. Cardinality({}) = 0
    BY FS_EmptySet
  <2> QED
    BY <1>1, <2>2, <2>3 DEF OneLossPerClosing
<1> QED
  BY <1>3, <1>4, <1>5, <1>6

\* The consumer thread of the ETA service (eta_consumer.py): whatever fails
\* and whenever it is restarted, it loses one message at most for each time it
\* is closed, and the speed of a trip whose messages come in the order of
\* their times is averaged over the last Window samples that are fresh.
THEOREM EtaCorrect == EtaSpec => []EtaInv
<1> DEFINE Inv == /\ EtaTypeOK /\ Offsets /\ Answered /\ SamplesKept
                  /\ OneLossPerClosing
<1>1. EtaInit => Inv
  BY EtaStart
<1>2. Inv /\ [EtaNext]_etaVars => Inv'
  BY EtaTypeStep, OffsetsStep, AnsweredStep, SamplesStep, LossStep
<1>3. Inv => EtaInv
  BY AveragesFollow DEF EtaInv
<1> QED
  BY <1>1, <1>2, <1>3, PTL DEF EtaSpec

\* eta:trip:{tripId}:snapshot: between two messages it is the newest message
\* of the trip that this process has read, or has expired.
THEOREM EtaSnapshotCorrect == EtaSpec => []SnapshotKeepsUp
<1> DEFINE Inv == EtaTypeOK /\ Offsets /\ SnapshotAhead
<1>1. EtaInit => Inv
  BY EtaStart
<1>2. Inv /\ [EtaNext]_etaVars => Inv'
  BY EtaTypeStep, OffsetsStep, SnapshotAheadStep
<1>3. Inv => SnapshotKeepsUp
  BY DEF SnapshotAhead, SnapshotKeepsUp, Consuming
<1> QED
  BY <1>1, <1>2, <1>3, PTL DEF EtaSpec

-----------------------------------------------------------------------------
(* AnomalyService: types, inputs and alerts.                                *)

\* AnomalyTypeOK by the variables that change together.
Inputs == Reading \union Rejection \union {Restarted}
InputsOK   == /\ inputs \in Seq(Inputs) /\ begun \in 0 .. Len(inputs)
              /\ Len(inputs) <= MaxInputs
KnownOK    == known \in [Buses -> Known \union {NoBus}]
StreaksOK  == streaks \in [Buses -> Streak]
RefusalsOK == rejected \in [Buses -> Refusals]
PingsOK    == pings \in [Buses -> 0 .. MinPings]
TodoOK     == todo \in [Tasks -> Seq(Alert)] /\ lossTask \in BOOLEAN
RaisedOK   == raised \subseteq Alert /\ alerts \subseteq raised

LEMMA AnomalyParts ==
    AnomalyTypeOK <=> /\ clock \in 0 .. MaxClock /\ InputsOK /\ KnownOK
                      /\ StreaksOK /\ RefusalsOK /\ PingsOK /\ TodoOK
                      /\ RaisedOK
  BY DEF AnomalyTypeOK, Inputs, InputsOK, KnownOK, StreaksOK, RefusalsOK,
         PingsOK, TodoOK, RaisedOK

LEMMA AnomalyPartsNext ==
    AnomalyTypeOK' <=> /\ clock' \in 0 .. MaxClock /\ InputsOK' /\ KnownOK'
                       /\ StreaksOK' /\ RefusalsOK' /\ PingsOK' /\ TodoOK'
                       /\ RaisedOK'
  BY DEF AnomalyTypeOK, Inputs, InputsOK, KnownOK, StreaksOK, RefusalsOK,
         PingsOK, TodoOK, RaisedOK

LEMMA NumbersOf ==
    ASSUME AnomalyTypeOK
    PROVE  /\ clock \in Nat /\ clock <= MaxClock
           /\ Len(inputs) \in Nat /\ begun \in Nat
           /\ begun <= Len(inputs) /\ Len(inputs) <= MaxInputs
           /\ DOMAIN inputs = 1 .. Len(inputs)
           /\ \A a \in raised : a \in Alert
           /\ \A a \in Alert : a.at \in Nat /\ a.clock \in Nat
<1>1. clock \in 0 .. MaxClock /\ InputsOK /\ RaisedOK
  BY AnomalyParts
<1>2. MaxClock \in Nat /\ MaxInputs \in Nat
  BY AnomalyAssumption
<1>3. \A a \in Alert : a.at \in 0 .. MaxInputs /\ a.clock \in 0 .. MaxClock
  BY DEF Alert
<1> QED
  BY <1>1, <1>2, <1>3 DEF InputsOK, RaisedOK

\* The members of a sequence, and of two that are joined.
Elems(s) == {s[i] : i \in DOMAIN s}

LEMMA JoinedElems ==
    ASSUME NEW s \in Seq(Alert), NEW t \in Seq(Alert)
    PROVE  /\ s \o t \in Seq(Alert)
           /\ \A x \in Elems(s \o t) : x \in Elems(s) \/ x \in Elems(t)
<1>1. s \o t \in Seq(Alert)
  OBVIOUS
<1>2. PICK m \in Nat : m = Len(s) /\ DOMAIN s = 1 .. m
  OBVIOUS
<1>3. PICK n \in Nat : n = Len(t) /\ DOMAIN t = 1 .. n
  OBVIOUS
<1>4. DOMAIN (s \o t) = 1 .. (m + n)
  BY <1>2, <1>3
<1>5. ASSUME NEW x \in Elems(s \o t)
      PROVE  x \in Elems(s) \/ x \in Elems(t)
  <2>1. PICK i \in 1 .. (m + n) : x = (s \o t)[i]
    BY <1>4, <1>5 DEF Elems
  <2>2. CASE i <= m
    <3>1. i \in 1 .. m /\ x = s[i]
      BY <1>2, <1>3, <2>1, <2>2
    <3> QED
      BY <1>2, <3>1 DEF Elems
  <2>3. CASE ~(i <= m)
    <3>1. i - m \in 1 .. n /\ x = t[i - m]
      BY <1>2, <1>3, <2>1, <2>3
    <3> QED
      BY <1>3, <3>1 DEF Elems
  <2> QED
    BY <2>2, <2>3
<1> QED
  BY <1>1, <1>5

\* An alert raised for the input that is being handled.
RaisedNow(x, type, b) ==
    x = [type |-> type, bus |-> b, at |-> Len(inputs) + 1, clock |-> clock]

LEMMA RaiseIs ==
    ASSUME AnomalyTypeOK, Len(inputs) < MaxInputs,
           NEW type \in AnomalyTypes, NEW b \in Buses, NEW cond
    PROVE  /\ Raise(type, b, cond) \in Seq(Alert)
           /\ \A x \in Elems(Raise(type, b, cond)) :
                 cond /\ RaisedNow(x, type, b)
<1>1. PICK a : a = [type |-> type, bus |-> b, at |-> Len(inputs) + 1,
                    clock |-> clock]
  OBVIOUS
<1>2. a \in Alert
  <2>1. Len(inputs) + 1 \in 0 .. MaxInputs /\ clock \in 0 .. MaxClock
    BY NumbersOf, AnomalyAssumption
  <2> QED
    BY <1>1, <2>1 DEF Alert
<1>3. CASE cond
  <2>1. Raise(type, b, cond) = <<a>>
    BY <1>1, <1>3 DEF Raise
  <2>2. <<a>> \in Seq(Alert) /\ DOMAIN <<a>> = 1 .. 1 /\ <<a>>[1] = a
    BY <1>2
  <2>3. \A x \in Elems(<<a>>) : x = a
    BY <2>2 DEF Elems
  <2> QED
    BY <1>1, <1>3, <2>1, <2>2, <2>3 DEF RaisedNow
<1>4. CASE ~cond
  <2>1. Raise(type, b, cond) = <<>>
    BY <1>4 DEF Raise
  <2>2. <<>> \in Seq(Alert) /\ DOMAIN <<>> = {}
    OBVIOUS
  <2> QED
    BY <2>1, <2>2 DEF Elems
<1> QED
  BY <1>3, <1>4

\* A list owed is typed if it was typed, and is raised as far as it is
\* watched.
LEMMA OwesIs ==
    ASSUME AnomalyTypeOK, NEW task \in Tasks, NEW list \in Seq(Alert),
           Owes(task, list)
    PROVE  /\ todo' \in [Tasks -> Seq(Alert)]
           /\ todo' = [todo EXCEPT ![task] = list]
           /\ raised \subseteq raised' /\ raised' \subseteq Alert
           /\ \A x \in raised' : x \in raised \/ x \in Elems(list)
           /\ \A x \in Elems(list) : x.type \in Watched => x \in raised'
<1>1. /\ todo' = [todo EXCEPT ![task] = list]
      /\ raised' = raised \union {a \in Elems(list) : a.type \in Watched}
  BY DEF Owes, Elems
<1>2. Elems(list) \subseteq Alert
  BY DEF Elems
<1>3. TodoOK /\ RaisedOK
  BY AnomalyParts
<1> QED
  BY <1>1, <1>2, <1>3 DEF TodoOK, RaisedOK

\* What the reading of a bus without a route raises.
LEMMA InactiveRaises ==
    ASSUME AnomalyTypeOK, NEW r \in Reading, ReadInactive(r)
    PROVE  /\ r.bus \in Buses /\ todo' \in [Tasks -> Seq(Alert)]
           /\ raised \subseteq raised' /\ raised' \subseteq Alert
           /\ todo'["loss"] = todo["loss"]
           /\ \A x \in raised' \ raised :
                 \E type \in {"UNREALISTIC_SPEED", "INACTIVE_GPS"} :
                    RaisedNow(x, type, r.bus)
<1>0. r.bus \in Buses /\ Len(inputs) < MaxInputs
  BY DEF Reading, ReadInactive, Input
<1>1. PICK s1 : s1 = Raise("UNREALISTIC_SPEED", r.bus, r.extra = "speeding")
  OBVIOUS
<1>2. PICK s2 : s2 = Raise("INACTIVE_GPS", r.bus, TRUE)
  OBVIOUS
<1>3. /\ s1 \in Seq(Alert) /\ s2 \in Seq(Alert)
      /\ \A x \in Elems(s1) : RaisedNow(x, "UNREALISTIC_SPEED", r.bus)
      /\ \A x \in Elems(s2) : RaisedNow(x, "INACTIVE_GPS", r.bus)
  <2>1. {"UNREALISTIC_SPEED", "INACTIVE_GPS"} \subseteq AnomalyTypes
    BY DEF AnomalyTypes, AdminTypes
  <2> QED
    BY <1>0, <1>1, <1>2, <2>1, RaiseIs
<1>4. s1 \o s2 \in Seq(Alert) /\ Owes("cleaned", s1 \o s2)
  BY <1>1, <1>2, <1>3, JoinedElems DEF ReadInactive
<1>5. "cleaned" \in Tasks /\ "loss" \in Tasks
  BY DEF Tasks
<1>6. /\ todo' \in [Tasks -> Seq(Alert)]
      /\ todo' = [todo EXCEPT !["cleaned"] = s1 \o s2]
      /\ raised \subseteq raised' /\ raised' \subseteq Alert
      /\ \A x \in raised' : x \in raised \/ x \in Elems(s1 \o s2)
  BY <1>4, <1>5, OwesIs
<1>7. todo'["loss"] = todo["loss"]
  BY <1>5, <1>6, AnomalyParts DEF TodoOK
<1>8. \A x \in Elems(s1 \o s2) : x \in Elems(s1) \/ x \in Elems(s2)
  BY <1>3, JoinedElems
<1> QED
  BY <1>0, <1>3, <1>6, <1>7, <1>8

\* What the reading of a bus with a route raises.
LEMMA ActiveRaises ==
    ASSUME AnomalyTypeOK, NEW r \in Reading, ReadActive(r)
    PROVE  /\ r.bus \in Buses /\ todo' \in [Tasks -> Seq(Alert)]
           /\ raised \subseteq raised' /\ raised' \subseteq Alert
           /\ todo'["loss"] = todo["loss"]
           /\ \A x \in raised' \ raised :
                 \/ /\ RaisedNow(x, "PERSISTENT_OFF_ROUTE", r.bus)
                    /\ r.kind = "off" /\ Persists(StreakAfter(r.bus, r.ts))
                 \/ \E type \in {"UNREALISTIC_SPEED", "OFF_ROUTE",
                                 "STATIONARY", "ERRATIC_DRIVING"} :
                       RaisedNow(x, type, r.bus)
<1>0. r.bus \in Buses /\ Len(inputs) < MaxInputs
  BY DEF Reading, ReadActive, Input
<1>1. PICK s1 : s1 = Raise("UNREALISTIC_SPEED", r.bus, r.extra = "speeding")
  OBVIOUS
<1>2. PICK s2 : s2 = Raise("OFF_ROUTE", r.bus, r.kind = "off")
  OBVIOUS
<1>3. PICK s3 : s3 = Raise("PERSISTENT_OFF_ROUTE", r.bus,
                       r.kind = "off" /\ Persists(StreakAfter(r.bus, r.ts)))
  OBVIOUS
<1>4. PICK s4 : s4 = Raise("STATIONARY", r.bus,
                           r.extra = "stationary" /\ ~StillBefore(r.bus))
  OBVIOUS
<1>5. PICK s5 : s5 = Raise("ERRATIC_DRIVING", r.bus, Erratic(r))
  OBVIOUS
<1>6. {"UNREALISTIC_SPEED", "OFF_ROUTE", "PERSISTENT_OFF_ROUTE",
       "STATIONARY", "ERRATIC_DRIVING"} \subseteq AnomalyTypes
  BY DEF AnomalyTypes, AdminTypes
<1>7. /\ s1 \in Seq(Alert) /\ s2 \in Seq(Alert)
      /\ \A x \in Elems(s1) : RaisedNow(x, "UNREALISTIC_SPEED", r.bus)
      /\ \A x \in Elems(s2) : RaisedNow(x, "OFF_ROUTE", r.bus)
  BY <1>0, <1>1, <1>2, <1>6, RaiseIs
<1>8. /\ s3 \in Seq(Alert)
      /\ \A x \in Elems(s3) :
            /\ RaisedNow(x, "PERSISTENT_OFF_ROUTE", r.bus)
            /\ r.kind = "off" /\ Persists(StreakAfter(r.bus, r.ts))
  BY <1>0, <1>3, <1>6, RaiseIs
<1>9. /\ s4 \in Seq(Alert) /\ s5 \in Seq(Alert)
      /\ \A x \in Elems(s4) : RaisedNow(x, "STATIONARY", r.bus)
      /\ \A x \in Elems(s5) : RaisedNow(x, "ERRATIC_DRIVING", r.bus)
  BY <1>0, <1>4, <1>5, <1>6, RaiseIs
<1>10. PICK list : list = s1 \o s2 \o s3 \o s4 \o s5
  OBVIOUS
<1>11. /\ list \in Seq(Alert)
       /\ \A x \in Elems(list) : \/ x \in Elems(s1) \/ x \in Elems(s2)
                                 \/ x \in Elems(s3) \/ x \in Elems(s4)
                                 \/ x \in Elems(s5)
  <2>1. /\ s1 \o s2 \in Seq(Alert)
        /\ \A x \in Elems(s1 \o s2) : x \in Elems(s1) \/ x \in Elems(s2)
    BY <1>7, JoinedElems
  <2>2. PICK l2 : l2 = s1 \o s2
    OBVIOUS
  <2>3. /\ l2 \o s3 \in Seq(Alert)
        /\ \A x \in Elems(l2 \o s3) : x \in Elems(l2) \/ x \in Elems(s3)
    BY <1>8, <2>1, <2>2, JoinedElems
  <2>4. PICK l3 : l3 = l2 \o s3
    OBVIOUS
  <2>5. /\ l3 \o s4 \in Seq(Alert)
        /\ \A x \in Elems(l3 \o s4) : x \in Elems(l3) \/ x \in Elems(s4)
    BY <1>9, <2>3, <2>4, JoinedElems
  <2>6. PICK l4 : l4 = l3 \o s4
    OBVIOUS
  <2>7. /\ l4 \o s5 \in Seq(Alert)
        /\ \A x \in Elems(l4 \o s5) : x \in Elems(l4) \/ x \in Elems(s5)
    BY <1>9, <2>5, <2>6, JoinedElems
  <2>8. list = l4 \o s5
    BY <1>10, <2>2, <2>4, <2>6
  <2> QED
    BY <2>1, <2>2, <2>3, <2>4, <2>5, <2>6, <2>7, <2>8, Zenon
<1>12. Owes("cleaned", list)
  BY <1>1, <1>2, <1>3, <1>4, <1>5, <1>10 DEF ReadActive
<1>13. "cleaned" \in Tasks /\ "loss" \in Tasks
  BY DEF Tasks
<1>14. /\ todo' \in [Tasks -> Seq(Alert)]
       /\ todo' = [todo EXCEPT !["cleaned"] = list]
       /\ raised \subseteq raised' /\ raised' \subseteq Alert
       /\ \A x \in raised' : x \in raised \/ x \in Elems(list)
  BY <1>11, <1>12, <1>13, OwesIs
<1>15. todo'["loss"] = todo["loss"]
  BY <1>13, <1>14, AnomalyParts DEF TodoOK
<1>16. ASSUME NEW x \in raised' \ raised
       PROVE  \/ /\ RaisedNow(x, "PERSISTENT_OFF_ROUTE", r.bus)
                 /\ r.kind = "off" /\ Persists(StreakAfter(r.bus, r.ts))
              \/ \E type \in {"UNREALISTIC_SPEED", "OFF_ROUTE", "STATIONARY",
                              "ERRATIC_DRIVING"} :
                    RaisedNow(x, type, r.bus)
  <2>1. x \in Elems(list)
    BY <1>14
  <2> QED
    BY <1>7, <1>8, <1>9, <1>11, <2>1
<1> QED
  BY <1>0, <1>14, <1>15, <1>16

\* What a rejection raises.
LEMMA RejectionRaises ==
    ASSUME AnomalyTypeOK, NEW b \in Buses, ReadRejection(b)
    PROVE  /\ todo' \in [Tasks -> Seq(Alert)]
           /\ raised \subseteq raised' /\ raised' \subseteq Alert
           /\ todo'["loss"] = todo["loss"]
           /\ \A x \in raised' \ raised :
                 /\ RaisedNow(x, "TRIP_NOT_STARTED_DEVICE_ACTIVE", b)
                 /\ Cardinality(RecentRejections(b)) >= DlqCount
                 /\ ~InCooldown(b)
<1>0. Len(inputs) < MaxInputs
  BY DEF ReadRejection, Input
<1>1. PICK s : s = Raise("TRIP_NOT_STARTED_DEVICE_ACTIVE", b,
                         /\ Cardinality(RecentRejections(b)) >= DlqCount
                         /\ ~InCooldown(b))
  OBVIOUS
<1>2. /\ s \in Seq(Alert)
      /\ \A x \in Elems(s) :
            /\ RaisedNow(x, "TRIP_NOT_STARTED_DEVICE_ACTIVE", b)
            /\ Cardinality(RecentRejections(b)) >= DlqCount
            /\ ~InCooldown(b)
  <2>1. "TRIP_NOT_STARTED_DEVICE_ACTIVE" \in AnomalyTypes
    BY DEF AnomalyTypes, AdminTypes
  <2> QED
    BY <1>0, <1>1, <2>1, RaiseIs
<1>3. "dlq" \in Tasks /\ "loss" \in Tasks
  BY DEF Tasks
<1>4. /\ todo' \in [Tasks -> Seq(Alert)]
      /\ todo' = [todo EXCEPT !["dlq"] = s]
      /\ raised \subseteq raised' /\ raised' \subseteq Alert
      /\ \A x \in raised' : x \in raised \/ x \in Elems(s)
  <2>1. Owes("dlq", s)
    BY <1>1 DEF ReadRejection
  <2> QED
    BY <1>2, <1>3, <2>1, OwesIs
<1>5. todo'["loss"] = todo["loss"]
  BY <1>3, <1>4, AnomalyParts DEF TodoOK
<1> QED
  BY <1>2, <1>4, <1>5

\* The order in which a set is reported misses none of its members.
LEMMA OrdersAll ==
    ASSUME NEW S, IsFiniteSet(S), NEW order \in Orders(S)
    PROVE  \A x \in S : \E i \in DOMAIN order : order[i] = x
<1>1. PICK n \in Nat : n = Cardinality(S)
  BY FS_CardinalityType
<1>2. /\ order \in [1 .. n -> S]
      /\ \A i, j \in 1 .. n : i # j => order[i] # order[j]
  BY <1>1 DEF Orders
<1>3. order \in Injection(1 .. n, S)
  BY <1>2 DEF Injection, IsInjective
<1>4. Cardinality(1 .. n) = n
  BY <1>1, FS_Interval
<1>5. order \in Surjection(1 .. n, S)
  BY <1>1, <1>3, <1>4, FS_Injection
<1> QED
  BY <1>2, <1>5 DEF Surjection

\* What the periodic check raises: the silence of every silent bus.
LEMMA SilenceRaises ==
    ASSUME AnomalyTypeOK, CheckSilence
    PROVE  /\ todo' \in [Tasks -> Seq(Alert)]
           /\ raised \subseteq raised' /\ raised' \subseteq Alert
           /\ \A x \in raised' \ raised :
                 /\ x.type = "COMMUNICATION_LOSS" /\ Silent(x.bus)
                 /\ x.at = Len(inputs) /\ x.clock = clock
           /\ "COMMUNICATION_LOSS" \in Watched =>
                 \A i \in DOMAIN todo'["loss"] : todo'["loss"][i] \in raised'
           /\ \A b \in Buses : Silent(b) =>
                 \E i \in DOMAIN todo'["loss"] :
                    /\ todo'["loss"][i].type = "COMMUNICATION_LOSS"
                    /\ todo'["loss"][i].bus = b
                    /\ todo'["loss"][i].at = Len(inputs)
<1> DEFINE S == {b \in Buses : Silent(b)}
           Loss(b) == [type |-> "COMMUNICATION_LOSS", bus |-> b,
                       at |-> Len(inputs), clock |-> clock]
<1>1. PICK order \in Orders(S) :
         Owes("loss", [i \in DOMAIN order |-> Loss(order[i])])
  BY DEF CheckSilence
<1>2. PICK list : list = [i \in DOMAIN order |-> Loss(order[i])]
  OBVIOUS
<1>3. IsFiniteSet(S)
  <2>1. S \in SUBSET Buses
    OBVIOUS
  <2> QED
    BY <2>1, AnomalyAssumption, FS_Subset
<1>4. PICK n \in Nat : n = Cardinality(S)
  BY <1>3, FS_CardinalityType
<1>5. DOMAIN order = 1 .. n /\ \A i \in 1 .. n : order[i] \in S
  BY <1>1, <1>4 DEF Orders
<1>6. \A b \in S : Loss(b) \in Alert
  <2>1. Len(inputs) \in 0 .. MaxInputs /\ clock \in 0 .. MaxClock
    BY NumbersOf, AnomalyAssumption
  <2>2. "COMMUNICATION_LOSS" \in AnomalyTypes
    BY DEF AnomalyTypes, AdminTypes
  <2> QED
    BY <2>1, <2>2 DEF Alert
<1>7. /\ list \in Seq(Alert) /\ DOMAIN list = 1 .. n
      /\ \A i \in 1 .. n : list[i] = Loss(order[i])
  <2>1. list = [i \in 1 .. n |-> Loss(order[i])]
    BY <1>2, <1>5
  <2>2. \A i \in 1 .. n : Loss(order[i]) \in Alert
    BY <1>5, <1>6
  <2>3. list \in [1 .. n -> Alert]
    BY <2>1, <2>2
  <2> QED
    BY <1>4, <2>1, <2>3
<1>8. "loss" \in Tasks
  BY DEF Tasks
<1>9. /\ todo' \in [Tasks -> Seq(Alert)]
      /\ todo' = [todo EXCEPT !["loss"] = list]
      /\ raised \subseteq raised' /\ raised' \subseteq Alert
      /\ \A x \in raised' : x \in raised \/ x \in Elems(list)
      /\ \A x \in Elems(list) : x.type \in Watched => x \in raised'
  BY <1>1, <1>2, <1>7, <1>8, OwesIs
<1>10. todo'["loss"] = list
  BY <1>8, <1>9, AnomalyParts DEF TodoOK
<1>11. ASSUME NEW x \in raised' \ raised
       PROVE  /\ x.type = "COMMUNICATION_LOSS" /\ Silent(x.bus)
              /\ x.at = Len(inputs) /\ x.clock = clock
  <2>1. PICK i \in 1 .. n : x = Loss(order[i])
    BY <1>7, <1>9 DEF Elems
  <2> QED
    BY <1>5, <2>1
<1>12. ASSUME "COMMUNICATION_LOSS" \in Watched
       PROVE  \A i \in DOMAIN list : list[i] \in raised'
  BY <1>7, <1>9, <1>12 DEF Elems
<1>13. ASSUME NEW b \in Buses, Silent(b)
       PROVE  \E i \in DOMAIN list : /\ list[i].type = "COMMUNICATION_LOSS"
                                     /\ list[i].bus = b
                                     /\ list[i].at = Len(inputs)
  <2>1. PICK i \in DOMAIN order : order[i] = b
    BY <1>1, <1>3, <1>13, OrdersAll
  <2> QED
    BY <1>5, <1>7, <2>1
<1> QED
  BY <1>9, <1>10, <1>11, <1>12, <1>13

\* A reading of a bus with a route.
LEMMA ReadingIs ==
    ASSUME NEW r \in Reading, r.kind # "noRoute"
    PROVE  r.bus \in Buses /\ r.ts \in 0 .. MaxClock /\ r.kind \in {"on", "off"}
  BY DEF Reading

\* The streak of a bus with one more reading: a new one, or the old one.
LEMMA StreakAfterIs ==
    ASSUME AnomalyTypeOK, NEW b \in Buses, NEW ts
    PROVE  LET s == streaks[b] IN
           /\ s.count \in Nat /\ s.start \in 0 .. MaxClock
           /\ s.alerted \in BOOLEAN
           /\ \/ /\ s.count = 0 \/ ts - s.start > StreakWindow
                 /\ StreakAfter(b, ts) =
                       [count |-> 1, start |-> ts, alerted |-> FALSE]
              \/ /\ s.count # 0 /\ ~(ts - s.start > StreakWindow)
                 /\ StreakAfter(b, ts) = [count |-> s.count + 1,
                                          start |-> s.start,
                                          alerted |-> s.alerted]
<1>1. PICK s : s = streaks[b]
  OBVIOUS
<1>2. /\ s.count \in 0 .. MaxInputs /\ s.start \in 0 .. MaxClock
      /\ s.alerted \in BOOLEAN
      /\ s = [count |-> s.count, start |-> s.start, alerted |-> s.alerted]
  <2>1. s \in Streak
    BY <1>1, AnomalyParts DEF StreaksOK
  <2> QED
    BY <2>1 DEF Streak
<1>3. CASE s.count = 0 \/ ts - s.start > StreakWindow
  <2>1. StreakAfter(b, ts) =
           [[NoStreak EXCEPT !.start = ts] EXCEPT !.count = @ + 1]
    BY <1>1, <1>3 DEF StreakAfter
  <2>2. [NoStreak EXCEPT !.start = ts] =
           [count |-> 0, start |-> ts, alerted |-> FALSE]
    <3>1. PICK n : n = NoStreak
      OBVIOUS
    <3>2. /\ n = [count |-> n.count, start |-> n.start,
                  alerted |-> n.alerted]
          /\ n.count = 0 /\ n.alerted = FALSE
      BY <3>1 DEF NoStreak
    <3>3. [n EXCEPT !.start = ts] = [count |-> n.count, start |-> ts,
                                     alerted |-> n.alerted]
      BY <3>2
    <3> QED
      BY <3>1, <3>2, <3>3
  <2>3. StreakAfter(b, ts) = [count |-> 0 + 1, start |-> ts,
                              alerted |-> FALSE]
    BY <2>1, <2>2
  <2> QED
    BY <1>1, <1>2, <1>3, <2>3
<1>4. CASE ~(s.count = 0 \/ ts - s.start > StreakWindow)
  <2>1. StreakAfter(b, ts) = [s EXCEPT !.count = @ + 1]
    BY <1>1, <1>4 DEF StreakAfter
  <2>2. [s EXCEPT !.count = @ + 1] = [count |-> s.count + 1,
                                      start |-> s.start,
                                      alerted |-> s.alerted]
    BY <1>2
  <2> QED
    BY <1>1, <1>2, <1>4, <2>1, <2>2
<1> QED
  BY <1>3, <1>4

\* What a reading off the route leaves of the streak.
LEMMA OffRouteIs ==
    ASSUME AnomalyTypeOK, NEW r \in Reading, ReadOffItsRoute(r)
    PROVE  /\ r.kind = "off" /\ r.bus \in Buses
           /\ \E s : /\ s = StreakAfter(r.bus, r.ts)
                     /\ streaks' = [streaks EXCEPT ![r.bus] =
                           [count |-> s.count, start |-> s.start,
                            alerted |-> s.alerted \/ Persists(s)]]
                     /\ s.count \in Nat /\ s.start \in 0 .. MaxClock
                     /\ s.alerted \in BOOLEAN
                     /\ s.count <= streaks[r.bus].count + 1
<1>1. r.kind = "off" /\ r.bus \in Buses /\ r.ts \in 0 .. MaxClock
  BY ReadingIs DEF ReadOffItsRoute
<1>2. PICK s : s = StreakAfter(r.bus, r.ts)
  OBVIOUS
<1>3. /\ s = [count |-> s.count, start |-> s.start, alerted |-> s.alerted]
      /\ s.count \in Nat /\ s.start \in 0 .. MaxClock
      /\ s.alerted \in BOOLEAN /\ s.count <= streaks[r.bus].count + 1
  <2>1. CASE s = [count |-> 1, start |-> r.ts, alerted |-> FALSE]
    BY <1>1, <2>1, StreakAfterIs
  <2>2. CASE s = [count |-> streaks[r.bus].count + 1,
                  start |-> streaks[r.bus].start,
                  alerted |-> streaks[r.bus].alerted]
    <3>1. PICK o : o = streaks[r.bus]
      OBVIOUS
    <3>2. /\ o.count \in Nat /\ o.start \in 0 .. MaxClock
          /\ o.alerted \in BOOLEAN
      BY <1>1, <3>1, StreakAfterIs
    <3>3. /\ s.count = o.count + 1 /\ s.start = o.start
          /\ s.alerted = o.alerted
      BY <2>2, <3>1
    <3>4. s = [count |-> s.count, start |-> s.start, alerted |-> s.alerted]
      BY <2>2
    <3> QED
      BY <3>1, <3>2, <3>3, <3>4
  <2> QED
    BY <1>1, <1>2, <2>1, <2>2, StreakAfterIs
<1>4. streaks' = [streaks EXCEPT ![r.bus] =
                     [s EXCEPT !.alerted = @ \/ Persists(s)]]
  BY <1>2 DEF ReadOffItsRoute
<1>5. [s EXCEPT !.alerted = @ \/ Persists(s)] =
         [count |-> s.count, start |-> s.start,
          alerted |-> s.alerted \/ Persists(s)]
  BY <1>3
<1> QED
  BY <1>1, <1>2, <1>3, <1>4, <1>5

\* A new input.
LEMMA InputIs ==
    ASSUME AnomalyTypeOK, NEW x \in Inputs, Input(x)
    PROVE  /\ inputs' = Append(inputs, x) /\ inputs' \in Seq(Inputs)
           /\ Len(inputs') = Len(inputs) + 1 /\ Len(inputs') <= MaxInputs
           /\ Len(inputs) + 1 \in 1 .. MaxInputs
           /\ inputs'[Len(inputs) + 1] = x
           /\ begun \in 0 .. Len(inputs')
<1>1. InputsOK
  BY AnomalyParts
<1>2. Len(inputs) \in Nat /\ MaxInputs \in Nat
  BY NumbersOf, AnomalyAssumption
<1> QED
  BY <1>1, <1>2 DEF InputsOK, Input

LEMMA AnomalyTypeStep ==
    AnomalyTypeOK /\ StreaksKept /\ [AnomalyNext]_anomalyVars
      => AnomalyTypeOK'
<1> SUFFICES ASSUME AnomalyTypeOK, StreaksKept, [AnomalyNext]_anomalyVars
             PROVE  /\ clock' \in 0 .. MaxClock /\ InputsOK' /\ KnownOK'
                    /\ StreaksOK' /\ RefusalsOK' /\ PingsOK' /\ TodoOK'
                    /\ RaisedOK'
  BY AnomalyPartsNext
<1>0. /\ clock \in 0 .. MaxClock /\ InputsOK /\ KnownOK /\ StreaksOK
      /\ RefusalsOK /\ PingsOK /\ TodoOK /\ RaisedOK
  BY AnomalyParts
<1>c. /\ MaxClock \in Nat /\ MaxInputs \in Nat /\ MinPings \in Nat
      /\ MinPings >= 1 /\ Len(inputs) \in Nat
  BY AnomalyAssumption, NumbersOf
<1>1. CASE Tick
  <2>1. clock' \in 0 .. MaxClock
    BY <1>0, <1>1, <1>c DEF Tick
  <2> QED
    BY <1>0, <1>1, <2>1
       DEF Tick, memory, InputsOK, KnownOK, StreaksOK, RefusalsOK, PingsOK,
           TodoOK, RaisedOK
<1>2. ASSUME NEW r \in Reading, ReadInactive(r)
      PROVE  /\ clock' \in 0 .. MaxClock /\ InputsOK' /\ KnownOK'
             /\ StreaksOK' /\ RefusalsOK' /\ PingsOK' /\ TodoOK'
             /\ RaisedOK'
  <2>1. /\ Input(r)
        /\ UNCHANGED <<clock, begun, memory, lossTask, alerts>>
    BY <1>2 DEF ReadInactive
  <2>2. InputsOK'
    BY <2>1, InputIs DEF InputsOK, Inputs
  <2>3. TodoOK'
    BY <1>0, <1>2, <2>1, InactiveRaises DEF TodoOK
  <2>4. RaisedOK'
    BY <1>0, <1>2, <2>1, InactiveRaises DEF RaisedOK
  <2> QED
    BY <1>0, <2>1, <2>2, <2>3, <2>4
       DEF memory, KnownOK, StreaksOK, RefusalsOK, PingsOK
<1>3. ASSUME NEW r \in Reading, ReadActive(r)
      PROVE  /\ clock' \in 0 .. MaxClock /\ InputsOK' /\ KnownOK'
             /\ StreaksOK' /\ RefusalsOK' /\ PingsOK' /\ TodoOK'
             /\ RaisedOK'
  <2>1. /\ Input(r) /\ r.kind # "noRoute"
        /\ UNCHANGED <<clock, begun, rejected, lossTask, alerts>>
    BY <1>3 DEF ReadActive
  <2>2. r.bus \in Buses /\ r.ts \in 0 .. MaxClock
    BY <2>1, ReadingIs
  <2>3. InputsOK'
    BY <2>1, InputIs DEF InputsOK, Inputs
  <2>4. TodoOK'
    BY <1>0, <1>3, <2>1, ActiveRaises DEF TodoOK
  <2>5. RaisedOK'
    BY <1>0, <1>3, <2>1, ActiveRaises DEF RaisedOK
  <2>6. KnownOK'
    <3>1. PICK k : k = [seen |-> TRUE, last |-> r.ts, lost |-> FALSE,
                        still |-> r.extra = "stationary"]
      OBVIOUS
    <3>2. (r.extra = "stationary") \in BOOLEAN
      OBVIOUS
    <3>3. k \in Known
      BY <2>2, <3>1, <3>2 DEF Known
    <3>4. known' = [known EXCEPT ![r.bus] = k]
      BY <1>3, <3>1 DEF ReadActive
    <3> QED
      BY <1>0, <3>3, <3>4 DEF KnownOK
  <2>7. PingsOK'
    <3>1. pings[r.bus] \in 0 .. MinPings
      BY <1>0, <2>2 DEF PingsOK
    <3>2. PingsAfter(r.bus) \in 0 .. MinPings
      BY <1>c, <3>1 DEF PingsAfter
    <3>3. pings' = [pings EXCEPT ![r.bus] = PingsAfter(r.bus)]
      BY <1>3 DEF ReadActive
    <3> QED
      BY <1>0, <3>2, <3>3 DEF PingsOK
  <2>8. StreaksOK'
    <3>1. CASE ReadOnItsRoute(r)
      <4>1. NoStreak \in Streak
        BY <1>c DEF NoStreak, Streak
      <4> QED
        BY <1>0, <3>1, <4>1 DEF ReadOnItsRoute, StreaksOK
    <3>2. CASE ReadOffItsRoute(r)
      <4>1. PICK s :
              /\ streaks' = [streaks EXCEPT ![r.bus] =
                    [count |-> s.count, start |-> s.start,
                     alerted |-> s.alerted \/ Persists(s)]]
              /\ s.count \in Nat /\ s.start \in 0 .. MaxClock
              /\ s.alerted \in BOOLEAN
              /\ s.count <= streaks[r.bus].count + 1
        BY <3>2, OffRouteIs
      <4>2. s.count \in 0 .. MaxInputs
        <5>1. PICK c \in Nat : c = streaks[r.bus].count
          BY <2>2, StreakAfterIs
        <5>2. c <= Len(inputs)
          BY <2>2, <5>1 DEF StreaksKept
        <5>3. Len(inputs) < MaxInputs
          BY <2>1 DEF Input
        <5>4. PICK d \in Nat : d = s.count
          BY <4>1
        <5>5. d <= c + 1
          BY <4>1, <5>1, <5>4
        <5> QED
          BY <1>c, <5>2, <5>3, <5>4, <5>5
      <4>3. (s.alerted \/ Persists(s)) \in BOOLEAN
        BY <4>1
      <4>4. [count |-> s.count, start |-> s.start,
             alerted |-> s.alerted \/ Persists(s)] \in Streak
        BY <4>1, <4>2, <4>3 DEF Streak
      <4> QED
        BY <1>0, <4>1, <4>4 DEF StreaksOK
    <3> QED
      BY <1>3, <3>1, <3>2 DEF ReadActive
  <2> QED
    BY <1>0, <2>1, <2>3, <2>4, <2>5, <2>6, <2>7, <2>8 DEF RefusalsOK
<1>4. ASSUME NEW b \in Buses, ReadRejection(b)
      PROVE  /\ clock' \in 0 .. MaxClock /\ InputsOK' /\ KnownOK'
             /\ StreaksOK' /\ RefusalsOK' /\ PingsOK' /\ TodoOK'
             /\ RaisedOK'
  <2>1. PICK x : x = [bus |-> b, ts |-> clock, kind |-> "rejected"]
    OBVIOUS
  <2>2. x \in Inputs
    BY <1>0, <2>1 DEF Inputs, Rejection
  <2>3. /\ Input(x)
        /\ UNCHANGED <<clock, begun, known, streaks, pings, lossTask, alerts>>
    BY <1>4, <2>1 DEF ReadRejection
  <2>4. InputsOK' /\ Len(inputs) + 1 \in 1 .. MaxInputs
    BY <2>2, <2>3, InputIs DEF InputsOK
  <2>5. TodoOK'
    BY <1>0, <1>4, <2>3, RejectionRaises DEF TodoOK
  <2>6. RaisedOK'
    BY <1>0, <1>4, <2>3, RejectionRaises DEF RaisedOK
  <2>7. RefusalsOK'
    <3>1. PICK y : y = [at |-> Len(inputs) + 1, ts |-> clock]
      OBVIOUS
    <3>2. y \in [at : 1 .. MaxInputs, ts : 0 .. MaxClock]
      BY <1>0, <2>4, <3>1
    <3>3. rejected[b] \in Refusals
      BY <1>0 DEF RefusalsOK
    <3>4. /\ rejected[b].times \subseteq [at : 1 .. MaxInputs,
                                          ts : 0 .. MaxClock]
          /\ rejected[b].lastAlert \in Never .. MaxClock
      BY <3>3 DEF Refusals
    <3>5. RecentRejections(b) \subseteq [at : 1 .. MaxInputs,
                                         ts : 0 .. MaxClock]
      BY <3>1, <3>2, <3>4 DEF RecentRejections
    <3>6. clock \in Never .. MaxClock
      BY <1>0, <1>c DEF Never
    <3>7. \E l \in Never .. MaxClock :
             rejected' = [rejected EXCEPT ![b] =
                [times |-> RecentRejections(b), lastAlert |-> l]]
      BY <1>4, <3>4, <3>6 DEF ReadRejection
    <3>8. PICK l \in Never .. MaxClock :
             rejected' = [rejected EXCEPT ![b] =
                [times |-> RecentRejections(b), lastAlert |-> l]]
      BY <3>7
    <3>9. [times |-> RecentRejections(b), lastAlert |-> l] \in Refusals
      BY <3>5, <3>8 DEF Refusals
    <3> QED
      BY <1>0, <3>8, <3>9 DEF RefusalsOK
  <2> QED
    BY <1>0, <2>3, <2>4, <2>5, <2>6, <2>7 DEF KnownOK, StreaksOK, PingsOK
<1>5. CASE CheckSilence
  <2>1. /\ UNCHANGED <<clock, inputs, begun, streaks, rejected, pings,
                       lossTask, alerts>>
        /\ known' = [b \in Buses |->
                        IF Silent(b) THEN [known[b] EXCEPT !.lost = TRUE]
                                     ELSE known[b]]
    BY <1>5 DEF CheckSilence
  <2>2. TodoOK'
    BY <1>0, <1>5, <2>1, SilenceRaises DEF TodoOK
  <2>3. RaisedOK'
    BY <1>0, <1>5, <2>1, SilenceRaises DEF RaisedOK
  <2>4. KnownOK'
    <3>1. ASSUME NEW b \in Buses, Silent(b)
          PROVE  [known[b] EXCEPT !.lost = TRUE] \in Known
      <4>1. known[b] \in Known \union {NoBus} /\ known[b].seen
        BY <1>0, <3>1 DEF KnownOK, Silent
      <4>2. known[b] \in Known
        BY <4>1 DEF NoBus
      <4> QED
        BY <4>2 DEF Known
    <3> QED
      BY <1>0, <2>1, <3>1 DEF KnownOK
  <2> QED
    BY <1>0, <2>1, <2>2, <2>3, <2>4
       DEF InputsOK, StreaksOK, RefusalsOK, PingsOK
<1>6. ASSUME NEW task \in Tasks, SendAlert(task)
      PROVE  /\ clock' \in 0 .. MaxClock /\ InputsOK' /\ KnownOK'
             /\ StreaksOK' /\ RefusalsOK' /\ PingsOK' /\ TodoOK'
             /\ RaisedOK'
  <2>1. /\ todo[task] # <<>>
        /\ alerts' = alerts \union ({Head(todo[task])} \intersect raised)
        /\ todo' = [todo EXCEPT ![task] = Tail(todo[task])]
        /\ UNCHANGED <<clock, inputs, begun, memory, lossTask, raised>>
    BY <1>6 DEF SendAlert
  <2>2. Tail(todo[task]) \in Seq(Alert)
    <3>1. todo[task] \in Seq(Alert)
      BY <1>0 DEF TodoOK
    <3> QED
      BY <2>1, <3>1
  <2>3. TodoOK'
    BY <1>0, <2>1, <2>2 DEF TodoOK
  <2>4. RaisedOK'
    BY <1>0, <2>1 DEF RaisedOK
  <2> QED
    BY <1>0, <2>1, <2>3, <2>4
       DEF memory, InputsOK, KnownOK, StreaksOK, RefusalsOK, PingsOK
<1>7. ASSUME NEW task \in Tasks, SendFails(task)
      PROVE  /\ clock' \in 0 .. MaxClock /\ InputsOK' /\ KnownOK'
             /\ StreaksOK' /\ RefusalsOK' /\ PingsOK' /\ TodoOK'
             /\ RaisedOK'
  <2>1. /\ todo' = [todo EXCEPT ![task] = <<>>]
        /\ lossTask' = (lossTask /\ task # "loss")
        /\ UNCHANGED <<clock, inputs, begun, memory, raised, alerts>>
    BY <1>7 DEF SendFails
  <2>2. TodoOK'
    <3>1. (lossTask /\ task # "loss") \in BOOLEAN
      OBVIOUS
    <3> QED
      BY <1>0, <2>1, <3>1 DEF TodoOK
  <2> QED
    BY <1>0, <2>1, <2>2
       DEF memory, InputsOK, KnownOK, StreaksOK, RefusalsOK, PingsOK, RaisedOK
<1>8. CASE AnomalyRestart
  <2>1. /\ Input(Restarted) /\ begun' = Len(inputs) + 1 /\ Forgotten
        /\ UNCHANGED <<clock, raised, alerts>>
    BY <1>8 DEF AnomalyRestart
  <2>2. Restarted \in Inputs
    BY DEF Inputs
  <2>3. InputsOK'
    BY <1>c, <2>1, <2>2, InputIs DEF InputsOK
  <2>4. KnownOK' /\ PingsOK'
    BY <1>c, <2>1 DEF Forgotten, KnownOK, PingsOK
  <2>5. StreaksOK'
    <3>1. NoStreak \in Streak
      BY <1>c DEF NoStreak, Streak
    <3> QED
      BY <2>1, <3>1 DEF Forgotten, StreaksOK
  <2>6. RefusalsOK'
    <3>1. Never \in Never .. MaxClock
      BY <1>c DEF Never
    <3>2. [times |-> {}, lastAlert |-> Never] \in Refusals
      BY <3>1 DEF Refusals
    <3> QED
      BY <2>1, <3>2 DEF Forgotten, RefusalsOK
  <2>7. TodoOK'
    BY <2>1 DEF Forgotten, TodoOK
  <2> QED
    BY <1>0, <2>1, <2>3, <2>4, <2>5, <2>6, <2>7 DEF RaisedOK
<1>9. CASE UNCHANGED anomalyVars
  BY <1>0, <1>9
     DEF anomalyVars, memory, InputsOK, KnownOK, StreaksOK, RefusalsOK,
         PingsOK, TodoOK, RaisedOK
<1> QED
  BY <1>1, <1>2, <1>3, <1>4, <1>5, <1>6, <1>7, <1>8, <1>9 DEF AnomalyNext

\* Inputs are appended, and only a restart moves begun.
LEMMA InputsGrow ==
    ASSUME AnomalyTypeOK, [AnomalyNext]_anomalyVars
    PROVE  /\ Len(inputs') \in Nat /\ Len(inputs) <= Len(inputs')
           /\ DOMAIN inputs' = 1 .. Len(inputs')
           /\ \A i \in 1 .. Len(inputs) : inputs'[i] = inputs[i]
           /\ \/ /\ begun' = begun
                 /\ \/ inputs' = inputs
                    \/ \E x \in Reading \union Rejection :
                          /\ inputs' = Append(inputs, x)
                          /\ Len(inputs') = Len(inputs) + 1
                          /\ inputs'[Len(inputs')] = x
              \/ /\ AnomalyRestart /\ begun' = Len(inputs')
                 /\ Len(inputs') = Len(inputs) + 1
                 /\ inputs'[Len(inputs')] = Restarted
<1>1. inputs \in Seq(Inputs) /\ Len(inputs) \in Nat
  BY AnomalyParts, NumbersOf DEF InputsOK
<1>2. ASSUME NEW x \in Inputs, Input(x)
      PROVE  /\ Len(inputs') \in Nat /\ Len(inputs) <= Len(inputs')
             /\ DOMAIN inputs' = 1 .. Len(inputs')
             /\ \A i \in 1 .. Len(inputs) : inputs'[i] = inputs[i]
             /\ inputs' = Append(inputs, x)
             /\ Len(inputs') = Len(inputs) + 1
             /\ inputs'[Len(inputs')] = x
  BY <1>1, <1>2 DEF Input
<1>3. CASE inputs' = inputs /\ begun' = begun
  BY <1>1, <1>3
<1>4. CASE AnomalyRestart
  <2>1. Input(Restarted) /\ Restarted \in Inputs /\ begun' = Len(inputs) + 1
    BY <1>4 DEF AnomalyRestart, Inputs
  <2> QED
    BY <1>2, <1>4, <2>1
<1>5. CASE \E x \in Reading \union Rejection : Input(x) /\ begun' = begun
  <2>1. PICK x \in Reading \union Rejection : Input(x) /\ begun' = begun
    BY <1>5
  <2>2. x \in Inputs
    BY <2>1 DEF Inputs
  <2> QED
    BY <1>2, <2>1, <2>2
<1>6. ASSUME NEW r \in Reading, ReadInactive(r) \/ ReadActive(r)
      PROVE  \E x \in Reading \union Rejection : Input(x) /\ begun' = begun
  BY <1>6 DEF ReadInactive, ReadActive
<1>7. ASSUME NEW b \in Buses, ReadRejection(b)
      PROVE  \E x \in Reading \union Rejection : Input(x) /\ begun' = begun
  <2>1. [bus |-> b, ts |-> clock, kind |-> "rejected"] \in Rejection
    BY AnomalyParts DEF Rejection
  <2> QED
    BY <1>7, <2>1 DEF ReadRejection
<1>8. ASSUME \/ Tick \/ CheckSilence \/ UNCHANGED anomalyVars
             \/ \E task \in Tasks : SendAlert(task) \/ SendFails(task)
      PROVE  inputs' = inputs /\ begun' = begun
  BY <1>8 DEF Tick, CheckSilence, anomalyVars, SendAlert, SendFails
<1> QED
  BY <1>3, <1>4, <1>5, <1>6, <1>7, <1>8 DEF AnomalyNext

\* The inputs of a bus stay what they are.
LEMMA OfGrows ==
    ASSUME AnomalyTypeOK, [AnomalyNext]_anomalyVars, NEW b, NEW K
    PROVE  /\ Of(b, K) \subseteq 1 .. Len(inputs)
           /\ Of(b, K) \subseteq Of(b, K)'
           /\ Of(b, K)' \subseteq 1 .. Len(inputs')
           /\ \A i \in Of(b, K)' : i \in 1 .. Len(inputs) => i \in Of(b, K)
<1>1. /\ DOMAIN inputs = 1 .. Len(inputs) /\ DOMAIN inputs' = 1 .. Len(inputs')
      /\ Len(inputs) \in Nat /\ Len(inputs') \in Nat
      /\ Len(inputs) <= Len(inputs')
      /\ \A i \in 1 .. Len(inputs) : inputs'[i] = inputs[i]
  BY NumbersOf, InputsGrow
<1> QED
  BY <1>1 DEF Of

\* Alerts are raised for what they say, with the number of inputs and the time.
LEMMA RaisedGrows ==
    ASSUME AnomalyTypeOK, [AnomalyNext]_anomalyVars
    PROVE  /\ raised \subseteq raised' /\ clock <= clock' /\ clock' \in Int
           /\ \A x \in raised' \ raised :
                 /\ x \in Alert
                 /\ x.at = Len(inputs') /\ x.clock = clock /\ clock' = clock
                 /\ x.type = "PERSISTENT_OFF_ROUTE" =>
                       \E r \in Reading :
                          /\ ReadActive(r) /\ x.bus = r.bus /\ r.kind = "off"
                          /\ Persists(StreakAfter(r.bus, r.ts))
                 /\ x.type = "TRIP_NOT_STARTED_DEVICE_ACTIVE" =>
                       /\ ReadRejection(x.bus)
                       /\ Cardinality(RecentRejections(x.bus)) >= DlqCount
                       /\ ~InCooldown(x.bus)
                 /\ x.type = "COMMUNICATION_LOSS" =>
                       CheckSilence /\ Silent(x.bus)
<1>0. /\ clock \in Nat /\ Len(inputs) \in Nat
      /\ InputsOK
  BY NumbersOf, AnomalyParts
<1>1. CASE Tick
  BY <1>0, <1>1 DEF Tick
<1>2. ASSUME NEW x, NEW type, NEW b, RaisedNow(x, type, b)
      PROVE  /\ x.type = type /\ x.bus = b /\ x.at = Len(inputs) + 1
             /\ x.clock = clock
  BY <1>2 DEF RaisedNow
<1>3. ASSUME NEW r \in Reading, ReadInactive(r)
      PROVE  /\ raised \subseteq raised' /\ raised' \subseteq Alert
             /\ clock' = clock /\ Len(inputs') = Len(inputs) + 1
             /\ \A x \in raised' \ raised :
                   /\ x.at = Len(inputs) + 1 /\ x.clock = clock
                   /\ x.type \in {"UNREALISTIC_SPEED", "INACTIVE_GPS"}
  <2>1. Len(inputs') = Len(inputs) + 1 /\ clock' = clock
    BY <1>3, InputIs DEF ReadInactive, Inputs
  <2> QED
    BY <1>2, <1>3, <2>1, InactiveRaises
<1>4. ASSUME NEW r \in Reading, ReadActive(r)
      PROVE  /\ raised \subseteq raised' /\ raised' \subseteq Alert
             /\ clock' = clock /\ Len(inputs') = Len(inputs) + 1
             /\ \A x \in raised' \ raised :
                   /\ x.at = Len(inputs) + 1 /\ x.clock = clock
                   /\ \/ /\ x.type = "PERSISTENT_OFF_ROUTE"
                         /\ x.bus = r.bus /\ r.kind = "off"
                         /\ Persists(StreakAfter(r.bus, r.ts))
                      \/ x.type \in {"UNREALISTIC_SPEED", "OFF_ROUTE",
                                     "STATIONARY", "ERRATIC_DRIVING"}
  <2>1. Len(inputs') = Len(inputs) + 1 /\ clock' = clock
    BY <1>4, InputIs DEF ReadActive, Inputs
  <2> QED
    BY <1>2, <1>4, <2>1, ActiveRaises
<1>5. ASSUME NEW b \in Buses, ReadRejection(b)
      PROVE  /\ raised \subseteq raised' /\ raised' \subseteq Alert
             /\ clock' = clock /\ Len(inputs') = Len(inputs) + 1
             /\ \A x \in raised' \ raised :
                   /\ x.at = Len(inputs) + 1 /\ x.clock = clock
                   /\ x.type = "TRIP_NOT_STARTED_DEVICE_ACTIVE"
                   /\ x.bus = b
                   /\ Cardinality(RecentRejections(b)) >= DlqCount
                   /\ ~InCooldown(b)
  <2>1. PICK y : y = [bus |-> b, ts |-> clock, kind |-> "rejected"]
    OBVIOUS
  <2>2. y \in Inputs /\ Input(y) /\ clock' = clock
    BY <1>5, <2>1, AnomalyParts DEF ReadRejection, Inputs, Rejection
  <2>3. Len(inputs') = Len(inputs) + 1
    BY <2>2, InputIs
  <2> QED
    BY <1>2, <1>5, <2>2, <2>3, RejectionRaises
<1>6. CASE CheckSilence
  <2>1. inputs' = inputs /\ clock' = clock
    BY <1>6 DEF CheckSilence
  <2> QED
    BY <1>0, <1>6, <2>1, SilenceRaises
<1>7. CASE \/ \E task \in Tasks : SendAlert(task) \/ SendFails(task)
           \/ AnomalyRestart \/ UNCHANGED anomalyVars
  BY <1>0, <1>7 DEF SendAlert, SendFails, AnomalyRestart, anomalyVars
<1>8. CASE \E r \in Reading : ReadInactive(r)
  BY <1>0, <1>3, <1>8
<1>9. CASE \E r \in Reading : ReadActive(r)
  BY <1>0, <1>4, <1>9
<1>10. CASE \E b \in Buses : ReadRejection(b)
  BY <1>0, <1>5, <1>10
<1> QED
  BY <1>1, <1>6, <1>7, <1>8, <1>9, <1>10 DEF AnomalyNext

\* What came in since the process was started survives every step.
LEMMA HeardStep ==
    AnomalyTypeOK /\ Heard /\ [AnomalyNext]_anomalyVars => Heard'
<1> SUFFICES ASSUME AnomalyTypeOK, Heard, [AnomalyNext]_anomalyVars
             PROVE  Heard'
  OBVIOUS
<1>1. PICK n \in Nat : n = Len(inputs)
  BY NumbersOf
<1>2. PICK m \in Nat : m = Len(inputs')
  BY InputsGrow
<1>3. n <= m /\ \A i \in 1 .. n : inputs'[i] = inputs[i]
  BY <1>1, <1>2, InputsGrow
<1>4. \A a \in raised' : a.at <= m /\ a.clock <= clock'
  <2> SUFFICES ASSUME NEW a \in raised'
               PROVE  a.at <= m /\ a.clock <= clock'
    OBVIOUS
  <2>1. CASE a \in raised
    <3>1. a.at <= n /\ a.clock <= clock
      BY <1>1, <2>1 DEF Heard
    <3>2. a.at \in Nat /\ a.clock \in Nat /\ clock \in Nat
      BY <2>1, NumbersOf
    <3>3. clock <= clock' /\ clock' \in Int
      BY RaisedGrows
    <3> QED
      BY <1>3, <3>1, <3>2, <3>3
  <2>2. CASE a \notin raised
    <3>1. a.at = m /\ a.clock = clock /\ clock' = clock
      BY <1>2, <2>2, RaisedGrows
    <3> QED
      BY <3>1, NumbersOf
  <2> QED
    BY <2>1, <2>2
<1>5. PICK k \in Nat : k = begun /\ k <= n
  BY <1>1, NumbersOf
<1>6. CASE begun' = begun /\ \A i \in (n + 1) .. m : inputs'[i].kind # "restart"
  <2>1. k # 0 => inputs'[k].kind = "restart"
    <3>1. k # 0 => k \in 1 .. n
      BY <1>5
    <3> QED
      BY <1>3, <1>5, <3>1 DEF Heard
  <2>2. ASSUME NEW i \in (k + 1) .. m
        PROVE  inputs'[i].kind # "restart"
    <3>1. i \in (n + 1) .. m \/ (i \in 1 .. n /\ i \in (k + 1) .. n)
      BY <1>5
    <3> QED
      BY <1>1, <1>3, <1>5, <1>6, <3>1 DEF Heard
  <2> QED
    BY <1>2, <1>4, <1>5, <1>6, <2>1, <2>2 DEF Heard
<1>7. CASE begun' = m /\ inputs'[m].kind = "restart"
  <2>1. (m + 1) .. m = {}
    OBVIOUS
  <2> QED
    BY <1>2, <1>4, <1>7, <2>1 DEF Heard
<1>8. CASE begun' = begun /\ inputs' = inputs
  <2>1. (n + 1) .. m = {}
    BY <1>1, <1>2, <1>8
  <2> QED
    BY <1>6, <1>8, <2>1
<1>9. CASE \E x \in Reading \union Rejection :
              begun' = begun /\ m = n + 1 /\ inputs'[m] = x
  <2>1. \A x \in Reading \union Rejection : x.kind # "restart"
    BY DEF Reading, Rejection
  <2>2. \A i \in (n + 1) .. m : i = m
    BY <1>9
  <2> QED
    BY <1>6, <1>9, <2>1, <2>2
<1>10. CASE begun' = m /\ inputs'[m] = Restarted
  BY <1>7, <1>10 DEF Restarted
<1> QED
  BY <1>1, <1>2, <1>8, <1>9, <1>10, InputsGrow

-----------------------------------------------------------------------------
(* AnomalyService: silences.                                                *)

LEMMA AlertIs ==
    ASSUME NEW a \in Alert, NEW o \in Alert,
           a.type = o.type, a.bus = o.bus, a.at = o.at, a.clock = o.clock
    PROVE  a = o
  BY DEF Alert

\* One process has read all that has come in after input i.
LEMMA BegunBefore ==
    ASSUME AnomalyTypeOK, Heard, NEW i \in Nat, SameProcess(i, Len(inputs))
    PROVE  begun <= i
<1>1. PICK k \in Nat : k = begun /\ k <= Len(inputs)
  BY NumbersOf
<1>2. CASE k > i
  <2>1. k # 0 /\ k \in (i + 1) .. Len(inputs)
    BY <1>1, <1>2, NumbersOf
  <2> QED
    BY <1>1, <2>1 DEF Heard, SameProcess
<1> QED
  BY <1>1, <1>2

LEMMA ProcessBefore ==
    ASSUME AnomalyTypeOK, [AnomalyNext]_anomalyVars, NEW i \in Nat,
           NEW j \in Nat, j <= Len(inputs), SameProcess(i, j)'
    PROVE  SameProcess(i, j)
<1>1. \A k \in (i + 1) .. j : k \in 1 .. Len(inputs)
  BY NumbersOf
<1> QED
  BY <1>1, InputsGrow DEF SameProcess

\* A silence that has been noted stays so until the bus is heard of.
LEMMA NotedUntilHeard ==
    ASSUME AnomalyTypeOK, [AnomalyNext]_anomalyVars, ~AnomalyRestart,
           NEW b \in Buses, known[b].seen, known[b].lost
    PROVE  \/ known'[b] = known[b]
           \/ /\ Len(inputs') = Len(inputs) + 1
              /\ Len(inputs') \in Of(b, {"on", "off"})'
<1>1. CASE \/ Tick \/ \E r \in Reading : ReadInactive(r)
           \/ \E c \in Buses : ReadRejection(c)
           \/ \E task \in Tasks : SendAlert(task) \/ SendFails(task)
           \/ UNCHANGED anomalyVars
  BY <1>1 DEF Tick, ReadInactive, ReadRejection, SendAlert, SendFails, memory,
              anomalyVars
<1>2. CASE CheckSilence
  <2>1. ~Silent(b)
    BY DEF Silent
  <2> QED
    BY <1>2, <2>1 DEF CheckSilence
<1>3. ASSUME NEW r \in Reading, ReadActive(r)
      PROVE  \/ known'[b] = known[b]
             \/ /\ Len(inputs') = Len(inputs) + 1
                /\ Len(inputs') \in Of(b, {"on", "off"})'
  <2>1. CASE r.bus = b
    <3>1. r.kind \in {"on", "off"} /\ Input(r) /\ r \in Inputs
      BY <1>3, ReadingIs DEF ReadActive, Inputs
    <3>2. /\ Len(inputs') = Len(inputs) + 1
          /\ inputs'[Len(inputs')] = r
      BY <3>1, InputIs
    <3>3. Len(inputs') \in DOMAIN inputs'
      BY <3>2, InputsGrow, NumbersOf
    <3> QED
      BY <2>1, <3>1, <3>2, <3>3 DEF Of
  <2>2. CASE r.bus # b
    BY <1>3, <2>2, AnomalyParts DEF ReadActive, KnownOK
  <2> QED
    BY <2>1, <2>2
<1> QED
  BY <1>1, <1>2, <1>3 DEF AnomalyNext

LEMMA SilencesStep ==
    AnomalyTypeOK /\ Heard /\ SilencesKept /\ [AnomalyNext]_anomalyVars
      => SilencesKept'
<1> SUFFICES ASSUME AnomalyTypeOK, Heard, SilencesKept,
                    [AnomalyNext]_anomalyVars, NEW o \in raised',
                    o.type = "COMMUNICATION_LOSS", o.at >= begun'
             PROVE  \/ known'[o.bus].seen /\ known'[o.bus].lost
                    \/ Of(o.bus, {"on", "off"})'
                          \intersect ((o.at + 1) .. Len(inputs')) # {}
  BY DEF SilencesKept
<1>1. PICK n \in Nat : n = Len(inputs)
  BY NumbersOf
<1>2. PICK m \in Nat : m = Len(inputs') /\ n <= m
  BY <1>1, InputsGrow
<1>3. CASE o \notin raised
  <2>1. CheckSilence /\ Silent(o.bus) /\ o.bus \in Buses
    BY <1>3, RaisedGrows DEF Alert
  <2>2. known[o.bus] \in Known
    BY <2>1, AnomalyParts DEF Silent, KnownOK, NoBus
  <2>3. known'[o.bus] = [known[o.bus] EXCEPT !.lost = TRUE]
    BY <2>1 DEF CheckSilence
  <2> QED
    BY <2>2, <2>3 DEF Known
<1>4. CASE o \in raised
  <2>1. o.at \in Nat /\ o.at <= n /\ o.bus \in Buses
    BY <1>1, <1>4, NumbersOf DEF Heard, Alert
  <2>2. ~AnomalyRestart /\ begun' = begun
    <3>1. ~(begun' = m /\ m = n + 1)
      BY <2>1
    <3> QED
      BY <1>1, <1>2, <3>1, InputsGrow, InputIs DEF AnomalyRestart, Inputs
  <2>3. CASE Of(o.bus, {"on", "off"}) \intersect ((o.at + 1) .. n) # {}
    <3>1. PICK i \in Of(o.bus, {"on", "off"}) : i \in (o.at + 1) .. n
      BY <2>3
    <3>2. i \in (o.at + 1) .. m /\ i \in Of(o.bus, {"on", "off"})'
      BY <1>2, <2>1, <3>1, OfGrows
    <3> QED
      BY <1>2, <3>2
  <2>4. CASE known[o.bus].seen /\ known[o.bus].lost
    <3>1. CASE known'[o.bus] = known[o.bus]
      BY <2>4, <3>1
    <3>2. CASE m = n + 1 /\ m \in Of(o.bus, {"on", "off"})'
      <4>1. m \in (o.at + 1) .. m
        BY <2>1, <3>2
      <4> QED
        BY <1>2, <3>2, <4>1
    <3> QED
      BY <1>1, <1>2, <2>1, <2>2, <2>4, <3>1, <3>2, NotedUntilHeard
  <2> QED
    BY <1>1, <1>4, <2>2, <2>3, <2>4 DEF SilencesKept
<1> QED
  BY <1>3, <1>4

LEMMA OneAlertStep ==
    AnomalyTypeOK /\ Heard /\ SilencesKept /\ OneAlertPerSilence
      /\ [AnomalyNext]_anomalyVars => OneAlertPerSilence'
<1> SUFFICES ASSUME AnomalyTypeOK, Heard, SilencesKept, OneAlertPerSilence,
                    [AnomalyNext]_anomalyVars,
                    NEW a \in raised', NEW o \in raised',
                    a.type = "COMMUNICATION_LOSS",
                    o.type = "COMMUNICATION_LOSS",
                    a.bus = o.bus, a # o, o.clock <= a.clock, o.at <= a.at,
                    SameProcess(o.at, a.at)'
             PROVE  Of(a.bus, {"on", "off"})'
                       \intersect ((o.at + 1) .. a.at) # {}
  BY DEF OneAlertPerSilence
<1>1. PICK n \in Nat : n = Len(inputs)
  BY NumbersOf
<1>2. PICK m \in Nat : m = Len(inputs') /\ n <= m
  BY <1>1, InputsGrow
<1>3. \A x \in raised' : x \in Alert /\ x.at \in Nat /\ x.clock \in Nat
  BY NumbersOf, RaisedGrows
<1>4. \A x \in raised : x.at <= n /\ x.clock <= clock
  BY <1>1 DEF Heard
<1>5. \A x \in raised' \ raised : x.at = m /\ x.clock = clock
  BY <1>2, RaisedGrows
<1>6. ASSUME Of(a.bus, {"on", "off"}) \intersect ((o.at + 1) .. a.at) # {}
      PROVE  Of(a.bus, {"on", "off"})' \intersect ((o.at + 1) .. a.at) # {}
  BY <1>6, OfGrows
<1>7. CASE a \in raised /\ o \in raised
  <2>1. SameProcess(o.at, a.at)
    BY <1>1, <1>3, <1>4, <1>7, ProcessBefore
  <2> QED
    BY <1>6, <1>7, <2>1 DEF OneAlertPerSilence
<1>8. CASE a \notin raised /\ o \in raised
  <2>1. CheckSilence /\ Silent(a.bus)
    BY <1>8, RaisedGrows
  <2>2. inputs' = inputs /\ a.at = n
    BY <1>1, <1>2, <1>5, <1>8, <2>1 DEF CheckSilence
  <2>3. SameProcess(o.at, n)
    BY <2>2 DEF SameProcess
  <2>4. begun <= o.at
    BY <1>1, <1>3, <2>3, BegunBefore
  <2>5. o.at >= begun
    BY <1>3, <2>4, NumbersOf
  <2>6. ~known[o.bus].lost
    BY <2>1 DEF Silent
  <2>7. Of(o.bus, {"on", "off"}) \intersect ((o.at + 1) .. n) # {}
    BY <1>1, <1>8, <2>5, <2>6 DEF SilencesKept
  <2> QED
    BY <1>6, <2>2, <2>7
\* Nobody is reported twice in one check, or before an alert of the past.
<1>9. CASE o \notin raised
  <2>1. o.at = m /\ o.clock = clock
    BY <1>5, <1>9
  <2>2. a.at <= m /\ a.clock <= clock
    <3>1. clock \in Nat
      BY NumbersOf
    <3> QED
      BY <1>2, <1>3, <1>4, <1>5, <3>1
  <2>3. a.at = o.at /\ a.clock = o.clock
    <3>1. a.at \in Nat /\ a.clock \in Nat /\ o.at \in Nat /\ o.clock \in Nat
      BY <1>3
    <3> QED
      BY <2>1, <2>2, <3>1
  <2> QED
    BY <1>3, <2>3, AlertIs
<1> QED
  BY <1>7, <1>8, <1>9

\* What the periodic check has still to publish has been raised.
LEMMA LossesStep ==
    AnomalyTypeOK /\ LossesRaised /\ [AnomalyNext]_anomalyVars
      => LossesRaised'
<1> SUFFICES ASSUME AnomalyTypeOK, LossesRaised, [AnomalyNext]_anomalyVars,
                    "COMMUNICATION_LOSS" \in Watched,
                    NEW i \in DOMAIN todo'["loss"]
             PROVE  todo'["loss"][i] \in raised'
  BY DEF LossesRaised
<1>1. raised \subseteq raised'
  BY RaisedGrows
<1>2. "loss" \in Tasks /\ todo \in [Tasks -> Seq(Alert)]
  BY AnomalyParts DEF TodoOK, Tasks
<1>3. CASE todo'["loss"] = todo["loss"]
  BY <1>1, <1>3 DEF LossesRaised
<1>4. CASE todo'["loss"] = <<>>
  <2>1. DOMAIN <<>> = {}
    OBVIOUS
  <2> QED
    BY <1>4, <2>1
<1>5. CASE CheckSilence
  BY <1>5, SilenceRaises
<1>6. ASSUME NEW task \in Tasks, SendAlert(task)
      PROVE  todo'["loss"][i] \in raised'
  <2>1. /\ todo[task] # <<>> /\ raised' = raised
        /\ todo' = [todo EXCEPT ![task] = Tail(todo[task])]
    BY <1>6 DEF SendAlert
  <2>2. CASE task # "loss"
    BY <1>2, <1>3, <2>1, <2>2
  <2>3. CASE task = "loss"
    <3>1. PICK s \in Seq(Alert) : s = todo["loss"] /\ s # <<>>
      BY <1>2, <2>1, <2>3
    <3>2. todo'["loss"] = Tail(s)
      BY <1>2, <2>1, <2>3, <3>1
    <3>3. i + 1 \in DOMAIN s /\ Tail(s)[i] = s[i + 1]
      BY <3>1, <3>2
    <3> QED
      BY <2>1, <3>1, <3>2, <3>3 DEF LossesRaised
  <2> QED
    BY <2>2, <2>3
<1>7. ASSUME NEW task \in Tasks, SendFails(task)
      PROVE  todo'["loss"] = todo["loss"] \/ todo'["loss"] = <<>>
  BY <1>2, <1>7 DEF SendFails
<1>8. CASE AnomalyRestart
  BY <1>2, <1>4, <1>8 DEF AnomalyRestart, Forgotten
<1>9. ASSUME \/ Tick \/ \E r \in Reading : ReadInactive(r) \/ ReadActive(r)
             \/ \E b \in Buses : ReadRejection(b)
             \/ UNCHANGED anomalyVars
      PROVE  todo'["loss"] = todo["loss"]
  BY <1>9, InactiveRaises, ActiveRaises, RejectionRaises
     DEF Tick, anomalyVars
<1> QED
  BY <1>3, <1>4, <1>5, <1>6, <1>7, <1>8, <1>9 DEF AnomalyNext

LEMMA NotedStep ==
    ASSUME "COMMUNICATION_LOSS" \in Watched, AnomalyTypeOK, LossesRaised,
           NotedIsAnnounced, [AnomalyNext]_anomalyVars
    PROVE  NotedIsAnnounced'
<1> DEFINE Owed == {todo["loss"][i] : i \in DOMAIN todo["loss"]}
           Tells(a, b) == /\ a.type = "COMMUNICATION_LOSS" /\ a.bus = b
                          /\ \A i \in Of(b, {"on", "off"}) : i <= a.at
<1> SUFFICES ASSUME NEW b \in Buses, known'[b].seen, known'[b].lost, lossTask'
             PROVE  \E a \in alerts' \union Owed' :
                       /\ a.type = "COMMUNICATION_LOSS" /\ a.bus = b
                       /\ \A i \in Of(b, {"on", "off"})' : i <= a.at
  BY DEF NotedIsAnnounced
<1>1. "loss" \in Tasks /\ todo \in [Tasks -> Seq(Alert)]
  BY AnomalyParts DEF TodoOK, Tasks
<1>2. ~AnomalyRestart
  BY DEF AnomalyRestart, Forgotten, NoBus
<1>3. PICK n \in Nat : n = Len(inputs)
  BY NumbersOf
<1>4. CASE CheckSilence /\ Silent(b)
  <2>1. PICK i \in DOMAIN todo'["loss"] :
          /\ todo'["loss"][i].type = "COMMUNICATION_LOSS"
          /\ todo'["loss"][i].bus = b
          /\ todo'["loss"][i].at = n
    BY <1>3, <1>4, SilenceRaises
  <2>2. \A j \in Of(b, {"on", "off"})' : j <= n
    BY <1>3, <1>4, OfGrows DEF CheckSilence
  <2> QED
    BY <2>1, <2>2
\* The silence was noted before, and the bus is still not heard of.
<1>5. CASE /\ known[b].seen /\ known[b].lost
           /\ \A i \in Of(b, {"on", "off"})' : i \in Of(b, {"on", "off"})
           /\ lossTask
  <2>1. PICK a \in alerts \union Owed : Tells(a, b)
    BY <1>5 DEF NotedIsAnnounced
  <2>2. \A i \in Of(b, {"on", "off"})' : i <= a.at
    BY <1>5, <2>1
  <2>3. SUFFICES a \in alerts' \union Owed'
    BY <2>1, <2>2
  <2>4. CASE alerts' = alerts /\ todo'["loss"] = todo["loss"]
    BY <2>1, <2>4
  <2>5. CASE alerts' = alerts /\ todo["loss"] = <<>>
    <3>1. DOMAIN <<>> = {}
      OBVIOUS
    <3> QED
      BY <2>1, <2>5, <3>1
  <2>6. ASSUME NEW task \in Tasks, SendAlert(task)
        PROVE  a \in alerts' \union Owed'
    <3>1. /\ todo[task] # <<>>
          /\ alerts' = alerts \union ({Head(todo[task])} \intersect raised)
          /\ todo' = [todo EXCEPT ![task] = Tail(todo[task])]
      BY <2>6 DEF SendAlert
    <3>2. CASE task # "loss"
      BY <1>1, <2>1, <3>1, <3>2
    <3>3. CASE task = "loss"
      <4>1. PICK s \in Seq(Alert) : s = todo["loss"] /\ s # <<>>
        BY <1>1, <3>1, <3>3
      <4>2. todo'["loss"] = Tail(s) /\ Head(s) \in raised => Head(s) \in alerts'
        BY <1>1, <3>1, <3>3, <4>1
      <4>3. CASE a \in alerts
        BY <3>1, <4>3
      <4>4. CASE a \in Owed
        <5>1. PICK i \in DOMAIN s : a = s[i]
          BY <4>1, <4>4
        <5>2. CASE i = 1
          <6>1. a = Head(s)
            BY <4>1, <5>1, <5>2
          <6>2. a \in raised
            BY <4>1, <5>1 DEF LossesRaised
          <6> QED
            BY <3>1, <3>3, <4>1, <6>1, <6>2
        <5>3. CASE i # 1
          <6>1. i - 1 \in DOMAIN Tail(s) /\ Tail(s)[i - 1] = s[i]
            BY <4>1, <5>1, <5>3
          <6>2. todo'["loss"] = Tail(s)
            BY <1>1, <3>1, <3>3, <4>1
          <6> QED
            BY <5>1, <6>1, <6>2
        <5> QED
          BY <5>2, <5>3
      <4> QED
        BY <2>1, <4>3, <4>4
    <3> QED
      BY <3>2, <3>3
  <2>7. ASSUME NEW task \in Tasks, SendFails(task)
        PROVE  alerts' = alerts /\ todo'["loss"] = todo["loss"]
    BY <1>1, <2>7 DEF SendFails
  <2>8. CASE CheckSilence
    BY <2>5, <2>8 DEF CheckSilence
  <2>9. ASSUME NEW r \in Reading, ReadInactive(r) \/ ReadActive(r)
        PROVE  alerts' = alerts /\ todo'["loss"] = todo["loss"]
    BY <2>9, InactiveRaises, ActiveRaises DEF ReadInactive, ReadActive
  <2>10. ASSUME NEW c \in Buses, ReadRejection(c)
         PROVE  alerts' = alerts /\ todo'["loss"] = todo["loss"]
    BY <2>10, RejectionRaises DEF ReadRejection
  <2>11. ASSUME Tick \/ UNCHANGED anomalyVars
         PROVE  alerts' = alerts /\ todo'["loss"] = todo["loss"]
    BY <2>11 DEF Tick, anomalyVars
  <2> QED
    BY <1>2, <2>4, <2>6, <2>7, <2>8, <2>9, <2>10, <2>11 DEF AnomalyNext
\* Every step keeps to one of the two.
<1>6. ASSUME inputs' = inputs
      PROVE  Of(b, {"on", "off"})' = Of(b, {"on", "off"})
  BY <1>6 DEF Of
<1>7. ASSUME NEW x, inputs' = Append(inputs, x), Len(inputs') = n + 1,
             inputs'[Len(inputs')] = x,
             x.kind \notin {"on", "off"} \/ x.bus # b
      PROVE  \A i \in Of(b, {"on", "off"})' : i \in Of(b, {"on", "off"})
  <2> SUFFICES ASSUME NEW i \in Of(b, {"on", "off"})'
               PROVE  i \in Of(b, {"on", "off"})
    OBVIOUS
  <2>1. i \in 1 .. (n + 1)
    BY <1>7, OfGrows
  <2>2. i # n + 1
    BY <1>7 DEF Of
  <2>3. i \in 1 .. n
    BY <2>1, <2>2
  <2> QED
    BY <1>3, <2>3, OfGrows
<1>8. CASE \/ Tick \/ UNCHANGED anomalyVars
           \/ \E task \in Tasks : SendAlert(task) \/ SendFails(task)
  <2>1. known' = known /\ inputs' = inputs /\ (lossTask' => lossTask)
    BY <1>8 DEF Tick, anomalyVars, memory, SendAlert, SendFails
  <2> QED
    BY <1>5, <1>6, <2>1
<1>9. CASE CheckSilence /\ ~Silent(b)
  <2>1. known'[b] = known[b] /\ inputs' = inputs /\ lossTask' = lossTask
    BY <1>9 DEF CheckSilence
  <2> QED
    BY <1>5, <1>6, <2>1
<1>10. ASSUME NEW r \in Reading, ReadInactive(r)
       PROVE  known' = known /\ lossTask' = lossTask /\ Input(r)
              /\ r.kind \notin {"on", "off"} /\ r \in Inputs
  BY <1>10 DEF ReadInactive, memory, Inputs
<1>11. ASSUME NEW c \in Buses, ReadRejection(c)
       PROVE  \E x \in Inputs : Input(x) /\ x.kind \notin {"on", "off"}
                                /\ known' = known /\ lossTask' = lossTask
  <2>1. PICK x : x = [bus |-> c, ts |-> clock, kind |-> "rejected"]
    OBVIOUS
  <2>2. x \in Inputs /\ x.kind = "rejected"
    BY <2>1, AnomalyParts DEF Inputs, Rejection
  <2> QED
    BY <1>11, <2>1, <2>2 DEF ReadRejection
<1>12. ASSUME NEW r \in Reading, ReadActive(r)
       PROVE  /\ known'[b] = known[b] /\ lossTask' = lossTask /\ Input(r)
              /\ r.bus # b /\ r \in Inputs
  <2>1. r.bus # b
    <3>1. SUFFICES ASSUME r.bus = b PROVE FALSE
      OBVIOUS
    <3>2. known' = [known EXCEPT ![b] =
                       [seen |-> TRUE, last |-> r.ts, lost |-> FALSE,
                        still |-> r.extra = "stationary"]]
      BY <1>12, <3>1 DEF ReadActive
    <3>3. ~known'[b].lost
      BY <3>2, AnomalyParts DEF KnownOK
    <3> QED
      BY <3>3
  <2> QED
    BY <1>12, <2>1, AnomalyParts DEF ReadActive, KnownOK, Inputs
<1>13. ASSUME NEW x \in Inputs, Input(x),
              x.kind \notin {"on", "off"} \/ x.bus # b,
              known'[b] = known[b], lossTask' = lossTask
       PROVE  \E a \in alerts' \union Owed' :
                 /\ a.type = "COMMUNICATION_LOSS" /\ a.bus = b
                 /\ \A i \in Of(b, {"on", "off"})' : i <= a.at
  <2>1. /\ inputs' = Append(inputs, x) /\ Len(inputs') = n + 1
        /\ inputs'[Len(inputs')] = x
    BY <1>3, <1>13, InputIs
  <2>2. \A i \in Of(b, {"on", "off"})' : i \in Of(b, {"on", "off"})
    BY <1>7, <1>13, <2>1
  <2> QED
    BY <1>5, <1>13, <2>2
<1>14. CASE \E r \in Reading : ReadInactive(r)
  BY <1>10, <1>13, <1>14
<1>15. CASE \E r \in Reading : ReadActive(r)
  BY <1>12, <1>13, <1>15
<1>16. CASE \E c \in Buses : ReadRejection(c)
  BY <1>11, <1>13, <1>16
<1> QED
  BY <1>2, <1>4, <1>8, <1>9, <1>14, <1>15, <1>16 DEF AnomalyNext

-----------------------------------------------------------------------------
(* AnomalyService: devices without a trip.                                  *)

\* The memory of the rejections of a bus with one more of them.
LEMMA RejectionIs ==
    ASSUME AnomalyTypeOK, NEW b \in Buses, ReadRejection(b)
    PROVE  /\ Len(inputs') = Len(inputs) + 1 /\ Len(inputs) \in Nat
           /\ clock \in Nat /\ clock' = clock /\ begun' = begun
           /\ Len(inputs') \in Of(b, {"rejected"})'
           /\ inputs'[Len(inputs')].ts = clock
           /\ rejected'[b].times = RecentRejections(b)
           /\ IF Cardinality(RecentRejections(b)) >= DlqCount /\ ~InCooldown(b)
              THEN rejected'[b].lastAlert = clock
              ELSE rejected'[b].lastAlert = rejected[b].lastAlert
           /\ \A c \in Buses \ {b} : rejected'[c] = rejected[c]
<1>1. PICK x : x = [bus |-> b, ts |-> clock, kind |-> "rejected"]
  OBVIOUS
<1>2. x \in Inputs /\ Input(x) /\ clock' = clock /\ begun' = begun
  BY <1>1, AnomalyParts DEF ReadRejection, Inputs, Rejection
<1>3. /\ Len(inputs') = Len(inputs) + 1 /\ inputs'[Len(inputs) + 1] = x
      /\ inputs' \in Seq(Inputs)
  BY <1>2, InputIs
<1>4. Len(inputs) \in Nat /\ clock \in Nat
  BY NumbersOf
<1>5. Len(inputs') \in DOMAIN inputs'
  BY <1>3, <1>4
<1>6. Len(inputs') \in Of(b, {"rejected"})' /\ inputs'[Len(inputs')].ts = clock
  BY <1>1, <1>3, <1>5 DEF Of
<1>7. rejected \in [Buses -> Refusals]
  BY AnomalyParts DEF RefusalsOK
<1>8. PICK l : l = IF /\ Cardinality(RecentRejections(b)) >= DlqCount
                      /\ ~InCooldown(b)
                   THEN clock ELSE rejected[b].lastAlert
  OBVIOUS
<1>9. rejected' = [rejected EXCEPT ![b] =
                      [times |-> RecentRejections(b), lastAlert |-> l]]
  BY <1>8 DEF ReadRejection
<1>10. /\ rejected'[b] = [times |-> RecentRejections(b), lastAlert |-> l]
       /\ \A c \in Buses \ {b} : rejected'[c] = rejected[c]
  BY <1>7, <1>9
<1> QED
  BY <1>2, <1>3, <1>4, <1>6, <1>8, <1>10

LEMMA RejectionsStep ==
    AnomalyTypeOK /\ Heard /\ RejectionsKept /\ [AnomalyNext]_anomalyVars
      => RejectionsKept'
<1> SUFFICES ASSUME AnomalyTypeOK, Heard, RejectionsKept,
                    [AnomalyNext]_anomalyVars, NEW b \in Buses
             PROVE
        /\ \A r \in rejected'[b].times :
              r.at \in Of(b, {"rejected"})' /\ inputs'[r.at].ts = r.ts
        /\ \A o \in raised' :
              (/\ o.type = "TRIP_NOT_STARTED_DEVICE_ACTIVE"
               /\ o.bus = b /\ o.at >= begun')
                 => /\ rejected'[b].lastAlert # Never
                    /\ o.clock <= rejected'[b].lastAlert
  BY DEF RejectionsKept
<1>1. ASSUME NEW r \in rejected[b].times
      PROVE  r.at \in Of(b, {"rejected"})' /\ inputs'[r.at].ts = r.ts
  BY InputsGrow, OfGrows DEF RejectionsKept
<1>2. \A o \in raised : o.at <= Len(inputs) /\ o.clock <= clock /\ o \in Alert
  BY NumbersOf DEF Heard
<1>3. CASE AnomalyRestart
  <2>1. rejected'[b].times = {}
    BY <1>3 DEF AnomalyRestart, Forgotten
  <2>2. raised' = raised /\ begun' = Len(inputs) + 1
    BY <1>3 DEF AnomalyRestart
  <2>3. ASSUME NEW o \in raised'
        PROVE  ~(o.at >= begun')
    <3>1. o.at \in Nat /\ o.at <= Len(inputs) /\ Len(inputs) \in Nat
      BY <1>2, <2>2, NumbersOf
    <3> QED
      BY <2>2, <3>1
  <2> QED
    BY <2>1, <2>3
<1>4. CASE ReadRejection(b)
  <2>1. /\ Len(inputs') = Len(inputs) + 1 /\ Len(inputs) \in Nat
        /\ clock \in Nat /\ begun' = begun
        /\ Len(inputs') \in Of(b, {"rejected"})'
        /\ inputs'[Len(inputs')].ts = clock
        /\ rejected'[b].times = RecentRejections(b)
        /\ IF Cardinality(RecentRejections(b)) >= DlqCount /\ ~InCooldown(b)
           THEN rejected'[b].lastAlert = clock
           ELSE rejected'[b].lastAlert = rejected[b].lastAlert
    BY <1>4, RejectionIs
  <2>2. ASSUME NEW r \in rejected'[b].times
        PROVE  r.at \in Of(b, {"rejected"})' /\ inputs'[r.at].ts = r.ts
    <3>1. \/ r \in rejected[b].times
          \/ r = [at |-> Len(inputs) + 1, ts |-> clock]
      BY <2>1 DEF RecentRejections
    <3> QED
      BY <1>1, <2>1, <3>1
  <2>3. ASSUME NEW o \in raised', o.type = "TRIP_NOT_STARTED_DEVICE_ACTIVE",
               o.bus = b, o.at >= begun'
        PROVE  /\ rejected'[b].lastAlert # Never
               /\ o.clock <= rejected'[b].lastAlert
    <3>1. o.clock <= clock /\ o.clock \in Nat
      <4>1. CASE o \in raised
        BY <1>2, <4>1, NumbersOf
      <4>2. CASE o \notin raised
        BY <2>1, <4>2, RaisedGrows
      <4> QED
        BY <4>1, <4>2
    <3>2. CASE rejected'[b].lastAlert = clock
      BY <2>1, <3>1, <3>2 DEF Never
    <3>3. CASE /\ rejected'[b].lastAlert = rejected[b].lastAlert
               /\ ~(/\ Cardinality(RecentRejections(b)) >= DlqCount
                    /\ ~InCooldown(b))
      <4>1. o \in raised
        BY <2>3, <3>3, RaisedGrows
      <4> QED
        BY <2>1, <2>3, <3>3, <4>1 DEF RejectionsKept
    <3> QED
      BY <2>1, <3>2, <3>3
  <2> QED
    BY <2>2, <2>3
<1>5. CASE rejected'[b] = rejected[b] /\ begun' = begun /\ ~ReadRejection(b)
  <2>1. ASSUME NEW o \in raised', o.type = "TRIP_NOT_STARTED_DEVICE_ACTIVE",
               o.bus = b
        PROVE  o \in raised
    BY <1>5, <2>1, RaisedGrows
  <2> QED
    BY <1>1, <1>5, <2>1 DEF RejectionsKept
<1>6. CASE \/ Tick \/ CheckSilence
           \/ \E r \in Reading : ReadInactive(r) \/ ReadActive(r)
           \/ \E task \in Tasks : SendAlert(task) \/ SendFails(task)
           \/ UNCHANGED anomalyVars
  <2>1. rejected' = rejected /\ begun' = begun
    BY <1>6 DEF Tick, CheckSilence, ReadInactive, ReadActive, SendAlert,
                SendFails, memory, anomalyVars
  <2> QED
    BY <1>4, <1>5, <2>1
<1>7. ASSUME NEW c \in Buses, ReadRejection(c), c # b
      PROVE  rejected'[b] = rejected[b] /\ begun' = begun
  BY <1>7, RejectionIs
<1> QED
  BY <1>3, <1>4, <1>5, <1>6, <1>7 DEF AnomalyNext

LEMMA DeviceActiveStep ==
    AnomalyTypeOK /\ Heard /\ RejectionsKept /\ DeviceActiveIsRare
      /\ [AnomalyNext]_anomalyVars => DeviceActiveIsRare'
<1> SUFFICES ASSUME AnomalyTypeOK, Heard, RejectionsKept, DeviceActiveIsRare,
                    [AnomalyNext]_anomalyVars,
                    NEW a \in raised', NEW o \in raised',
                    a.type = "TRIP_NOT_STARTED_DEVICE_ACTIVE",
                    o.type = "TRIP_NOT_STARTED_DEVICE_ACTIVE"
             PROVE
        /\ Cardinality({i \in Of(a.bus, {"rejected"})'
                              \intersect (1 .. a.at) :
                           inputs'[i].ts >= a.clock - DlqWindow}) >= DlqCount
        /\ (a.bus = o.bus /\ o.at < a.at /\ SameProcess(o.at, a.at)')
              => a.clock - o.clock >= DlqCooldown
  BY DEF DeviceActiveIsRare
<1>1. PICK n \in Nat : n = Len(inputs)
  BY NumbersOf
<1>2. PICK m \in Nat : m = Len(inputs') /\ n <= m
  BY <1>1, InputsGrow
<1>3. \A x \in raised' : x \in Alert /\ x.at \in Nat /\ x.clock \in Nat
  BY NumbersOf, RaisedGrows
<1>4. \A x \in raised : x.at <= n /\ x.clock <= clock
  BY <1>1 DEF Heard
<1>5. \A x \in raised' \ raised : x.at = m /\ x.clock = clock
  BY <1>2, RaisedGrows
<1>6. Cardinality({i \in Of(a.bus, {"rejected"})' \intersect (1 .. a.at) :
                      inputs'[i].ts >= a.clock - DlqWindow}) >= DlqCount
  <2>1. CASE a \in raised
    <3>1. Cardinality({i \in Of(a.bus, {"rejected"}) \intersect (1 .. a.at) :
                          inputs[i].ts >= a.clock - DlqWindow}) >= DlqCount
      BY <2>1 DEF DeviceActiveIsRare
    <3>2. \A i \in 1 .. a.at : i \in 1 .. n
      BY <1>3, <1>4, <2>1
    <3>3. {i \in Of(a.bus, {"rejected"})' \intersect (1 .. a.at) :
              inputs'[i].ts >= a.clock - DlqWindow}
          = {i \in Of(a.bus, {"rejected"}) \intersect (1 .. a.at) :
                inputs[i].ts >= a.clock - DlqWindow}
      BY <1>1, <3>2, InputsGrow, OfGrows
    <3> QED
      BY <3>1, <3>3
  <2>2. CASE a \notin raised
    <3>1. PICK b \in Buses : b = a.bus
      BY <1>3 DEF Alert
    <3>2. ReadRejection(b) /\ Cardinality(RecentRejections(b)) >= DlqCount
      BY <2>2, <3>1, RaisedGrows
    <3>3. a.at = m /\ a.clock = clock
      BY <1>5, <2>2
    <3>4. PICK S : S = RecentRejections(b)
      OBVIOUS
    <3>5. PICK T : T = {i \in Of(b, {"rejected"})' \intersect (1 .. m) :
                           inputs'[i].ts >= clock - DlqWindow}
      OBVIOUS
    <3>6. /\ m = n + 1 /\ clock \in Nat /\ m \in Of(b, {"rejected"})'
          /\ inputs'[m].ts = clock
          /\ S = rejected'[b].times
      BY <1>1, <1>2, <3>2, <3>4, RejectionIs
    <3>7. \A r \in S : /\ r.at \in Of(b, {"rejected"})' /\ r.at \in 1 .. m
                       /\ inputs'[r.at].ts = r.ts
      <4>1. RejectionsKept'
        BY RejectionsStep
      <4>2. \A i \in Of(b, {"rejected"})' : i \in 1 .. m
        BY <1>2, OfGrows
      <4> QED
        BY <3>6, <4>1, <4>2 DEF RejectionsKept
    <3>8. \A r \in S : r.ts >= clock - DlqWindow
      <4>1. clock >= clock - DlqWindow
        BY <3>6, AnomalyAssumption
      <4> QED
        BY <3>4, <4>1 DEF RecentRejections
    <3>9. \A r \in S : r = [at |-> r.at, ts |-> r.ts]
      <4>1. \A r \in rejected[b].times : r \in [at : 1 .. MaxInputs,
                                                ts : 0 .. MaxClock]
        BY AnomalyParts DEF RefusalsOK, Refusals
      <4> QED
        BY <3>4, <4>1 DEF RecentRejections
    <3>10. PICK f : f = [r \in S |-> r.at]
      OBVIOUS
    <3>11. f \in [S -> T]
      BY <3>5, <3>7, <3>8, <3>10
    <3>12. \A r, q \in S : f[r] = f[q] => r = q
      BY <3>7, <3>9, <3>10
    <3>13. f \in Injection(S, T)
      BY <3>11, <3>12 DEF Injection, IsInjective
    <3>14. IsFiniteSet(T)
      <4>1. IsFiniteSet(1 .. m)
        BY FS_Interval
      <4>2. T \in SUBSET (1 .. m)
        BY <3>5
      <4> QED
        BY <4>1, <4>2, FS_Subset
    <3>15. Cardinality(S) <= Cardinality(T) /\ IsFiniteSet(S)
      BY <3>13, <3>14, FS_Injection
    <3>16. Cardinality(S) \in Nat /\ Cardinality(T) \in Nat
      BY <3>14, <3>15, FS_CardinalityType
    <3>17. Cardinality(T) >= DlqCount
      BY <3>2, <3>4, <3>15, <3>16, AnomalyAssumption
    <3> QED
      BY <3>1, <3>3, <3>5, <3>17
  <2> QED
    BY <2>1, <2>2
<1>7. ASSUME a.bus = o.bus, o.at < a.at, SameProcess(o.at, a.at)'
      PROVE  a.clock - o.clock >= DlqCooldown
  <2>1. CASE a \in raised /\ o \in raised
    <3>1. SameProcess(o.at, a.at)
      BY <1>1, <1>3, <1>4, <1>7, <2>1, ProcessBefore
    <3> QED
      BY <1>7, <2>1, <3>1 DEF DeviceActiveIsRare
  <2>2. CASE a \notin raised /\ o \in raised
    <3>1. PICK b \in Buses : b = a.bus
      BY <1>3 DEF Alert
    <3>2. /\ ReadRejection(b) /\ ~InCooldown(b) /\ a.at = m
          /\ a.clock = clock
      BY <1>5, <2>2, <3>1, RaisedGrows
    <3>3. SameProcess(o.at, n)
      <4>1. \A k \in (o.at + 1) .. n : k \in (o.at + 1) .. a.at
        BY <1>2, <1>3, <3>2
      <4>2. SameProcess(o.at, n)'
        BY <1>7, <4>1 DEF SameProcess
      <4> QED
        BY <1>1, <1>3, <4>2, ProcessBefore
    <3>4. begun <= o.at
      BY <1>1, <1>3, <3>3, BegunBefore
    <3>5. o.at >= begun
      BY <1>3, <3>4, NumbersOf
    <3>6. /\ rejected[b].lastAlert # Never
          /\ o.clock <= rejected[b].lastAlert
      BY <1>7, <2>2, <3>1, <3>5 DEF RejectionsKept
    <3>7. ~(clock - rejected[b].lastAlert < DlqCooldown)
      BY <3>2, <3>6 DEF InCooldown
    <3>8. PICK l \in Int : l = rejected[b].lastAlert
      <4>1. rejected[b].lastAlert \in Never .. MaxClock
        BY AnomalyParts DEF RefusalsOK, Refusals
      <4> QED
        BY <4>1, AnomalyAssumption DEF Never
    <3>9. PICK c \in Nat : c = clock
      BY NumbersOf
    <3>10. PICK e \in Nat : e = o.clock
      BY <1>3
    <3>11. DlqCooldown \in Nat
      BY AnomalyAssumption
    <3>12. e <= l /\ ~(c - l < DlqCooldown)
      BY <3>6, <3>7, <3>8, <3>9, <3>10
    <3>13. c - e >= DlqCooldown
      BY ONLY <3>11, <3>12, c \in Nat, e \in Nat, l \in Int
    <3> QED
      BY <3>2, <3>9, <3>10, <3>13
  <2>3. CASE o \notin raised
    <3>1. o.at = m /\ a.at <= m
      BY <1>2, <1>3, <1>4, <1>5, <2>3
    <3> QED
      BY <1>3, <1>7, <3>1
  <2> QED
    BY <2>1, <2>2, <2>3
<1> QED
  BY <1>6, <1>7

-----------------------------------------------------------------------------
(* AnomalyService: streaks.                                                 *)

LEMMA OrderedBefore ==
    ASSUME AnomalyTypeOK, [AnomalyNext]_anomalyVars, NEW b, Ordered(b)'
    PROVE  Ordered(b)
<1>1. \A i \in Of(b, {"on", "off"}) : /\ i \in Of(b, {"on", "off"})'
                                      /\ inputs'[i] = inputs[i]
  BY OfGrows, InputsGrow
<1> QED
  BY <1>1 DEF Ordered

\* A reading of a bus with a route is the input that comes in.
LEMMA ReadingIn ==
    ASSUME AnomalyTypeOK, [AnomalyNext]_anomalyVars,
           NEW r \in Reading, ReadActive(r)
    PROVE  /\ r.bus \in Buses /\ r.ts \in Nat /\ r.kind \in {"on", "off"}
           /\ begun' = begun
           /\ Len(inputs') = Len(inputs) + 1 /\ inputs'[Len(inputs')] = r
           /\ \A b, K : Len(inputs') \in Of(b, K)' <=> r.kind \in K /\ r.bus = b
<1>1. r.kind # "noRoute" /\ Input(r) /\ r \in Inputs /\ begun' = begun
  BY DEF ReadActive, Inputs
<1>2. r.bus \in Buses /\ r.ts \in 0 .. MaxClock /\ r.kind \in {"on", "off"}
  BY <1>1, ReadingIs
<1>3. /\ Len(inputs') = Len(inputs) + 1 /\ inputs'[Len(inputs')] = r
      /\ Len(inputs') \in DOMAIN inputs'
  BY <1>1, InputIs, InputsGrow, NumbersOf
<1>4. r.ts \in Nat
  BY <1>2, AnomalyAssumption
<1> QED
  BY <1>1, <1>2, <1>3, <1>4 DEF Of

\* W is what a streak s of bus b stands for, the new reading included.
Grown(b, s, W) ==
    /\ Len(inputs') \in W /\ Cardinality(W) = s.count
    /\ \A i \in W :
          /\ inputs'[i].ts \in s.start .. s.start + StreakWindow
          /\ Of(b, {"on"})' \intersect (i .. Len(inputs')) = {}
          /\ s.alerted \/
                \A o \in raised :
                   (o.type = "PERSISTENT_OFF_ROUTE" /\ o.bus = b) => i > o.at

\* A reading off the route makes the streak longer by itself, or begins one.
LEMMA StreakGrows ==
    ASSUME AnomalyTypeOK, Heard, StreaksKept, [AnomalyNext]_anomalyVars,
           NEW r \in Reading, ReadActive(r), r.kind = "off",
           NEW b, b = r.bus, NEW s, s = StreakAfter(b, r.ts), Ordered(b)'
    PROVE  \E W \in SUBSET (Of(b, {"off"})'
                               \intersect ((begun + 1) .. Len(inputs'))) :
              Grown(b, s, W)
<1>1. PICK n \in Nat : n = Len(inputs)
  BY NumbersOf
<1>2. PICK m \in Nat : m = Len(inputs') /\ m = n + 1
  BY <1>1, ReadingIn
<1>3. /\ b \in Buses /\ r.ts \in Nat /\ inputs'[m] = r /\ begun \in 0 .. n
      /\ m \in Of(b, {"off"})' /\ m \in Of(b, {"on", "off"})'
      /\ m \notin Of(b, {"on"})'
  BY <1>1, <1>2, ReadingIn, NumbersOf
<1>4. StreakWindow \in Nat
  BY AnomalyAssumption
<1>5. m \in (begun + 1) .. m
  BY <1>2, <1>3
<1>6. Of(b, {"on"})' \intersect (m .. m) = {}
  BY <1>2, <1>3
<1>7. \A o \in raised : m > o.at
  <2>1. \A o \in raised : o.at <= n /\ o.at \in Nat
    BY <1>1, NumbersOf DEF Heard
  <2> QED
    BY <1>2, <2>1
<1>8. PICK z : z = streaks[b]
  OBVIOUS
<1>9. /\ z.count \in Nat /\ z.start \in Nat
      /\ \/ /\ z.count = 0 \/ r.ts - z.start > StreakWindow
            /\ s = [count |-> 1, start |-> r.ts, alerted |-> FALSE]
         \/ /\ z.count # 0 /\ ~(r.ts - z.start > StreakWindow)
            /\ s = [count |-> z.count + 1, start |-> z.start,
                    alerted |-> z.alerted]
  <2>1. \A x \in 0 .. MaxClock : x \in Nat
    BY AnomalyAssumption
  <2> QED
    BY <1>3, <1>8, <2>1, StreakAfterIs
<1>10. CASE s = [count |-> 1, start |-> r.ts, alerted |-> FALSE]
  <2>1. Cardinality({m}) = 1
    BY FS_Singleton
  <2>2. r.ts \in r.ts .. r.ts + StreakWindow
    BY <1>3, <1>4
  <2>3. {m} \in SUBSET (Of(b, {"off"})' \intersect ((begun + 1) .. m))
    BY <1>3, <1>5
  <2>4. \A i \in {m} :
          /\ inputs'[i].ts \in s.start .. s.start + StreakWindow
          /\ Of(b, {"on"})' \intersect (i .. m) = {}
          /\ \A o \in raised : i > o.at
    BY <1>3, <1>6, <1>7, <1>10, <2>2
  <2> QED
    BY <1>2, <1>10, <2>1, <2>3, <2>4 DEF Grown
<1>11. CASE /\ z.count # 0 /\ ~(r.ts - z.start > StreakWindow)
            /\ s = [count |-> z.count + 1, start |-> z.start,
                    alerted |-> z.alerted]
  <2>1. Ordered(b)
    BY OrderedBefore
  <2>2. PICK V \in SUBSET (Of(b, {"off"}) \intersect ((begun + 1) .. n)) :
          /\ Cardinality(V) = z.count
          /\ \A i \in V :
                /\ inputs[i].ts \in z.start .. z.start + StreakWindow
                /\ Of(b, {"on"}) \intersect (i .. n) = {}
                /\ z.alerted \/
                      \A o \in raised :
                         (o.type = "PERSISTENT_OFF_ROUTE" /\ o.bus = b)
                            => i > o.at
    <3>1. \E V \in SUBSET (Of(b, {"off"}) \intersect ((begun + 1) .. n)) :
             StreakOf(b, V)
      BY <1>1, <1>3, <2>1 DEF StreaksKept
    <3> QED
      BY <1>1, <1>8, <3>1 DEF StreakOf
  <2>3. /\ V \subseteq 1 .. n /\ m \notin V /\ IsFiniteSet(V)
        /\ \A i \in V : /\ i \in Of(b, {"off"})' /\ i \in (begun + 1) .. m
                        /\ inputs'[i] = inputs[i] /\ i \in Nat
    <3>1. \A i \in V : /\ i \in 1 .. n /\ i \in (begun + 1) .. m /\ i # m
                       /\ i \in Nat
      BY <1>2, <1>3, <2>2
    <3>2. \A i \in V : i \in Of(b, {"off"})' /\ inputs'[i] = inputs[i]
      BY <1>1, <2>2, <3>1, OfGrows, InputsGrow
    <3>3. IsFiniteSet(1 .. n) /\ V \in SUBSET (1 .. n)
      BY <3>1, FS_Interval
    <3>4. IsFiniteSet(V)
      BY <3>3, FS_Subset
    <3> QED
      BY <3>1, <3>2, <3>4
  <2>4. PICK W : W = V \union {m}
    OBVIOUS
  <2>5. Cardinality(W) = z.count + 1
    BY <2>2, <2>3, <2>4, FS_AddElement
  <2>6. W \in SUBSET (Of(b, {"off"})' \intersect ((begun + 1) .. m))
    BY <1>3, <1>5, <2>3, <2>4
  <2>7. r.ts \in z.start .. z.start + StreakWindow
    <3>1. PICK i : i \in V
      <4>1. V # {}
        BY <1>11, <2>2, FS_EmptySet
      <4> QED
        BY <4>1
    <3>2. i < m /\ inputs'[i].ts \in z.start .. z.start + StreakWindow
      BY <1>2, <2>2, <2>3, <3>1
    <3>3. i \in Of(b, {"on", "off"})'
      BY <2>3, <3>1 DEF Of
    <3>4. inputs'[i].ts <= r.ts
      BY <1>3, <3>2, <3>3 DEF Ordered
    <3>5. PICK x \in Int : x = inputs'[i].ts
      BY <1>4, <1>9, <3>2
    <3>6. z.start <= x /\ x <= r.ts
      BY <1>4, <1>9, <3>2, <3>4, <3>5
    <3> QED
      BY <1>3, <1>4, <1>9, <1>11, <3>6
  <2>8. ASSUME NEW i \in W
        PROVE  /\ inputs'[i].ts \in z.start .. z.start + StreakWindow
               /\ Of(b, {"on"})' \intersect (i .. m) = {}
               /\ z.alerted \/
                     \A o \in raised :
                        (o.type = "PERSISTENT_OFF_ROUTE" /\ o.bus = b)
                           => i > o.at
    <3>1. CASE i = m
      BY <1>3, <1>6, <1>7, <2>7, <3>1
    <3>2. CASE i \in V
      <4>1. ASSUME NEW j \in Of(b, {"on"})', j \in i .. m
            PROVE  FALSE
        <5>1. j # m
          BY <1>3
        <5>2. j \in i .. n /\ j \in 1 .. n
          BY <1>2, <2>3, <3>2, <4>1, <5>1
        <5>3. j \in Of(b, {"on"})
          BY <1>1, <5>2, OfGrows
        <5> QED
          BY <2>2, <3>2, <5>2, <5>3
      <4> QED
        BY <2>2, <2>3, <3>2, <4>1
    <3> QED
      BY <2>4, <3>1, <3>2
  <2>9. s.count = z.count + 1 /\ s.start = z.start /\ s.alerted = z.alerted
    BY <1>11
  <2> QED
    BY <1>2, <2>4, <2>5, <2>6, <2>8, <2>9 DEF Grown
<1> QED
  BY <1>9, <1>10, <1>11

\* The streak of a bus that nothing has come in of.
LEMMA StreakStays ==
    ASSUME AnomalyTypeOK, StreaksKept, [AnomalyNext]_anomalyVars,
           NEW b \in Buses, streaks'[b] = streaks[b], begun' = begun,
           \A i \in Of(b, {"on", "off"})' : i \in 1 .. Len(inputs)
    PROVE  /\ streaks'[b].count <= Len(inputs')
           /\ streaks'[b].alerted \/ streaks'[b].count < StreakLength
           /\ Ordered(b)' =>
                 \E W \in SUBSET (Of(b, {"off"})'
                                  \intersect ((begun' + 1) .. Len(inputs'))) :
                    StreakOf(b, W)'
<1>1. PICK n \in Nat : n = Len(inputs)
  BY NumbersOf
<1>2. PICK m \in Nat : m = Len(inputs') /\ n <= m
  BY <1>1, InputsGrow
<1>3. streaks[b].count \in Nat /\ begun \in Nat
  BY StreakAfterIs, NumbersOf
<1>4. /\ streaks[b].count <= m
      /\ streaks[b].alerted \/ streaks[b].count < StreakLength
  <2>1. /\ streaks[b].count <= n
        /\ streaks[b].alerted \/ streaks[b].count < StreakLength
    BY <1>1 DEF StreaksKept
  <2> QED
    BY <1>2, <1>3, <2>1
<1>5. ASSUME NEW x \in raised', x.type = "PERSISTENT_OFF_ROUTE", x.bus = b
      PROVE  x \in raised
  <2>1. SUFFICES ASSUME x \notin raised PROVE FALSE
    OBVIOUS
  <2>2. PICK r \in Reading : ReadActive(r) /\ r.bus = b
    BY <1>5, <2>1, RaisedGrows
  <2>3. m = n + 1 /\ m \in Of(b, {"on", "off"})'
    BY <1>1, <1>2, <2>2, ReadingIn
  <2> QED
    BY <1>1, <2>3
<1>6. ASSUME Ordered(b)'
      PROVE  \E W \in SUBSET (Of(b, {"off"})'
                              \intersect ((begun' + 1) .. Len(inputs'))) :
                StreakOf(b, W)'
  <2>1. Ordered(b)
    BY <1>6, OrderedBefore
  <2>2. PICK W \in SUBSET (Of(b, {"off"}) \intersect ((begun + 1) .. n)) :
          StreakOf(b, W)
    BY <1>1, <2>1 DEF StreaksKept
  <2>3. \A i \in W : /\ i \in Of(b, {"off"})' /\ i \in (begun + 1) .. m
                     /\ inputs'[i] = inputs[i] /\ i \in Nat
    <3>1. \A i \in W : i \in (begun + 1) .. m /\ i \in 1 .. n /\ i \in Nat
      BY <1>2, <1>3, <2>2
    <3> QED
      BY <1>1, <2>2, <3>1, OfGrows, InputsGrow
  <2>4. ASSUME NEW i \in W
        PROVE  Of(b, {"on"})' \intersect (i .. m) = {}
    <3>1. SUFFICES ASSUME NEW j \in Of(b, {"on"})', j \in i .. m
                   PROVE  FALSE
      OBVIOUS
    <3>2. j \in Of(b, {"on", "off"})'
      BY DEF Of
    <3>3. j \in 1 .. n /\ j \in i .. n
      BY <1>1, <2>3, <3>1, <3>2
    <3>4. j \in Of(b, {"on"})
      BY <1>1, <3>3, OfGrows
    <3> QED
      BY <1>1, <2>2, <3>3, <3>4 DEF StreakOf
  <2>5. StreakOf(b, W)'
    BY <1>1, <1>2, <1>5, <2>2, <2>3, <2>4 DEF StreakOf
  <2>6. W \in SUBSET (Of(b, {"off"})' \intersect ((begun' + 1) .. Len(inputs')))
    BY <1>2, <2>3
  <2> QED
    BY <2>5, <2>6
<1> QED
  BY <1>2, <1>4, <1>6

\* No streak.
LEMMA StreakNone ==
    ASSUME NEW b \in Buses, streaks'[b] = NoStreak, Len(inputs') \in Nat
    PROVE  /\ streaks'[b].count <= Len(inputs')
           /\ streaks'[b].alerted \/ streaks'[b].count < StreakLength
           /\ Ordered(b)' =>
                 \E W \in SUBSET (Of(b, {"off"})'
                                  \intersect ((begun' + 1) .. Len(inputs'))) :
                    StreakOf(b, W)'
<1>1. streaks'[b].count = 0
  BY DEF NoStreak
<1>2. StreakLength \in Nat /\ StreakLength >= 1
  BY AnomalyAssumption
<1>3. Cardinality({}) = 0
  BY FS_EmptySet
<1>4. StreakOf(b, {})'
  BY <1>1, <1>3 DEF StreakOf
<1> QED
  BY <1>1, <1>2, <1>4

LEMMA StreaksStep ==
    AnomalyTypeOK /\ Heard /\ StreaksKept /\ [AnomalyNext]_anomalyVars
      => StreaksKept'
<1> SUFFICES ASSUME AnomalyTypeOK, Heard, StreaksKept,
                    [AnomalyNext]_anomalyVars, NEW b \in Buses
             PROVE
        /\ streaks'[b].count <= Len(inputs')
        /\ streaks'[b].alerted \/ streaks'[b].count < StreakLength
        /\ Ordered(b)' =>
              \E W \in SUBSET (Of(b, {"off"})'
                               \intersect ((begun' + 1) .. Len(inputs'))) :
                 StreakOf(b, W)'
  BY DEF StreaksKept
<1>0. Len(inputs) \in Nat /\ Len(inputs') \in Nat
  BY NumbersOf, InputsGrow
<1>1. CASE AnomalyRestart
  <2>1. streaks'[b] = NoStreak
    BY <1>1 DEF AnomalyRestart, Forgotten
  <2> QED
    BY <1>0, <2>1, StreakNone
<1>2. CASE \/ Tick \/ CheckSilence
           \/ \E task \in Tasks : SendAlert(task) \/ SendFails(task)
           \/ UNCHANGED anomalyVars
  <2>1. streaks' = streaks /\ begun' = begun /\ inputs' = inputs
    BY <1>2 DEF Tick, CheckSilence, SendAlert, SendFails, memory, anomalyVars
  <2>2. \A i \in Of(b, {"on", "off"})' : i \in 1 .. Len(inputs)
    BY <2>1, OfGrows
  <2> QED
    BY <2>1, <2>2, StreakStays
<1>3. ASSUME NEW x \in Inputs, Input(x), begun' = begun,
             streaks'[b] = streaks[b],
             x.kind \notin {"on", "off"} \/ x.bus # b
      PROVE  /\ streaks'[b].count <= Len(inputs')
             /\ streaks'[b].alerted \/ streaks'[b].count < StreakLength
             /\ Ordered(b)' =>
                   \E W \in SUBSET (Of(b, {"off"})'
                               \intersect ((begun' + 1) .. Len(inputs'))) :
                      StreakOf(b, W)'
  <2>1. Len(inputs') = Len(inputs) + 1 /\ inputs'[Len(inputs')] = x
    BY <1>3, InputIs
  <2>2. ASSUME NEW i \in Of(b, {"on", "off"})'
        PROVE  i \in 1 .. Len(inputs)
    <3>1. i # Len(inputs')
      BY <1>3, <2>1 DEF Of
    <3>2. i \in 1 .. Len(inputs')
      BY OfGrows
    <3> QED
      BY <1>0, <2>1, <3>1, <3>2
  <2> QED
    BY <1>3, <2>2, StreakStays
<1>4. ASSUME NEW r \in Reading, ReadInactive(r)
      PROVE  /\ r \in Inputs /\ Input(r) /\ begun' = begun
             /\ streaks' = streaks /\ r.kind \notin {"on", "off"}
  BY <1>4 DEF ReadInactive, memory, Inputs
<1>5. ASSUME NEW c \in Buses, ReadRejection(c)
      PROVE  \E x \in Inputs : /\ Input(x) /\ begun' = begun
                               /\ streaks' = streaks
                               /\ x.kind \notin {"on", "off"}
  <2>1. PICK x : x = [bus |-> c, ts |-> clock, kind |-> "rejected"]
    OBVIOUS
  <2>2. x \in Inputs /\ x.kind = "rejected"
    BY <2>1, AnomalyParts DEF Inputs, Rejection
  <2> QED
    BY <1>5, <2>1, <2>2 DEF ReadRejection
<1>6. CASE \E r \in Reading : ReadInactive(r)
  BY <1>3, <1>4, <1>6
<1>7. CASE \E c \in Buses : ReadRejection(c)
  <2>1. PICK x \in Inputs : /\ Input(x) /\ begun' = begun
                            /\ streaks' = streaks
                            /\ x.kind \notin {"on", "off"}
    BY <1>5, <1>7
  <2> QED
    BY <1>3, <2>1
<1>8. CASE \E r \in Reading : ReadActive(r)
  <2>1. PICK r \in Reading : ReadActive(r)
    BY <1>8
  <2>2. streaks \in [Buses -> Streak] /\ r.bus \in Buses
    BY <2>1, AnomalyParts, ReadingIn DEF StreaksOK
  <2>3. CASE r.bus # b
    <3>1. streaks'[b] = streaks[b]
      BY <2>1, <2>2, <2>3 DEF ReadActive, ReadOnItsRoute, ReadOffItsRoute
    <3>2. r \in Inputs /\ Input(r) /\ begun' = begun
      BY <2>1 DEF ReadActive, Inputs
    <3> QED
      BY <1>3, <2>3, <3>1, <3>2
  <2>4. CASE r.bus = b /\ ReadOnItsRoute(r)
    <3>1. streaks'[b] = NoStreak
      BY <2>2, <2>4 DEF ReadOnItsRoute
    <3> QED
      BY <1>0, <3>1, StreakNone
  <2>5. CASE r.bus = b /\ ReadOffItsRoute(r)
    <3>1. PICK s : /\ s = StreakAfter(b, r.ts) /\ s.count \in Nat
                   /\ streaks' = [streaks EXCEPT ![b] =
                         [count |-> s.count, start |-> s.start,
                          alerted |-> s.alerted \/ Persists(s)]]
                   /\ s.alerted \in BOOLEAN
                   /\ s.count <= streaks[b].count + 1
      BY <2>5, OffRouteIs
    <3>2. /\ streaks'[b].count = s.count /\ streaks'[b].start = s.start
          /\ streaks'[b].alerted <=> s.alerted \/ Persists(s)
      BY <2>2, <3>1
    <3>3. Len(inputs') = Len(inputs) + 1 /\ begun' = begun /\ r.kind = "off"
      BY <2>1, <2>5, ReadingIn DEF ReadOffItsRoute
    <3>4. s.count <= Len(inputs')
      <4>1. PICK c \in Nat : c = streaks[b].count
        BY StreakAfterIs
      <4>2. c <= Len(inputs)
        BY <4>1 DEF StreaksKept
      <4> QED
        BY <1>0, <3>1, <3>3, <4>1, <4>2
    <3>5. (s.alerted \/ Persists(s)) \/ s.count < StreakLength
      BY <3>1, AnomalyAssumption DEF Persists
    <3>6. ASSUME Ordered(b)'
          PROVE  \E W \in SUBSET (Of(b, {"off"})'
                               \intersect ((begun' + 1) .. Len(inputs'))) :
                    StreakOf(b, W)'
      <4>1. PICK W \in SUBSET (Of(b, {"off"})'
                               \intersect ((begun + 1) .. Len(inputs'))) :
              Grown(b, s, W)
        BY <2>1, <2>5, <3>1, <3>3, <3>6, StreakGrows
      <4>2. ASSUME NEW o \in raised', o.type = "PERSISTENT_OFF_ROUTE",
                   o.bus = b, o \notin raised
            PROVE  Persists(s)
        <5>1. \/ /\ RaisedNow(o, "PERSISTENT_OFF_ROUTE", r.bus)
                 /\ Persists(StreakAfter(r.bus, r.ts))
              \/ \E type \in {"UNREALISTIC_SPEED", "OFF_ROUTE",
                              "STATIONARY", "ERRATIC_DRIVING"} :
                    RaisedNow(o, type, r.bus)
          BY <2>1, <4>2, ActiveRaises
        <5>2. \A type : RaisedNow(o, type, r.bus) => o.type = type
          BY DEF RaisedNow
        <5> QED
          BY <2>5, <3>1, <4>2, <5>1, <5>2
      <4>3. StreakOf(b, W)'
        BY <3>2, <4>1, <4>2 DEF StreakOf, Grown
      <4> QED
        BY <3>3, <4>1, <4>3
    <3> QED
      BY <3>2, <3>4, <3>5, <3>6
  <2> QED
    BY <2>1, <2>3, <2>4, <2>5 DEF ReadActive
<1> QED
  BY <1>1, <1>2, <1>6, <1>7, <1>8 DEF AnomalyNext

LEMMA PersistentStep ==
    AnomalyTypeOK /\ Heard /\ StreaksKept /\ PersistentMeansStreak
      /\ [AnomalyNext]_anomalyVars => PersistentMeansStreak'
<1> SUFFICES ASSUME AnomalyTypeOK, Heard, StreaksKept, PersistentMeansStreak,
                    [AnomalyNext]_anomalyVars, NEW a \in raised',
                    a.type = "PERSISTENT_OFF_ROUTE", Ordered(a.bus)'
             PROVE
        \E S \in SUBSET (Of(a.bus, {"off"})' \intersect (1 .. a.at)) :
           /\ Streaky(a.bus, S)' /\ a.at \in S
           /\ \A o \in raised' :
                 (o.type = a.type /\ o.bus = a.bus /\ o.at < a.at)
                    => \A i \in S : i > o.at
  BY DEF PersistentMeansStreak
<1>1. PICK n \in Nat : n = Len(inputs)
  BY NumbersOf
<1>2. PICK m \in Nat : m = Len(inputs') /\ n <= m
  BY <1>1, InputsGrow
<1>3. \A x \in raised' : x \in Alert /\ x.at \in Nat
  BY NumbersOf, RaisedGrows
<1>4. \A x \in raised : x.at <= n
  BY <1>1 DEF Heard
<1>5. \A x \in raised' \ raised : x.at = m
  BY <1>2, RaisedGrows
<1>6. \A x \in raised' : x.at < a.at => x \in raised
  BY <1>2, <1>3, <1>4, <1>5
<1>7. CASE a \in raised
  <2>1. Ordered(a.bus)
    BY OrderedBefore
  <2>2. PICK S \in SUBSET (Of(a.bus, {"off"}) \intersect (1 .. a.at)) :
          /\ Streaky(a.bus, S) /\ a.at \in S
          /\ \A o \in raised :
                (o.type = a.type /\ o.bus = a.bus /\ o.at < a.at)
                   => \A i \in S : i > o.at
    BY <1>7, <2>1 DEF PersistentMeansStreak
  <2>3. \A i \in 1 .. a.at : i \in 1 .. n /\ inputs'[i] = inputs[i]
    BY <1>1, <1>3, <1>4, <1>7, InputsGrow
  <2>4. S \in SUBSET (Of(a.bus, {"off"})' \intersect (1 .. a.at))
    BY <2>2, OfGrows
  <2>5. \A i, j \in S : i .. j \subseteq 1 .. a.at
                        /\ (i + 1) .. j \subseteq 1 .. a.at
    BY <1>3, <2>2
  <2>6. ASSUME NEW i \in S, NEW j \in S, i <= j
        PROVE  /\ inputs'[j].ts - inputs'[i].ts <= StreakWindow
               /\ SameProcess(i, j)'
               /\ Of(a.bus, {"on"})' \intersect (i .. j) = {}
    <3>1. /\ inputs[j].ts - inputs[i].ts <= StreakWindow
          /\ SameProcess(i, j)
          /\ Of(a.bus, {"on"}) \intersect (i .. j) = {}
      BY <2>2, <2>6 DEF Streaky
    <3>2. inputs'[j].ts - inputs'[i].ts <= StreakWindow
      BY <2>2, <2>3, <3>1
    <3>3. SameProcess(i, j)'
      BY <2>3, <2>5, <3>1 DEF SameProcess
    <3>4. Of(a.bus, {"on"})' \intersect (i .. j) = {}
      BY <1>1, <2>3, <2>5, <3>1, OfGrows
    <3> QED
      BY <3>2, <3>3, <3>4
  <2>7. Streaky(a.bus, S)'
    BY <2>2, <2>6 DEF Streaky
  <2> QED
    BY <1>6, <2>2, <2>4, <2>7
<1>8. CASE a \notin raised
  <2>1. PICK r \in Reading :
          /\ ReadActive(r) /\ a.bus = r.bus /\ r.kind = "off"
          /\ Persists(StreakAfter(r.bus, r.ts))
    BY <1>8, RaisedGrows
  <2>2. PICK b \in Buses : b = a.bus /\ b = r.bus
    BY <2>1, ReadingIn
  <2>3. PICK s : s = StreakAfter(b, r.ts)
    OBVIOUS
  <2>4. PICK W \in SUBSET (Of(b, {"off"})' \intersect ((begun + 1) .. m)) :
          Grown(b, s, W)
    BY <1>2, <2>1, <2>2, <2>3, StreakGrows
  <2>5. /\ m \in W /\ Cardinality(W) = s.count
        /\ \A i \in W :
              /\ inputs'[i].ts \in s.start .. s.start + StreakWindow
              /\ Of(b, {"on"})' \intersect (i .. m) = {}
              /\ s.alerted \/
                    \A o \in raised :
                       (o.type = "PERSISTENT_OFF_ROUTE" /\ o.bus = b)
                          => i > o.at
    BY <1>2, <2>4 DEF Grown
  <2>6. s.count >= StreakLength /\ ~s.alerted
    BY <2>1, <2>2, <2>3 DEF Persists
  <2>7. s.count = StreakLength /\ s.start \in Nat
    <3>1. StreakLength \in Nat /\ StreakLength >= 1 /\ MaxClock \in Nat
      BY AnomalyAssumption
    <3>2. r.ts \in Nat
      BY <2>1, ReadingIn
    <3>3. PICK z : z = streaks[b]
      OBVIOUS
    <3>4. /\ z.count \in Nat /\ z.start \in 0 .. MaxClock
          /\ z.alerted \/ z.count < StreakLength
      BY <3>3, StreakAfterIs DEF StreaksKept
    <3>5. CASE s = [count |-> 1, start |-> r.ts, alerted |-> FALSE]
      BY <2>6, <3>1, <3>2, <3>5
    <3>6. CASE s = [count |-> z.count + 1, start |-> z.start,
                    alerted |-> z.alerted]
      <4>1. /\ s.count = z.count + 1 /\ s.start = z.start
            /\ s.alerted = z.alerted
        BY <3>6
      <4>2. z.count < StreakLength
        BY <2>6, <3>4, <4>1
      <4> QED
        BY <2>6, <3>1, <3>4, <4>1, <4>2
    <3> QED
      BY <2>3, <3>3, <3>5, <3>6, StreakAfterIs
  <2>8. a.at = m /\ begun' = begun /\ begun \in Nat
    BY <1>5, <1>8, <2>1, ReadingIn, NumbersOf
  <2>9. W \in SUBSET (Of(b, {"off"})' \intersect (1 .. a.at))
    BY <2>4, <2>8
  <2>10. ASSUME NEW i \in W, NEW j \in W, i <= j
         PROVE  /\ inputs'[j].ts - inputs'[i].ts <= StreakWindow
                /\ SameProcess(i, j)'
                /\ Of(b, {"on"})' \intersect (i .. j) = {}
    <3>1. /\ inputs'[i].ts \in s.start .. s.start + StreakWindow
          /\ inputs'[j].ts \in s.start .. s.start + StreakWindow
          /\ StreakWindow \in Nat
      BY <2>5, AnomalyAssumption
    <3>2. inputs'[j].ts - inputs'[i].ts <= StreakWindow
      <4>1. PICK x \in Int : x = inputs'[i].ts
        BY <2>7, <3>1
      <4>2. PICK y \in Int : y = inputs'[j].ts
        BY <2>7, <3>1
      <4>3. PICK z \in Nat : z = s.start
        BY <2>7
      <4>4. x >= z /\ y <= z + StreakWindow
        BY <3>1, <4>1, <4>2, <4>3
      <4>5. y - x <= StreakWindow
        BY ONLY <3>1, <4>4, x \in Int, y \in Int, z \in Nat
      <4> QED
        BY <4>1, <4>2, <4>5
    <3>3. /\ i \in (begun + 1) .. m /\ j \in (begun + 1) .. m
      BY <2>4
    <3>4. SameProcess(i, j)'
      <4>1. \A k \in (i + 1) .. j : k \in (begun + 1) .. m
        BY <2>8, <3>3
      <4>2. Heard'
        BY HeardStep
      <4> QED
        BY <1>2, <2>8, <4>1, <4>2 DEF SameProcess, Heard
    <3>5. i .. j \subseteq i .. m
      BY <2>8, <3>3
    <3> QED
      BY <2>5, <3>2, <3>4, <3>5
  <2>11. Streaky(b, W)'
    BY <2>5, <2>7, <2>10 DEF Streaky
  <2>12. \A o \in raised' :
            (o.type = a.type /\ o.bus = a.bus /\ o.at < a.at)
               => \A i \in W : i > o.at
    BY <1>6, <2>2, <2>5, <2>6
  <2> QED
    BY <2>2, <2>5, <2>8, <2>9, <2>11, <2>12
<1> QED
  BY <1>7, <1>8

-----------------------------------------------------------------------------
(* AnomalyService: the theorems.                                            *)

LEMMA AnomalyStart == AnomalyInit => AnomalyInv /\ NotedIsAnnounced
<1> SUFFICES ASSUME AnomalyInit
             PROVE  AnomalyInv /\ NotedIsAnnounced
  OBVIOUS
<1>1. /\ clock = 0 /\ inputs = <<>> /\ begun = 0
      /\ known = [b \in Buses |-> NoBus]
      /\ streaks = [b \in Buses |-> NoStreak]
      /\ rejected = [b \in Buses |-> [times |-> {}, lastAlert |-> Never]]
      /\ pings = [b \in Buses |-> 0] /\ todo = [t \in Tasks |-> <<>>]
      /\ lossTask = TRUE /\ raised = {} /\ alerts = {}
  BY DEF AnomalyInit
<1>2. Len(<<>>) = 0 /\ DOMAIN <<>> = {}
  OBVIOUS
<1>3. /\ MaxClock \in Nat /\ MaxInputs \in Nat /\ MinPings \in Nat
      /\ StreakLength \in Nat /\ StreakLength >= 1
  BY AnomalyAssumption
<1>4. AnomalyTypeOK
  <2>1. clock \in 0 .. MaxClock
    BY <1>1, <1>3
  <2>2. InputsOK
    <3>1. <<>> \in Seq(Inputs)
      OBVIOUS
    <3> QED
      BY <1>1, <1>2, <1>3, <3>1 DEF InputsOK
  <2>3. KnownOK
    BY <1>1 DEF KnownOK
  <2>4. StreaksOK
    <3>1. NoStreak \in Streak
      BY <1>3 DEF NoStreak, Streak
    <3> QED
      BY <1>1, <3>1 DEF StreaksOK
  <2>5. RefusalsOK
    <3>1. Never \in Never .. MaxClock
      BY <1>3 DEF Never
    <3>2. [times |-> {}, lastAlert |-> Never] \in Refusals
      BY <3>1 DEF Refusals
    <3> QED
      BY <1>1, <3>2 DEF RefusalsOK
  <2>6. PingsOK
    BY <1>1, <1>3 DEF PingsOK
  <2>7. TodoOK
    <3>1. <<>> \in Seq(Alert)
      OBVIOUS
    <3> QED
      BY <1>1, <3>1 DEF TodoOK
  <2>8. RaisedOK
    BY <1>1 DEF RaisedOK
  <2> QED
    BY <2>1, <2>2, <2>3, <2>4, <2>5, <2>6, <2>7, <2>8, AnomalyParts
<1>5. PersistentMeansStreak /\ DeviceActiveIsRare /\ OneAlertPerSilence
  BY <1>1 DEF PersistentMeansStreak, DeviceActiveIsRare, OneAlertPerSilence
<1>6. Heard
  <2>1. (0 + 1) .. 0 = {}
    OBVIOUS
  <2> QED
    BY <1>1, <1>2, <2>1 DEF Heard
<1>7. StreaksKept
  <2> SUFFICES ASSUME NEW b \in Buses
               PROVE  /\ streaks[b].count <= Len(inputs)
                      /\ streaks[b].alerted \/ streaks[b].count < StreakLength
                      /\ \E W \in SUBSET (Of(b, {"off"}) \intersect
                               ((begun + 1) .. Len(inputs))) : StreakOf(b, W)
    BY DEF StreaksKept
  <2>1. streaks[b].count = 0
    BY <1>1 DEF NoStreak
  <2>2. StreakOf(b, {})
    BY <2>1, FS_EmptySet DEF StreakOf
  <2>3. Len(inputs) = 0
    BY <1>1, <1>2
  <2> QED
    BY <1>3, <2>1, <2>2, <2>3
<1>8. RejectionsKept /\ SilencesKept
  BY <1>1 DEF RejectionsKept, SilencesKept
<1>9. LossesRaised
  BY <1>1, <1>2 DEF LossesRaised, Tasks
<1>10. NotedIsAnnounced
  BY <1>1 DEF NotedIsAnnounced, NoBus
<1> QED
  BY <1>4, <1>5, <1>6, <1>7, <1>8, <1>9, <1>10 DEF AnomalyInv

LEMMA AnomalyStep == AnomalyInv /\ [AnomalyNext]_anomalyVars => AnomalyInv'
  BY AnomalyTypeStep, HeardStep, StreaksStep, RejectionsStep, SilencesStep,
     LossesStep, PersistentStep, DeviceActiveStep, OneAlertStep
     DEF AnomalyInv

\* The detector (anomaly_model.py) and its three tasks: an alert stands for
\* what it says and is raised once for it.  PERSISTENT_OFF_ROUTE means enough
\* readings in a row off the route, none of them counted twice;
\* TRIP_NOT_STARTED_DEVICE_ACTIVE enough rejections in the window, and no
\* other alert of the process within the cooldown; COMMUNICATION_LOSS a
\* silence that has not been reported.
THEOREM AnomalyCorrect == AnomalySpec => []AnomalyInv
<1>1. AnomalyInit => AnomalyInv
  BY AnomalyStart
<1> QED
  BY <1>1, AnomalyStep, PTL DEF AnomalySpec

\* A silence that the periodic check has noted has been announced, is about to
\* be, or has cost the task its life (the flag is set before the alerts are
\* sent, and a failing send ends the task).
THEOREM NotedCorrect ==
    ASSUME "COMMUNICATION_LOSS" \in Watched
    PROVE  AnomalySpec => []NotedIsAnnounced
<1> DEFINE Inv == AnomalyInv /\ NotedIsAnnounced
<1>1. AnomalyInit => Inv
  BY AnomalyStart
<1>2. Inv /\ [AnomalyNext]_anomalyVars => Inv'
  BY AnomalyStep, NotedStep DEF AnomalyInv
<1>3. Inv => NotedIsAnnounced
  OBVIOUS
<1> QED
  BY <1>1, <1>2, <1>3, PTL DEF AnomalySpec

=============================================================================
