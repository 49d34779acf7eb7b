---------------------- MODULE AllocatorExecutor_proofs ----------------------
(***************************************************************************)
(* Proofs about the observer, the cascade score and the allocator, for     *)
(* every value of the constants: windows, retentions, base allocations,    *)
(* resolutions of the scores.                                              *)
(***************************************************************************)
EXTENDS AllocatorExecutor, FiniteSetTheorems, TLAPS

-----------------------------------------------------------------------------
(* The arithmetic of the tilt *)

(* A product grows with either factor. *)
LEMMA TimesGrows ==
    ASSUME NEW a \in Int, NEW b \in Int, NEW c \in Nat, a <= b
    PROVE  a * c <= b * c /\ c * a <= c * b
  BY SMT

(***************************************************************************)
(* One tilted target against its floor.  b is the base, s the score, w the *)
(* fund weight, p the pool, a what all layers are tilted up by.            *)
(***************************************************************************)
Target(b, s, w, p, a) ==
    LET tilted == 2 * ((b * Steps + s * MaxTilt) * p - a * w)
        floor  == b * Steps * p
    IN  IF tilted < floor THEN floor ELSE tilted

LEMMA TargetBounds ==
    ASSUME NEW b \in Nat, NEW s \in 0..Steps, NEW w \in Nat, NEW p \in Nat,
           NEW a \in Nat
    PROVE  /\ Target(b, s, w, p, a) \in Nat
           /\ Target(b, s, w, p, a) >= b * Steps * p
           /\ Target(b, s, w, p, a) >= 2 * ((b * Steps + s * MaxTilt) * p - a * w)
           /\ Target(b, s, w, p, a) <= 2 * ((b * Steps + s * MaxTilt) * p)
  <1> USE AllocatorAssumption
  <1> DEFINE bsp == b * Steps * p
             smp == s * MaxTilt * p
             aw  == a * w
  <1>1. bsp \in Nat /\ smp \in Nat /\ aw \in Nat
    <2>1. b * Steps \in Nat /\ s * MaxTilt \in Nat  BY SMT
    <2>2. QED  BY <2>1, SMT
  <1>2. 2 * ((b * Steps + s * MaxTilt) * p - a * w) = 2 * (bsp + smp - aw)  BY SMT
  <1>3. 2 * ((b * Steps + s * MaxTilt) * p) = 2 * (bsp + smp)  BY SMT
  <1> HIDE DEF bsp, smp, aw
  <1>4. Target(b, s, w, p, a) = IF 2 * (bsp + smp - aw) < bsp THEN bsp ELSE 2 * (bsp + smp - aw)
    BY <1>2 DEF Target, bsp
  <1>5. QED  BY <1>1, <1>2, <1>3, <1>4, SMT DEF bsp

(***************************************************************************)
(* What the floors add up to: at least all that was distributed, and never *)
(* more than half of that again, as long as two layers cannot be tilted up *)
(* by more than half of the whole.                                         *)
(***************************************************************************)
LEMMA SumBounds ==
    ASSUME NEW b1 \in Nat, NEW b2 \in Nat, NEW b3 \in Nat,
           NEW s1 \in 0..Steps, NEW s2 \in 0..Steps, NEW s3 \in 0..Steps,
           NEW w1 \in Nat, NEW w2 \in Nat, NEW w3 \in Nat, NEW a \in Nat,
           b1 + b2 + b3 = Whole, 4 * MaxTilt <= Whole,
           a = MaxTilt * (s1 + s2 + s3)
    PROVE  LET p   == w1 + w2 + w3
               sum == Target(b1, s1, w1, p, a) + Target(b2, s2, w2, p, a)
                        + Target(b3, s3, w3, p, a)
           IN  2 * (Whole * Steps * p) <= sum /\ sum <= 3 * (Whole * Steps * p)
  <1> USE AllocatorAssumption
  <1> DEFINE p  == w1 + w2 + w3
             B(b) == b * Steps * p
             M(s) == s * MaxTilt * p
             aw1 == a * w1
             aw2 == a * w2
             aw3 == a * w3
             T(b, s, w) == Target(b, s, w, p, a)
  <1>0. p \in Nat  BY SMT
  <1>1. /\ B(b1) \in Nat /\ B(b2) \in Nat /\ B(b3) \in Nat
        /\ M(s1) \in Nat /\ M(s2) \in Nat /\ M(s3) \in Nat
        /\ aw1 \in Nat /\ aw2 \in Nat /\ aw3 \in Nat
    <2>1. /\ b1 * Steps \in Nat /\ b2 * Steps \in Nat /\ b3 * Steps \in Nat
          /\ s1 * MaxTilt \in Nat /\ s2 * MaxTilt \in Nat /\ s3 * MaxTilt \in Nat
      BY SMT
    <2>2. QED  BY <2>1, <1>0, SMT
  \* what is distributed, and what is taken
  <1>2. B(b1) + B(b2) + B(b3) = Whole * Steps * p
    <2>1. b1 * Steps + b2 * Steps + b3 * Steps = Whole * Steps  BY SMT
    <2> DEFINE x == b1 * Steps
               y == b2 * Steps
               z == b3 * Steps
    <2>2. x \in Nat /\ y \in Nat /\ z \in Nat  BY SMT
    <2> HIDE DEF x, y, z, p
    <2>3. x * p + y * p + z * p = (x + y + z) * p  BY <2>2, <1>0, SMT
    <2>4. QED  BY <2>1, <2>3 DEF x, y, z
  <1>3. M(s1) + M(s2) + M(s3) = a * p
    <2> DEFINE x == s1 * MaxTilt
               y == s2 * MaxTilt
               z == s3 * MaxTilt
    <2>1. x + y + z = a /\ x \in Nat /\ y \in Nat /\ z \in Nat  BY SMT
    <2> HIDE DEF x, y, z, p
    <2>2. x * p + y * p + z * p = (x + y + z) * p  BY <2>1, <1>0, SMT
    <2>3. QED  BY <2>1, <2>2 DEF x, y, z
  <1>4. aw1 + aw2 + aw3 = a * p  BY SMT
  \* any two layers are tilted up by no more than half of the whole
  <1>5. /\ 2 * (M(s1) + M(s2)) <= Whole * Steps * p
        /\ 2 * (M(s1) + M(s3)) <= Whole * Steps * p
        /\ 2 * (M(s2) + M(s3)) <= Whole * Steps * p
    <2>1. ASSUME NEW s \in 0..Steps
          PROVE  4 * M(s) <= Whole * Steps * p
      <3>1. s * MaxTilt \in Nat /\ Steps * MaxTilt \in Nat /\ Whole * Steps \in Nat  BY SMT
      <3>2. s * MaxTilt <= Steps * MaxTilt  BY TimesGrows
      <3>3. (4 * MaxTilt) * Steps <= Whole * Steps
        <4>1. 4 * MaxTilt \in Int /\ Whole \in Int /\ Steps \in Nat  BY SMT
        <4>2. QED  BY <4>1, TimesGrows
      <3>4. 4 * (s * MaxTilt) <= Whole * Steps  BY <3>1, <3>2, <3>3, SMT
      <3>5. 4 * (s * MaxTilt) \in Int /\ Whole * Steps \in Int  BY <3>1, SMT
      <3> HIDE DEF p
      <3>6. (4 * (s * MaxTilt)) * p <= (Whole * Steps) * p  BY <3>4, <3>5, <1>0, TimesGrows
      <3>7. (4 * (s * MaxTilt)) * p = 4 * M(s)  BY <3>1, <1>0, SMT
      <3>8. QED  BY <3>6, <3>7
    <2>2. /\ 4 * M(s1) <= Whole * Steps * p
          /\ 4 * M(s2) <= Whole * Steps * p
          /\ 4 * M(s3) <= Whole * Steps * p
      BY <2>1
    <2>3. Whole * Steps * p \in Int
      <3>1. Whole * Steps \in Int  BY SMT
      <3>2. QED  BY <3>1, <1>0, SMT
    <2> HIDE DEF M
    <2> DEFINE k == Whole * Steps * p
    <2> HIDE DEF k
    <2>4. k \in Int /\ 4 * M(s1) <= k /\ 4 * M(s2) <= k /\ 4 * M(s3) <= k  BY <2>2, <2>3 DEF k
    <2>5. /\ 2 * (M(s1) + M(s2)) <= k /\ 2 * (M(s1) + M(s3)) <= k
          /\ 2 * (M(s2) + M(s3)) <= k
      BY <2>4, <1>1, SMT
    <2>6. QED  BY <2>5 DEF k
  <1>6. ASSUME NEW b \in Nat, NEW s \in 0..Steps, NEW w \in Nat
        PROVE  T(b, s, w) = IF 2 * (B(b) + M(s) - a * w) < B(b) THEN B(b)
                            ELSE 2 * (B(b) + M(s) - a * w)
    <2>1. b * Steps \in Nat /\ s * MaxTilt \in Nat /\ a * w \in Nat  BY SMT
    <2>2. (b * Steps + s * MaxTilt) * p = B(b) + M(s)
      <3> HIDE DEF p
      <3>1. QED  BY <2>1, <1>0, SMT
    <2>3. T(b, s, w) = LET tilted == 2 * ((b * Steps + s * MaxTilt) * p - a * w)
                           floor  == b * Steps * p
                       IN  IF tilted < floor THEN floor ELSE tilted
      BY Zenon DEF Target
    <2> DEFINE x == (b * Steps + s * MaxTilt) * p
               y == B(b) + M(s)
               f == B(b)
               aw == a * w
    <2>4. T(b, s, w) = IF 2 * (x - aw) < f THEN f ELSE 2 * (x - aw)
      BY <2>3
    <2>5. x = y  BY <2>2
    <2> HIDE DEF x
    <2>6. T(b, s, w) = IF 2 * (y - aw) < f THEN f ELSE 2 * (y - aw)
      BY <2>4, <2>5, Zenon
    <2>7. QED  BY <2>6
  <1> DEFINE k == Whole * Steps * p
             m1 == M(s1)
             m2 == M(s2)
             m3 == M(s3)
             v1 == B(b1)
             v2 == B(b2)
             v3 == B(b3)
             t1 == T(b1, s1, w1)
             t2 == T(b2, s2, w2)
             t3 == T(b3, s3, w3)
  <1>7. /\ t1 = IF 2 * (v1 + m1 - aw1) < v1 THEN v1 ELSE 2 * (v1 + m1 - aw1)
        /\ t2 = IF 2 * (v2 + m2 - aw2) < v2 THEN v2 ELSE 2 * (v2 + m2 - aw2)
        /\ t3 = IF 2 * (v3 + m3 - aw3) < v3 THEN v3 ELSE 2 * (v3 + m3 - aw3)
    BY <1>6
  <1>8. /\ v1 + v2 + v3 = k /\ m1 + m2 + m3 = aw1 + aw2 + aw3
        /\ 2 * (m1 + m2) <= k /\ 2 * (m1 + m3) <= k /\ 2 * (m2 + m3) <= k
    BY <1>2, <1>3, <1>4, <1>5
  <1> HIDE DEF k, m1, m2, m3, v1, v2, v3, t1, t2, t3, aw1, aw2, aw3, p, B, M, T
  <1>9. /\ v1 \in Nat /\ v2 \in Nat /\ v3 \in Nat
        /\ m1 \in Nat /\ m2 \in Nat /\ m3 \in Nat
        /\ aw1 \in Nat /\ aw2 \in Nat /\ aw3 \in Nat
    BY <1>1 DEF v1, v2, v3, m1, m2, m3
  <1>10. 2 * k <= t1 + t2 + t3 /\ t1 + t2 + t3 <= 3 * k
    BY <1>7, <1>8, <1>9, SMT
  <1>11. QED  BY <1>10 DEF k, t1, t2, t3, T, p

(* The share of one layer after the normalisation, against its base. *)
LEMMA ShareBounds ==
    ASSUME NEW b \in Nat, NEW s \in 0..Steps, NEW p \in Nat,
           NEW target \in Nat, NEW sum \in Nat,
           b * Steps * p <= target,
           target <= 2 * ((b * Steps + s * MaxTilt) * p),
           2 * (Whole * Steps * p) <= sum, sum <= 3 * (Whole * Steps * p)
    PROVE  /\ target * Whole <= (b + MaxTilt) * sum
           /\ 3 * (target * Whole) >= b * sum
           /\ 10 * s <= Steps => 10 * (target * Whole) <= (10 * b + MaxTilt) * sum
  <1> USE AllocatorAssumption
  <1> DEFINE pw  == p * Whole
             spw == Steps * pw
  <1>1. pw \in Nat /\ spw \in Nat
    <2>1. pw \in Nat  BY SMT
    <2>2. QED  BY <2>1, SMT
  <1>2. Whole * Steps * p = spw  BY SMT
  <1>3. \A x \in Nat : x * (2 * spw) <= x * sum /\ x * sum <= x * (3 * spw)
    <2>1. 2 * spw <= sum /\ sum <= 3 * spw  BY <1>2
    <2> HIDE DEF spw
    <2>2. 2 * spw \in Int /\ 3 * spw \in Int  BY <1>1, SMT
    <2>3. QED  BY <2>1, <2>2, TimesGrows
  <1>4. target * Whole <= 2 * ((b * Steps + s * MaxTilt) * pw)
    <2> DEFINE t == b * Steps + s * MaxTilt
    <2>1. t \in Nat
      <3>1. b * Steps \in Nat /\ s * MaxTilt \in Nat  BY SMT
      <3>2. QED  BY <3>1, SMT
    <2> HIDE DEF t
    <2>2. 2 * (t * p) \in Int  BY <2>1, SMT
    <2>3. target <= 2 * (t * p)  BY DEF t
    <2>4. target * Whole <= (2 * (t * p)) * Whole  BY <2>2, <2>3, TimesGrows
    <2>5. (2 * (t * p)) * Whole = 2 * (t * pw)  BY <2>1, SMT
    <2>6. QED  BY <2>4, <2>5 DEF t
  <1>5. s * MaxTilt <= Steps * MaxTilt  BY TimesGrows
  <1>6. (b * Steps + s * MaxTilt) * pw <= (b + MaxTilt) * spw
    <2>1. b * Steps + s * MaxTilt <= (b + MaxTilt) * Steps
      <3>1. (b + MaxTilt) * Steps = b * Steps + Steps * MaxTilt  BY SMT
      <3>2. b * Steps \in Nat /\ s * MaxTilt \in Nat /\ Steps * MaxTilt \in Nat  BY SMT
      <3>3. QED  BY <3>1, <3>2, <1>5, SMT
    <2>2. b * Steps + s * MaxTilt \in Int /\ (b + MaxTilt) * Steps \in Int
      <3>1. b * Steps \in Nat /\ s * MaxTilt \in Nat /\ b + MaxTilt \in Nat  BY SMT
      <3>2. QED  BY <3>1, SMT
    <2> HIDE DEF pw
    <2>3. (b * Steps + s * MaxTilt) * pw <= ((b + MaxTilt) * Steps) * pw
      BY <2>1, <2>2, <1>1, TimesGrows
    <2>4. ((b + MaxTilt) * Steps) * pw = (b + MaxTilt) * spw  BY <1>1, SMT
    <2>5. QED  BY <2>3, <2>4
  <1>7. target * Whole <= (b + MaxTilt) * sum
    <2>1. (b + MaxTilt) * (2 * spw) <= (b + MaxTilt) * sum
      <3>1. b + MaxTilt \in Nat  BY SMT
      <3>2. QED  BY <3>1, <1>3
    <2> DEFINE x == (b + MaxTilt) * spw
               y == (b * Steps + s * MaxTilt) * pw
               z == (b + MaxTilt) * sum
               u == target * Whole
    <2>2. (b + MaxTilt) * (2 * spw) = 2 * x
      <3> HIDE DEF spw
      <3>1. QED  BY <1>1, SMT
    <2>3. x \in Int /\ y \in Int /\ z \in Int /\ u \in Int
      <3> HIDE DEF spw, pw
      <3>1. b * Steps \in Nat /\ s * MaxTilt \in Nat /\ b + MaxTilt \in Nat  BY SMT
      <3>2. QED  BY <3>1, <1>1, SMT
    <2>4. u <= 2 * y /\ y <= x /\ 2 * x <= z  BY <1>4, <1>6, <2>1, <2>2
    <2> HIDE DEF x, y, z, u
    <2>5. u <= z  BY <2>3, <2>4, SMT
    <2>6. QED  BY <2>5 DEF u, z
  <1>8. 3 * (target * Whole) >= b * sum
    <2> DEFINE x == b * spw
               z == b * sum
               u == target * Whole
    <2>1. b * sum <= b * (3 * spw)  BY <1>3
    <2>2. b * (3 * spw) = 3 * x
      <3> HIDE DEF spw
      <3>1. QED  BY <1>1, SMT
    <2>3. x <= u
      <3>1. b * Steps * p \in Nat
        <4>1. b * Steps \in Nat  BY SMT
        <4>2. QED  BY <4>1, SMT
      <3>2. (b * Steps * p) * Whole <= target * Whole  BY <3>1, TimesGrows
      <3>3. (b * Steps * p) * Whole = x  BY SMT
      <3>4. QED  BY <3>2, <3>3
    <2>4. x \in Int /\ z \in Int /\ u \in Int
      <3> HIDE DEF spw
      <3>1. QED  BY <1>1, SMT
    <2>5. z <= 3 * x  BY <2>1, <2>2
    <2> HIDE DEF x, z, u
    <2>6. 3 * u >= z  BY <2>3, <2>4, <2>5, SMT
    <2>7. QED  BY <2>6 DEF u, z
  <1>9. ASSUME 10 * s <= Steps
        PROVE  10 * (target * Whole) <= (10 * b + MaxTilt) * sum
    <2>1. (10 * s) * MaxTilt <= Steps * MaxTilt  BY <1>9, TimesGrows
    <2>2. 10 * (b * Steps + s * MaxTilt) <= (10 * b + MaxTilt) * Steps
      <3>1. (10 * b + MaxTilt) * Steps = 10 * (b * Steps) + Steps * MaxTilt  BY SMT
      <3>2. (10 * s) * MaxTilt = 10 * (s * MaxTilt)  BY SMT
      <3>3. b * Steps \in Nat /\ s * MaxTilt \in Nat /\ Steps * MaxTilt \in Nat  BY SMT
      <3>4. QED  BY <2>1, <3>1, <3>2, <3>3, SMT
    <2>3. /\ b * Steps + s * MaxTilt \in Nat /\ 10 * b + MaxTilt \in Nat
          /\ (10 * b + MaxTilt) * Steps \in Nat
      <3>1. b * Steps \in Nat /\ s * MaxTilt \in Nat /\ 10 * b + MaxTilt \in Nat  BY SMT
      <3>2. QED  BY <3>1, SMT
    <2> DEFINE g == b * Steps + s * MaxTilt
               h == 10 * b + MaxTilt
               u == target * Whole
               z == h * sum
    <2>4. h * (2 * spw) <= z  BY <1>3, <2>3
    <2>5. u <= 2 * (g * pw)  BY <1>4
    <2>6. (10 * g) * pw <= (h * Steps) * pw
      <3>1. 10 * g <= h * Steps  BY <2>2
      <3>2. 10 * g \in Int /\ h * Steps \in Int
        <4> HIDE DEF g
        <4>1. g \in Nat /\ h * Steps \in Nat  BY <2>3 DEF g
        <4>2. QED  BY <4>1, SMT
      <3> HIDE DEF g, h, pw
      <3>3. QED  BY <3>1, <3>2, <1>1, TimesGrows
    <2>7. g \in Nat /\ h \in Nat /\ u \in Nat  BY <2>3, SMT
    <2> HIDE DEF g, h, u
    <2>8. /\ (10 * g) * pw = 10 * (g * pw) /\ (h * Steps) * pw = h * spw
          /\ h * (2 * spw) = 2 * (h * spw)
      <3> HIDE DEF pw
      <3>1. QED  BY <1>1, <2>7, SMT
    <2> DEFINE x == g * pw
               y == h * spw
    <2>9. x \in Nat /\ y \in Nat /\ z \in Nat
      <3> HIDE DEF pw, spw
      <3>1. QED  BY <1>1, <2>7, SMT
    <2>10. u <= 2 * x /\ 10 * x <= y /\ 2 * y <= z  BY <2>4, <2>5, <2>6, <2>8
    <2> HIDE DEF x, y, z
    <2>11. 10 * u <= z  BY <2>7, <2>9, <2>10, SMT
    <2>12. QED  BY <2>11 DEF u, z, h
  <1>10. QED  BY <1>7, <1>8, <1>9

(* The bounds WriteWithinBounds asks of a decision for the scores s. *)
Near(b, s, d) ==
    \A l \in Layer :
        /\ d.share[l] * Whole <= (b[l] + MaxTilt) * d.whole
        /\ 3 * (d.share[l] * Whole) >= b[l] * d.whole
        /\ 10 * s[l] <= Steps =>
              10 * (d.share[l] * Whole) <= (10 * b[l] + MaxTilt) * d.whole

(* An allocation as system_state keeps it, apart from its rationale. *)
IsDecision(d) ==
    /\ d.share \in [Layer -> Nat]
    /\ d.whole \in Nat \ {0}
    /\ d.whole = Total(d.share)

(* The base itself, when no layer has a score or all have the highest. *)
LEMMA BaseIsNear ==
    ASSUME NEW b \in [Layer -> Nat], NEW s \in Scores, Accepts(b)
    PROVE  IsDecision(Decision(b)) /\ Near(b, s, Decision(b))
  <1> USE AllocatorAssumption
  <1>1. Total(b) = Whole  BY DEF Accepts
  <1>2. Decision(b).share = b /\ Decision(b).whole = Whole  BY <1>1 DEF Decision
  <1>3. IsDecision(Decision(b))  BY <1>1, <1>2 DEF IsDecision
  <1>4. ASSUME NEW n \in Nat
        PROVE  /\ n * Whole <= (n + MaxTilt) * Whole
               /\ 3 * (n * Whole) >= n * Whole
               /\ 10 * (n * Whole) <= (10 * n + MaxTilt) * Whole
    <2>1. n * Whole \in Nat /\ MaxTilt * Whole \in Nat  BY SMT
    <2>2. /\ (n + MaxTilt) * Whole = n * Whole + MaxTilt * Whole
          /\ (10 * n + MaxTilt) * Whole = 10 * (n * Whole) + MaxTilt * Whole
      BY SMT
    <2>3. QED  BY <2>1, <2>2, SMT
  <1>5. Near(b, s, Decision(b))
    <2> SUFFICES ASSUME NEW l \in Layer
                 PROVE  /\ b[l] * Whole <= (b[l] + MaxTilt) * Whole
                        /\ 3 * (b[l] * Whole) >= b[l] * Whole
                        /\ 10 * (b[l] * Whole) <= (10 * b[l] + MaxTilt) * Whole
      BY <1>2 DEF Near
    <2>1. QED  BY <1>4
  <1>6. QED  BY <1>3, <1>5

(* Fund weights and pool are natural numbers. *)
LEMMA FundTyped ==
    ASSUME NEW b \in [Layer -> Nat], NEW s \in Scores
    PROVE  /\ FundWeight(b, s) \in [Layer -> Nat]
           /\ Total(FundWeight(b, s)) \in Nat
  <1>1. \A l \in Layer : b[l] * (Steps - s[l]) \in Nat
    <2> TAKE l \in Layer
    <2>1. b[l] \in Nat /\ Steps - s[l] \in Nat  BY AllocatorAssumption, SMT DEF Scores
    <2>2. QED  BY <2>1, SMT
  <1>2. FundWeight(b, s) \in [Layer -> Nat]  BY <1>1 DEF FundWeight
  <1>3. "l1_funding" \in Layer /\ "l2_cascade" \in Layer /\ "l3_tail" \in Layer  BY DEF Layer
  <1>4. QED  BY <1>2, <1>3, SMT DEF Total

(* The floored targets, normalised. *)
LEMMA TargetsAreNear ==
    ASSUME NEW b \in [Layer -> Nat], NEW s \in Scores, NEW w \in [Layer -> Nat],
           NEW p \in Nat \ {0}, NEW a \in Nat, NEW f,
           Total(b) = Whole, 4 * MaxTilt <= Whole,
           p = Total(w), a = MaxTilt * Total(s),
           f = [l \in Layer |-> Target(b[l], s[l], w[l], p, a)]
    PROVE  IsDecision(Decision(f)) /\ Near(b, s, Decision(f))
  <1>1. "l1_funding" \in Layer /\ "l2_cascade" \in Layer /\ "l3_tail" \in Layer
    BY DEF Layer
  <1>2. \A l \in Layer : b[l] \in Nat /\ s[l] \in 0..Steps /\ w[l] \in Nat
    BY DEF Scores
  <1>3. \A l \in Layer : f[l] = Target(b[l], s[l], w[l], p, a)
    OBVIOUS
  <1>4. \A l \in Layer :
           /\ f[l] \in Nat
           /\ b[l] * Steps * p <= f[l]
           /\ f[l] <= 2 * ((b[l] * Steps + s[l] * MaxTilt) * p)
    <2> TAKE l \in Layer
    <2>1. b[l] \in Nat /\ s[l] \in 0..Steps /\ w[l] \in Nat /\ p \in Nat  BY <1>2
    <2>2. /\ Target(b[l], s[l], w[l], p, a) \in Nat
          /\ Target(b[l], s[l], w[l], p, a) >= b[l] * Steps * p
          /\ Target(b[l], s[l], w[l], p, a)
                <= 2 * ((b[l] * Steps + s[l] * MaxTilt) * p)
      BY <2>1, TargetBounds, Zenon
    <2>3. f[l] = Target(b[l], s[l], w[l], p, a)  BY <1>3
    <2> DEFINE t == Target(b[l], s[l], w[l], p, a)
               x == b[l] * Steps * p
    <2>4. x \in Nat
      <3>1. b[l] * Steps \in Nat  BY <2>1, AllocatorAssumption, SMT
      <3>2. QED  BY <3>1, SMT
    <2> HIDE DEF t, x
    <2>5. t \in Nat /\ t >= x  BY <2>2 DEF t, x
    <2>6. x <= t  BY <2>4, <2>5, SMT
    <2>7. QED  BY <2>2, <2>3, <2>6 DEF t, x
  <1>5. f \in [Layer -> Nat]  BY <1>4
  <1>6. Total(f) = f["l1_funding"] + f["l2_cascade"] + f["l3_tail"]  BY DEF Total
  <1>7. 2 * (Whole * Steps * p) <= Total(f) /\ Total(f) <= 3 * (Whole * Steps * p)
    <2>1. b["l1_funding"] + b["l2_cascade"] + b["l3_tail"] = Whole  BY DEF Total
    <2>2. a = MaxTilt * (s["l1_funding"] + s["l2_cascade"] + s["l3_tail"])  BY DEF Total
    <2>3. p = w["l1_funding"] + w["l2_cascade"] + w["l3_tail"]  BY DEF Total
    <2>4. Total(f) = Target(b["l1_funding"], s["l1_funding"], w["l1_funding"], p, a)
                       + Target(b["l2_cascade"], s["l2_cascade"], w["l2_cascade"], p, a)
                       + Target(b["l3_tail"], s["l3_tail"], w["l3_tail"], p, a)
      BY <1>1, <1>3, <1>6
    <2>5. LET q   == w["l1_funding"] + w["l2_cascade"] + w["l3_tail"]
              sum == Target(b["l1_funding"], s["l1_funding"], w["l1_funding"], q, a)
                       + Target(b["l2_cascade"], s["l2_cascade"], w["l2_cascade"], q, a)
                       + Target(b["l3_tail"], s["l3_tail"], w["l3_tail"], q, a)
          IN  2 * (Whole * Steps * q) <= sum /\ sum <= 3 * (Whole * Steps * q)
      BY <1>1, <1>2, <2>1, <2>2, SumBounds, Zenon
    <2>6. QED  BY <2>3, <2>4, <2>5, Zenon
  <1>8. Total(f) \in Nat \ {0}
    <2>1. Whole * Steps \in Nat \ {0}  BY AllocatorAssumption, SMT
    <2>2. Whole * Steps * p > 0 /\ Whole * Steps * p \in Nat  BY <2>1, SMT
    <2>3. Total(f) \in Nat  BY <1>1, <1>5, <1>6, SMT
    <2>4. QED  BY <1>7, <2>2, <2>3, SMT
  <1>9. Decision(f).share = f /\ Decision(f).whole = Total(f)  BY Zenon DEF Decision
  <1>10. IsDecision(Decision(f))  BY <1>5, <1>8, <1>9, Zenon DEF IsDecision
  <1>11. Near(b, s, Decision(f))
    <2> SUFFICES ASSUME NEW l \in Layer
                 PROVE  /\ f[l] * Whole <= (b[l] + MaxTilt) * Total(f)
                        /\ 3 * (f[l] * Whole) >= b[l] * Total(f)
                        /\ 10 * s[l] <= Steps =>
                              10 * (f[l] * Whole) <= (10 * b[l] + MaxTilt) * Total(f)
      BY <1>9, Zenon DEF Near
    <2>1. /\ b[l] \in Nat /\ s[l] \in 0..Steps /\ f[l] \in Nat
          /\ Total(f) \in Nat /\ p \in Nat
      BY <1>2, <1>5, <1>8
    <2>2. b[l] * Steps * p <= f[l] /\ f[l] <= 2 * ((b[l] * Steps + s[l] * MaxTilt) * p)
      BY <1>4
    <2>3. QED  BY <2>1, <2>2, <1>7, ShareBounds, Zenon
  <1>12. QED  BY <1>10, <1>11

(***************************************************************************)
(* compute_target_allocation: the mix adds up, stays within max_tilt of    *)
(* the base above and a third of it below, and a layer hardly gains unless *)
(* its score is above a tenth.                                             *)
(***************************************************************************)
LEMMA ComputeIsNear ==
    ASSUME NEW b \in [Layer -> Nat], NEW s \in Scores, Accepts(b),
           4 * MaxTilt <= Whole
    PROVE  LET d == ComputeTargetAllocation(b, s)
           IN  IsDecision(d) /\ Near(b, s, d)
  <1> USE AllocatorAssumption
  <1> DEFINE w == FundWeight(b, s)
             p == Total(w)
             a == MaxTilt * Total(s)
             f == Floored(b, s)
  <1>1. CASE Total(s) = 0 \/ p = 0
    BY <1>1, BaseIsNear, Zenon DEF ComputeTargetAllocation
  <1>2. CASE ~(Total(s) = 0 \/ p = 0)
    <2>1. ComputeTargetAllocation(b, s) = Decision(f)
      BY <1>2, Zenon DEF ComputeTargetAllocation
    <2>2. w \in [Layer -> Nat] /\ p \in Nat \ {0}  BY <1>2, FundTyped
    <2>3. a \in Nat
      <3>1. "l1_funding" \in Layer /\ "l2_cascade" \in Layer /\ "l3_tail" \in Layer
        BY DEF Layer
      <3>2. Total(s) \in Nat  BY <3>1, SMT DEF Total, Scores
      <3>3. QED  BY <3>2, SMT
    <2>4. f = [l \in Layer |-> Target(b[l], s[l], w[l], p, a)]
      BY Zenon DEF Floored, Tilted, Target
    <2>5. IsDecision(Decision(f)) /\ Near(b, s, Decision(f))
      BY <2>2, <2>3, <2>4, TargetsAreNear, Zenon DEF Accepts
    <2>6. QED  BY <2>1, <2>5, Zenon
  <1>3. QED  BY <1>1, <1>2

-----------------------------------------------------------------------------
(* The cascade score *)

(* A clamped value lies between its limits. *)
LEMMA BetweenBounds ==
    ASSUME NEW v \in Int, NEW lo \in Int, NEW hi \in Int, lo <= hi
    PROVE  Between(v, lo, hi) \in lo..hi
  BY SMT DEF Between

(* The same with the ramps: at of n observations are at or below the present. *)
LEMMA RampBounds ==
    ASSUME NEW n \in Nat \ {0}, NEW at \in 0..n, NEW rate \in Int, NEW ratio \in Int
    PROVE  LET score == Weighed(n, Between(100 * at - 70 * n, 0, 25 * n),
                                   Between(rate, 0, 10), Between(10 - ratio, 0, 7))
           IN  /\ score.num \in Nat /\ score.den \in Nat \ {0}
               /\ score.num <= score.den
               /\ Triggers(score) => 4 * at >= 3 * n
  <1>0. 100 * at - 70 * n \in Int /\ 25 * n \in Nat /\ 10 - ratio \in Int  BY SMT
  <1>1. PICK v \in Int : v = 100 * at - 70 * n  BY <1>0, Zenon
  <1>2. PICK hi \in Nat : hi = 25 * n  BY <1>0, Zenon
  <1>3. PICK u \in Int : u = 10 - ratio  BY <1>0, Zenon
  <1>4. 0 \in Int /\ 7 \in Int /\ 10 \in Int /\ hi \in Int
        /\ 0 <= hi /\ 0 <= 7 /\ 0 <= 10
    BY SMT
  <1>5. PICK x \in 0..hi : x = Between(v, 0, hi)  BY <1>4, BetweenBounds
  <1>6. PICK y \in 0..10 : y = Between(rate, 0, 10)  BY <1>4, BetweenBounds
  <1>7. PICK z \in 0..7 : z = Between(u, 0, 7)  BY <1>4, BetweenBounds
  <1>8. /\ Weighed(n, x, y, z).num \in Nat /\ Weighed(n, x, y, z).den \in Nat \ {0}
        /\ Weighed(n, x, y, z).num <= Weighed(n, x, y, z).den
        /\ Triggers(Weighed(n, x, y, z)) => 3850 * x >= 26250 * n
    <2>1. y * n \in Nat /\ z * n \in Nat /\ y * n <= 10 * n /\ z * n <= 7 * n
      <3>1. y \in Int /\ z \in Int /\ y <= 10 /\ z <= 7 /\ n \in Nat  BY SMT
      <3>2. y * n <= 10 * n /\ z * n <= 7 * n  BY <3>1, TimesGrows
      <3>3. QED  BY <3>2, SMT
    <2>2. PICK yn \in Nat, zn \in Nat : yn = y * n /\ zn = z * n  BY <2>1, Zenon
    <2>3. /\ 55 * x * 70 = 3850 * x
          /\ 20 * y * 7 * 25 * n = 3500 * yn
          /\ 25 * z * 10 * 25 * n = 6250 * zn
          /\ 100 * 25 * n * 70 = 175000 * n
      BY <2>2, SMT
    <2>4. /\ Weighed(n, x, y, z).num
               = 55 * x * 70 + 20 * y * 7 * 25 * n + 25 * z * 10 * 25 * n
          /\ Weighed(n, x, y, z).den = 100 * 25 * n * 70
      BY Zenon DEF Weighed
    <2> DEFINE num == 3850 * x + 3500 * yn + 6250 * zn
               den == 175000 * n
    <2>5. num = Weighed(n, x, y, z).num /\ den = Weighed(n, x, y, z).den
      BY <2>3, <2>4
    <2>6. num \in Nat /\ den \in Nat \ {0} /\ num <= den
          /\ (100 * num >= 60 * den => 3850 * x >= 26250 * n)
      BY <1>2, <2>1, <2>2, SMT
    <2>7. QED  BY <2>5, <2>6 DEF Triggers
  <1>9. 3850 * x >= 26250 * n => 4 * at >= 3 * n
    BY <1>1, <1>2, <1>5, SMT DEF Between
  <1>10. Weighed(n, Between(100 * at - 70 * n, 0, 25 * n),
                    Between(rate, 0, 10), Between(10 - ratio, 0, 7)) = Weighed(n, x, y, z)
    BY <1>1, <1>2, <1>3, <1>5, <1>6, <1>7, Zenon
  <1>11. QED  BY <1>8, <1>9, <1>10

(* The score over a finite history: its bounds, and what a trigger means. *)
LEMMA CascadeBounds ==
    ASSUME NEW rows, IsFiniteSet(rows), Cardinality(rows) # 0,
           NEW reading \in Reading \ {NULL}
    PROVE  LET score == CascadeProbability(rows, reading)
           IN  /\ score.num \in Nat /\ score.den \in Nat \ {0}
               /\ score.num <= score.den
               /\ Triggers(score) =>
                     4 * AtOrBelow(rows, reading.oi) >= 3 * Cardinality(rows)
  <1>1. PICK n \in Nat \ {0} : n = Cardinality(rows)  BY FS_CardinalityType
  <1>2. PICK at \in 0..n : at = AtOrBelow(rows, reading.oi)
    <2> DEFINE low == {r \in rows : r.oi <= reading.oi}
    <2>1. low \subseteq rows  OBVIOUS
    <2>2. IsFiniteSet(low) /\ Cardinality(low) <= Cardinality(rows)  BY <2>1, FS_Subset
    <2>3. Cardinality(low) \in Nat  BY <2>2, FS_CardinalityType
    <2>4. AtOrBelow(rows, reading.oi) = Cardinality(low)  BY DEF AtOrBelow
    <2> HIDE DEF low
    <2>5. QED  BY <1>1, <2>2, <2>3, <2>4, SMT
  <1>3. reading.rate \in Int /\ reading.ratio \in Int
    <2>1. reading \in [oi : OI, rate : Rate, ratio : Ratio]  BY DEF Reading
    <2>2. reading.rate \in Rate /\ reading.ratio \in Ratio  BY <2>1
    <2>3. Rate \subseteq Int /\ Ratio \subseteq Nat  BY OISignalAssumption
    <2>4. reading.rate \in Int /\ reading.ratio \in Nat  BY <2>2, <2>3
    <2>5. QED  BY <2>4, SMT
  <1>4. CascadeProbability(rows, reading) =
            Weighed(n, Between(100 * at - 70 * n, 0, 25 * n),
                       Between(reading.rate, 0, 10), Between(10 - reading.ratio, 0, 7))
    BY <1>1, <1>2, Zenon DEF CascadeProbability
  <1>5. PICK rate \in Int : rate = reading.rate  BY <1>3, Zenon
  <1>6. PICK ratio \in Int : ratio = reading.ratio  BY <1>3, Zenon
  <1>7. LET score == Weighed(n, Between(100 * at - 70 * n, 0, 25 * n),
                                Between(rate, 0, 10), Between(10 - ratio, 0, 7))
        IN  /\ score.num \in Nat /\ score.den \in Nat \ {0}
            /\ score.num <= score.den
            /\ Triggers(score) => 4 * at >= 3 * n
    BY RampBounds, Zenon
  <1>8. QED  BY <1>1, <1>2, <1>4, <1>5, <1>6, <1>7, Zenon

(* Of a symbol: the history the signal reads is finite if the table is. *)
LEMMA ScoreBounds ==
    ASSUME NEW s \in Symbol, IsFiniteSet(oi_observation[s]), NEW reading \in Reading
    PROVE  /\ Score(s, reading).num \in Nat /\ Score(s, reading).den \in Nat \ {0}
           /\ Score(s, reading).num <= Score(s, reading).den
           /\ reading # NULL /\ Triggers(Score(s, reading)) =>
                 /\ Cardinality(History(s)) >= MinHistory
                 /\ 4 * AtOrBelow(History(s), reading.oi) >= 3 * Cardinality(History(s))
  <1> DEFINE rows == History(s)
  <1>1. IsFiniteSet(rows)
    <2>1. rows \subseteq oi_observation[s]  BY DEF History
    <2>2. QED  BY <2>1, FS_Subset
  <1>2. Cardinality(rows) \in Nat  BY <1>1, FS_CardinalityType
  <1>3. CASE Cardinality(rows) < MinHistory \/ reading = NULL
    <2>1. Score(s, reading) = ColdScore  BY <1>3, Zenon DEF Score
    <2>2. ColdScore.num = 0 /\ ColdScore.den = 1  BY DEF ColdScore
    <2>3. ~Triggers(ColdScore)  BY <2>2, SMT DEF Triggers
    <2>4. QED  BY <2>1, <2>2, <2>3, SMT
  <1>4. CASE ~(Cardinality(rows) < MinHistory \/ reading = NULL)
    <2>1. Score(s, reading) = CascadeProbability(rows, reading)  BY <1>4, Zenon DEF Score
    <2> HIDE DEF rows
    <2>2. Cardinality(rows) # 0 /\ Cardinality(rows) >= MinHistory
      BY <1>2, <1>4, OISignalAssumption, SMT
    <2>3. reading \in Reading \ {NULL}  BY <1>4
    <2> DEFINE score == CascadeProbability(rows, reading)
    <2>4. /\ score.num \in Nat /\ score.den \in Nat \ {0} /\ score.num <= score.den
          /\ Triggers(score) => 4 * AtOrBelow(rows, reading.oi) >= 3 * Cardinality(rows)
      BY <1>1, <2>2, <2>3, CascadeBounds, Zenon
    <2>5. QED  BY <2>1, <2>2, <2>4, Zenon DEF rows
  <1>5. QED  BY <1>3, <1>4

-----------------------------------------------------------------------------
(* The table *)

Row == [age : 0..OldAge, oi : OI]

(* No symbol has infinitely many rows, so that they can be counted. *)
FiniteRows == \A s \in Symbol : IsFiniteSet(oi_observation[s])

(* The ages the table tells apart, and the window among them. *)
LEMMA AgeBounds ==
    OldAge \in Nat /\ 0 < OldAge /\ WindowHours < OldAge
  <1>1. PruneDays * TicksPerDay \in Nat  BY OISignalAssumption, SMT
  <1>2. PICK days \in Nat : days = PruneDays * TicksPerDay  BY <1>1, Zenon
  <1>3. OldAge = days + 1  BY <1>2, Zenon DEF OldAge
  <1>4. WindowHours <= days /\ WindowHours \in Nat  BY <1>2, OISignalAssumption
  <1>5. QED  BY <1>3, <1>4, SMT

(* An observation adds at most a row to a symbol, and takes none away. *)
LEMMA ReadingsAdd ==
    ASSUME OITypeOK, FiniteRows, NEW readings \in Readings
    PROVE  /\ WithReadings(readings) \in [Symbol -> SUBSET Row]
           /\ \A s \in Symbol : /\ IsFiniteSet(WithReadings(readings)[s])
                                /\ oi_observation[s] \subseteq WithReadings(readings)[s]
  <1> SUFFICES ASSUME NEW s \in Symbol
               PROVE  LET rows == oi_observation[s] \cup
                              IF s \in DOMAIN readings
                              THEN {[age |-> 0, oi |-> readings[s]]} ELSE {}
                      IN  /\ rows \in SUBSET Row
                          /\ IsFiniteSet(rows)
                          /\ oi_observation[s] \subseteq rows
    BY DEF WithReadings
  <1>1. oi_observation[s] \in SUBSET Row /\ IsFiniteSet(oi_observation[s])
    BY DEF OITypeOK, Row, FiniteRows
  <1>2. CASE s \in DOMAIN readings
    <2>1. readings[s] \in OI  BY <1>2 DEF Readings
    <2>2. 0 \in 0..OldAge  BY AgeBounds, SMT
    <2>3. [age |-> 0, oi |-> readings[s]] \in Row  BY <2>1, <2>2 DEF Row
    <2>4. IsFiniteSet(oi_observation[s] \cup {[age |-> 0, oi |-> readings[s]]})
      BY <1>1, FS_AddElement
    <2>5. QED  BY <1>1, <1>2, <2>3, <2>4
  <1>3. CASE s \notin DOMAIN readings
    BY <1>1, <1>3
  <1>4. QED  BY <1>2, <1>3

(* Rows age together; those past every limit are told apart by their oi. *)
LEMMA AgeTyped ==
    ASSUME NEW rows \in SUBSET Row, IsFiniteSet(rows)
    PROVE  Age(rows, 1) \in SUBSET Row /\ IsFiniteSet(Age(rows, 1))
  <1> DEFINE older(r) == [r EXCEPT !.age = IF @ + 1 < OldAge THEN @ + 1 ELSE OldAge]
             f == [r \in rows |-> older(r)]
             aged == {older(r) : r \in rows}
  <1>1. Age(rows, 1) = aged  BY DEF Age
  <1>2. \A r \in rows : older(r) \in Row
    <2> TAKE r \in rows
    <2>1. r \in Row /\ r.age \in 0..OldAge  BY DEF Row
    <2>2. (IF r.age + 1 < OldAge THEN r.age + 1 ELSE OldAge) \in 0..OldAge
      BY <2>1, AgeBounds, SMT
    <2>3. QED  BY <2>1, <2>2 DEF Row
  <1>3. f \in Surjection(rows, aged)  BY DEF Surjection
  <1>4. IsFiniteSet(aged)  BY <1>3, FS_Surjection
  <1>5. QED  BY <1>1, <1>2, <1>4

-----------------------------------------------------------------------------
(* The scores the allocator is given *)

(* A fraction of at most one, in whole steps. *)
LEMMA FractionInSteps ==
    ASSUME NEW num \in Nat, NEW den \in Nat \ {0}, num <= den
    PROVE  (num * Steps) \div den \in 0..Steps
  <1> USE AllocatorAssumption
  <1>1. num * Steps \in Nat  BY SMT
  <1>2. PICK n \in Nat : n = num * Steps  BY <1>1, Zenon
  <1>3. num * Steps <= den * Steps  BY TimesGrows
  <1>4. n \div den \in Nat /\ n \div den <= Steps
    <2>1. n <= den * Steps  BY <1>2, <1>3
    <2>2. n \div den \in Nat  BY SMT
    <2>3. n \div den <= Steps  BY <2>1, SMT
    <2>4. QED  BY <2>2, <2>3
  <1>5. (num * Steps) \div den \in Nat /\ (num * Steps) \div den <= Steps
    BY <1>2, <1>4, Zenon
  <1>6. QED  BY <1>5, SMT

(* Whatever the exchanges answer, every layer's score is in range. *)
LEMMA SignalsAreScores ==
    ASSUME FiniteRows
    PROVE  Signals \subseteq Scores
  <1> USE AllocatorAssumption
  <1>1. 0 \in 0..Steps  BY SMT
  <1>2. \A v \in Int : Clamp(v, 0, Steps) \in 0..Steps  BY SMT DEF Clamp
  <1>3. L1Signals \subseteq 0..Steps
    <2>1. ASSUME NEW apr \in AprSeen
          PROVE  L1Score(apr) \in 0..Steps
      <3>1. apr * Steps \in Int  BY AllocatorExecutorAssumption, SMT
      <3>2. (apr * Steps) \div 50 \in Int  BY <3>1, SMT
      <3>3. QED  BY <1>2, <3>2 DEF L1Score
    <2>2. QED  BY <1>1, <2>1 DEF L1Signals
  <1>4. L3Signals \subseteq 0..Steps
    <2>1. ASSUME NEW iv \in IvSeen
          PROVE  L3Score(iv) \in 0..Steps
      <3>1. (iv - 6) * Steps \in Int  BY AllocatorExecutorAssumption, SMT
      <3>2. ((iv - 6) * Steps) \div 14 \in Int  BY <3>1, SMT
      <3>3. QED  BY <1>2, <3>2 DEF L3Score
    <2>2. QED  BY <1>1, <2>1 DEF L3Signals
  <1>5. L2Signals \subseteq 0..Steps
    <2>1. ASSUME NEW s \in Symbol, NEW reading \in Reading
          PROVE  InSteps(Score(s, reading)) \in 0..Steps
      <3>1. /\ Score(s, reading).num \in Nat /\ Score(s, reading).den \in Nat \ {0}
            /\ Score(s, reading).num <= Score(s, reading).den
        BY ScoreBounds DEF FiniteRows
      <3>2. QED  BY <3>1, FractionInSteps DEF InSteps
    <2>2. QED  BY <2>1 DEF L2Signals
  <1>6. QED  BY <1>3, <1>4, <1>5 DEF Signals, Scores, Layer

(* What one write puts into system_state, for settings that were accepted. *)
LEMMA DecisionIsNear ==
    ASSUME TypeOK, FiniteRows, Accepts(base), NEW s \in Signals
    PROVE  LET d == ComputeTargetAllocation(base, s)
           IN  IsDecision(d) /\ Near(base, s, d)
  <1>1. base \in [Layer -> Nat] /\ 4 * MaxTilt <= Whole
    BY AllocatorExecutorAssumption DEF TypeOK
  <1>2. s \in Scores  BY SignalsAreScores
  <1>3. QED  BY <1>1, <1>2, ComputeIsNear

-----------------------------------------------------------------------------
(* The steps *)

(* The inductive invariant: the types need the rows to be countable. *)
IInv == TypeOK /\ FiniteRows

LEMMA InitIInv == Init => IInv
  <1> SUFFICES ASSUME Init PROVE IInv  OBVIOUS
  <1>1. \A s \in Symbol : oi_observation[s] = {}  BY DEF Init, OIInit
  <1>2. FiniteRows  BY <1>1, FS_EmptySet DEF FiniteRows
  <1>3. OITypeOK
    <2>1. oi_observation \in [Symbol -> SUBSET [age : 0..OldAge, oi : OI]]
      BY DEF Init, OIInit
    <2>2. prune_count \in 0..(PruneEvery - 1)  BY OISignalAssumption, SMT DEF Init, OIInit
    <2>3. QED  BY <2>1, <2>2 DEF OITypeOK
  <1>4. alloc_count \in 0..(RecomputeEvery - 1)
    BY AllocatorExecutorAssumption, SMT DEF Init
  <1>5. boot \in 0..1  BY SMT DEF Init
  <1>6. QED  BY <1>2, <1>3, <1>4, <1>5 DEF Init, IInv, TypeOK, Turn

(* The observer's turn: a row more, and perhaps the old ones gone. *)
LEMMA ObserverKeepsIInv ==
    ASSUME IInv, ObserverTurn \/ ObserverTurnPrunes
    PROVE  IInv'
  <1> USE DEF IInv
  <1>1. PICK readings \in Readings :
            \/ Observe(readings)
            \/ ObserveAndPrune(readings)
    BY DEF ObserverTurn, ObserverTurnPrunes
  <1> DEFINE table == WithReadings(readings)
  <1>2. /\ table \in [Symbol -> SUBSET Row]
        /\ \A s \in Symbol : IsFiniteSet(table[s])
    BY <1>1, ReadingsAdd DEF TypeOK
  <1>3. /\ turn' = "allocator"
        /\ UNCHANGED <<boot, base, alloc_count, dynamic>>
    BY DEF ObserverTurn, ObserverTurnPrunes
  <1>4. prune_count \in Nat /\ PruneEvery \in Nat \ {0}
    BY OISignalAssumption, SMT DEF TypeOK, OITypeOK
  <1>5. CASE Observe(readings)
    <2>1. oi_observation' = table  BY <1>5 DEF Observe
    <2>2. prune_count' \in 0..(PruneEvery - 1)  BY <1>4, <1>5, SMT DEF Observe
    <2> HIDE DEF table
    <2>3. OITypeOK'  BY <1>2, <2>1, <2>2 DEF OITypeOK, Row
    <2>4. FiniteRows'  BY <1>2, <2>1 DEF FiniteRows
    <2>5. QED  BY <1>3, <2>3, <2>4 DEF TypeOK, Turn
  <1>6. CASE ObserveAndPrune(readings)
    <2>1. oi_observation' = [s \in Symbol |-> Retained(table[s])]
      BY <1>6 DEF ObserveAndPrune
    <2>2. prune_count' \in 0..(PruneEvery - 1)
      BY <1>4, <1>6, SMT DEF ObserveAndPrune
    <2> HIDE DEF table
    <2>3. \A s \in Symbol : Retained(table[s]) \subseteq table[s]  BY DEF Retained
    <2>4. oi_observation' \in [Symbol -> SUBSET Row]  BY <1>2, <2>1, <2>3
    <2>5. \A s \in Symbol : IsFiniteSet(oi_observation'[s])
      BY <1>2, <2>1, <2>3, FS_Subset
    <2>6. OITypeOK'  BY <2>2, <2>4 DEF OITypeOK, Row
    <2>7. FiniteRows'  BY <2>5 DEF FiniteRows
    <2>8. QED  BY <1>3, <2>6, <2>7 DEF TypeOK, Turn
  <1>7. QED  BY <1>1, <1>5, <1>6

(* The allocator's turn: what it writes is an allocation. *)
LEMMA AllocatorKeepsIInv ==
    ASSUME IInv, Recompute \/ NoRecompute
    PROVE  IInv'
  <1> USE DEF IInv
  <1>1. AllocatorDone  BY DEF Recompute, NoRecompute
  <1>2. OITypeOK' /\ FiniteRows'
    BY <1>1 DEF AllocatorDone, TypeOK, OITypeOK, FiniteRows
  <1>3. alloc_count' \in 0..(RecomputeEvery - 1)
    <2>1. alloc_count \in Nat /\ RecomputeEvery \in Nat \ {0}
      BY AllocatorExecutorAssumption, SMT DEF TypeOK
    <2>2. QED  BY <1>1, <2>1, SMT DEF AllocatorDone
  <1>4. turn' \in Turn /\ boot' \in 0..1 /\ base' \in Bases
    BY <1>1 DEF AllocatorDone, Turn, TypeOK
  <1>5. \/ dynamic' = NULL
        \/ /\ dynamic' \in [share : [Layer -> Nat], whole : Nat \ {0},
                            rationale : SUBSET Layer]
           /\ dynamic'.whole = Total(dynamic'.share)
    <2>1. CASE NoRecompute
      BY <2>1 DEF NoRecompute, TypeOK
    <2>2. CASE Recompute
      <3>1. PICK s \in Signals :
                dynamic' = [share |-> ComputeTargetAllocation(base, s).share,
                            whole |-> ComputeTargetAllocation(base, s).whole,
                            rationale |-> Named(s)]
        BY <2>2 DEF Recompute
      <3>2. IsDecision(ComputeTargetAllocation(base, s))
        BY <2>2, DecisionIsNear DEF Recompute
      <3>3. Named(s) \in SUBSET Layer  BY DEF Named
      <3>4. QED  BY <3>1, <3>2, <3>3, Zenon DEF IsDecision
    <2>3. QED  BY <2>1, <2>2
  <1>6. QED  BY <1>2, <1>3, <1>4, <1>5 DEF TypeOK

(* A tick passes, in the engine's sleep or while the process is down. *)
LEMMA TimeKeepsIInv ==
    ASSUME IInv, Sleep \/ Restart
    PROVE  IInv'
  <1> USE DEF IInv
  <1>1. oi_observation' = [s \in Symbol |-> Age(oi_observation[s], 1)]
    BY DEF Sleep, Restart, TickPasses
  <1>2. \A s \in Symbol : oi_observation[s] \in SUBSET Row /\ IsFiniteSet(oi_observation[s])
    BY DEF TypeOK, OITypeOK, Row, FiniteRows
  <1>3. \A s \in Symbol : /\ Age(oi_observation[s], 1) \in SUBSET Row
                          /\ IsFiniteSet(Age(oi_observation[s], 1))
    BY <1>2, AgeTyped
  <1>4. oi_observation' \in [Symbol -> SUBSET Row] /\ FiniteRows'
    BY <1>1, <1>3 DEF FiniteRows
  <1>5. dynamic' = dynamic /\ turn' \in Turn  BY DEF Sleep, Restart, Turn
  <1>6. CASE Sleep
    BY <1>4, <1>5, <1>6 DEF Sleep, TypeOK, OITypeOK, Row
  <1>7. CASE Restart
    <2>1. prune_count' = 0 /\ alloc_count' = 0 /\ boot' = 1 - boot /\ base' \in Bases
      BY <1>7 DEF Restart, ForgetCount
    <2>2. 0 \in 0..(PruneEvery - 1) /\ 0 \in 0..(RecomputeEvery - 1)
      BY OISignalAssumption, AllocatorExecutorAssumption, SMT
    <2>3. boot' \in 0..1  BY <2>1, SMT DEF TypeOK
    <2>4. QED  BY <1>4, <1>5, <2>1, <2>2, <2>3 DEF TypeOK, OITypeOK, Row
  <1>8. QED  BY <1>6, <1>7

LEMMA NextIInv == IInv /\ [Next]_vars => IInv'
  <1> SUFFICES ASSUME IInv, [Next]_vars PROVE IInv'  OBVIOUS
  <1>1. CASE ObserverTurn \/ ObserverTurnPrunes  BY <1>1, ObserverKeepsIInv
  <1>2. CASE Recompute \/ NoRecompute  BY <1>2, AllocatorKeepsIInv
  <1>3. CASE Sleep \/ Restart  BY <1>3, TimeKeepsIInv
  <1>4. CASE UNCHANGED vars
    BY <1>4 DEF vars, IInv, TypeOK, OITypeOK, FiniteRows
  <1>5. QED  BY <1>1, <1>2, <1>3, <1>4 DEF Next

-----------------------------------------------------------------------------
(* The theorems *)

(***************************************************************************)
(* Whatever the observer and the allocator do, the table holds rows of the *)
(* ages it tells apart, and system_state an allocation that adds up.       *)
(***************************************************************************)
THEOREM TypeCorrect == Spec => []TypeOK
  <1>1. IInv => TypeOK  BY DEF IInv
  <1>2. QED  BY InitIInv, NextIInv, <1>1, PTL DEF Spec

(***************************************************************************)
(* CascadeSignal never triggers on funding and volatility alone: the open  *)
(* interest is at or above the 75th percentile of a long enough history.   *)
(***************************************************************************)
THEOREM TriggerHolds == Spec => []TriggerMeansLeverage
  <1>1. IInv => TriggerMeansLeverage
    <2> SUFFICES ASSUME IInv, NEW s \in Symbol, NEW reading \in Reading \ {NULL},
                        Triggers(Score(s, reading))
                 PROVE  /\ Cardinality(History(s)) >= MinHistory
                        /\ 4 * AtOrBelow(History(s), reading.oi)
                               >= 3 * Cardinality(History(s))
      BY DEF TriggerMeansLeverage
    <2>1. IsFiniteSet(oi_observation[s]) /\ reading \in Reading /\ reading # NULL
      BY DEF IInv, FiniteRows
    <2>2. QED  BY <2>1, ScoreBounds
  <1>2. QED  BY InitIInv, NextIInv, <1>1, PTL DEF Spec

(***************************************************************************)
(* The observer's pruning leaves every row the signal would have read.     *)
(***************************************************************************)
THEOREM WindowKept == Spec => WindowSurvivesPrune
  <1>1. IInv /\ [Next]_vars =>
            [turn = "oi_observer" /\ turn' = "allocator" =>
                \A s \in Symbol : History(s) \subseteq History(s)']_vars
    <2> SUFFICES ASSUME IInv, [Next]_vars,
                        turn = "oi_observer", turn' = "allocator",
                        NEW s \in Symbol, NEW r \in History(s)
                 PROVE  r \in History(s)'
      OBVIOUS
    <2>1. r \in oi_observation[s] /\ r.age < WindowHours  BY DEF History
    <2>2. PICK readings \in Readings :
              \/ Observe(readings)
              \/ ObserveAndPrune(readings)
      BY DEF Next, vars, ObserverTurn, ObserverTurnPrunes, Recompute, NoRecompute,
             AllocatorDone, Sleep, Restart
    <2>3. r \in WithReadings(readings)[s]  BY <2>1, ReadingsAdd DEF IInv, TypeOK
    <2>4. r.age <= PruneDays * TicksPerDay
      <3>1. r.age \in Int  BY <2>1, SMT DEF IInv, TypeOK, OITypeOK
      <3>2. PruneDays * TicksPerDay \in Nat  BY OISignalAssumption, SMT
      <3>3. PICK days \in Nat : days = PruneDays * TicksPerDay  BY <3>2, Zenon
      <3>4. WindowHours <= days /\ WindowHours \in Nat  BY <3>3, OISignalAssumption
      <3>5. r.age <= days  BY <2>1, <3>1, <3>4, SMT
      <3>6. QED  BY <3>3, <3>5
    <2>5. r \in oi_observation'[s]
      <3>1. CASE Observe(readings)  BY <2>3, <3>1 DEF Observe
      <3>2. CASE ObserveAndPrune(readings)
        BY <2>3, <2>4, <3>2 DEF ObserveAndPrune, Retained
      <3>3. QED  BY <2>2, <3>1, <3>2
    <2>6. QED  BY <2>1, <2>5 DEF History
  <1>2. QED  BY InitIInv, NextIInv, <1>1, PTL DEF Spec, WindowSurvivesPrune

(***************************************************************************)
(* Whatever the bases and the scores, what AllocatorExecutor writes keeps  *)
(* to the bounds that max_tilt, floor and rationale suggest.               *)
(***************************************************************************)
THEOREM WritesNearBase == Spec => WriteWithinBounds
  <1> DEFINE A == dynamic' # dynamic =>
                     \A l \in Layer :
                         LET share == dynamic'.share[l] * Whole
                             whole == dynamic'.whole
                         IN  /\ share <= (base[l] + MaxTilt) * whole
                             /\ 3 * share >= base[l] * whole
                             /\ l \notin dynamic'.rationale =>
                                    10 * share <= (10 * base[l] + MaxTilt) * whole
  <1>1. IInv /\ [Next]_vars => [A]_vars
    <2> SUFFICES ASSUME IInv, Next, dynamic' # dynamic, NEW l \in Layer
                 PROVE  LET share == dynamic'.share[l] * Whole
                            whole == dynamic'.whole
                        IN  /\ share <= (base[l] + MaxTilt) * whole
                            /\ 3 * share >= base[l] * whole
                            /\ l \notin dynamic'.rationale =>
                                   10 * share <= (10 * base[l] + MaxTilt) * whole
      OBVIOUS
    <2>1. Recompute
      BY DEF Next, ObserverTurn, ObserverTurnPrunes, NoRecompute, Sleep, Restart
    <2>2. PICK s \in Signals :
              dynamic' = [share |-> ComputeTargetAllocation(base, s).share,
                          whole |-> ComputeTargetAllocation(base, s).whole,
                          rationale |-> Named(s)]
      BY <2>1 DEF Recompute
    <2>3. Near(base, s, ComputeTargetAllocation(base, s))
      BY <2>1, DecisionIsNear DEF Recompute, IInv
    <2>4. l \notin Named(s) => 10 * s[l] <= Steps
      <3>1. s[l] \in 0..Steps  BY SignalsAreScores DEF IInv, Scores
      <3>2. QED  BY <3>1, AllocatorAssumption, SMT DEF Named
    <2> DEFINE d == ComputeTargetAllocation(base, s)
    <2>5. /\ dynamic'.share = d.share /\ dynamic'.whole = d.whole
          /\ dynamic'.rationale = Named(s)
      BY <2>2
    <2>6. /\ d.share[l] * Whole <= (base[l] + MaxTilt) * d.whole
          /\ 3 * (d.share[l] * Whole) >= base[l] * d.whole
          /\ l \notin Named(s) =>
                10 * (d.share[l] * Whole) <= (10 * base[l] + MaxTilt) * d.whole
      BY <2>3, <2>4, Zenon DEF Near
    <2> HIDE DEF d
    <2>7. QED  BY <2>5, <2>6, Zenon
  <1>2. QED  BY InitIInv, NextIInv, <1>1, PTL DEF Spec, WriteWithinBounds
=============================================================================
