-------------------------- MODULE ModelPoolProofs --------------------------
(***************************************************************************)
(* Machine-checked proofs about ModelPool, for every set of models and of  *)
(* pool settings, whatever raises: no model is resident twice and neither  *)
(* tier exceeds its slots, what leaves a tier is what was used least       *)
(* recently, what a tier lists has its weights in it, and a tiered pool    *)
(* without a host tier is the rewrap pool.                                 *)
(*                                                                         *)
(* A tier is a sequence of models, and every operation on it takes some    *)
(* models out and leaves the others in their order: Within says so of two  *)
(* sequences, and the invariant says it of what is resident (the host tier *)
(* and after it VRAM) and the order of last uses.                          *)
(***************************************************************************)
EXTENDS ModelPool, TLAPS

----------------------------------------------------------------------------
(* Sequences within sequences *)

Distinct(s) == \A i, k \in DOMAIN s : s[i] = s[k] => i = k

\* The elements of u are elements of t and stand in the order of t.
Within(u, t) ==
    /\ Members(u) \subseteq Members(t)
    /\ \A i, k \in DOMAIN u : i < k => Before(t, u[i], u[k])

LEMMA MembersDef ==
    ASSUME NEW s
    PROVE  Members(s) = {s[i] : i \in DOMAIN s}
  BY DEF Members, Rewrap!Members

LEMMA WithinItself ==
    ASSUME NEW S, NEW s \in Seq(S)
    PROVE  Within(s, s)
  BY DEF Within, Before

LEMMA WithinTransitive ==
    ASSUME NEW S, NEW u \in Seq(S), NEW t \in Seq(S), NEW s \in Seq(S),
           Within(u, t), Within(t, s)
    PROVE  Within(u, s)
  <1> SUFFICES ASSUME NEW i \in DOMAIN u, NEW k \in DOMAIN u, i < k
               PROVE  Before(s, u[i], u[k])
    BY DEF Within
  <1>1. PICK a, b \in DOMAIN t : a < b /\ t[a] = u[i] /\ t[b] = u[k]
    BY DEF Within, Before
  <1> QED
    BY <1>1 DEF Within

(* What stands within a sequence without repetitions has none itself. *)
LEMMA WithinDistinct ==
    ASSUME NEW S, NEW u \in Seq(S), NEW s \in Seq(S), Within(u, s), Distinct(s)
    PROVE  Distinct(u)
  <1> SUFFICES ASSUME NEW i \in DOMAIN u, NEW k \in DOMAIN u, i < k, u[i] = u[k]
               PROVE  FALSE
    BY DEF Distinct
  <1>1. PICK a, b \in DOMAIN s : a < b /\ s[a] = u[i] /\ s[b] = u[k]
    BY DEF Within, Before
  <1> QED
    BY <1>1 DEF Distinct

(* A part of a sequence, from one place to another, stands within it. *)
LEMMA PartWithin ==
    ASSUME NEW S, NEW s \in Seq(S), NEW a \in Nat \ {0}, NEW b \in Nat, b <= Len(s)
    PROVE  /\ SubSeq(s, a, b) \in Seq(S)
           /\ Len(SubSeq(s, a, b)) <= Len(s)
           /\ Within(SubSeq(s, a, b), s)
  <1> DEFINE u == SubSeq(s, a, b)
  <1>1. /\ u \in Seq(S) /\ Len(u) <= Len(s)
        /\ \A i \in DOMAIN u : i + a - 1 \in DOMAIN s /\ u[i] = s[i + a - 1]
        /\ DOMAIN u \subseteq Nat
    OBVIOUS
  <1> HIDE DEF u
  <1>2. Members(u) \subseteq Members(s)
    BY <1>1, MembersDef
  <1>3. ASSUME NEW i \in DOMAIN u, NEW k \in DOMAIN u, i < k
        PROVE  Before(s, u[i], u[k])
    BY <1>1, <1>3 DEF Before
  <1>4. Within(u, s)
    BY <1>2, <1>3 DEF Within
  <1> QED
    BY <1>1, <1>4 DEF u

LEMMA TailWithin ==
    ASSUME NEW S, NEW s \in Seq(S), s # <<>>
    PROVE  /\ Tail(s) = SubSeq(s, 2, Len(s)) /\ Len(s) >= 1
           /\ Tail(s) \in Seq(S)
           /\ Len(Tail(s)) <= Len(s)
           /\ Within(Tail(s), s)
  <1>1. Tail(s) = SubSeq(s, 2, Len(s)) /\ Len(s) >= 1 /\ Len(s) \in Nat
    OBVIOUS
  <1>2. \A a \in Nat \ {0}, b \in Nat : b <= Len(s) =>
           /\ SubSeq(s, a, b) \in Seq(S)
           /\ Len(SubSeq(s, a, b)) <= Len(s)
           /\ Within(SubSeq(s, a, b), s)
    BY PartWithin
  <1>3. 2 \in Nat \ {0} /\ Len(s) <= Len(s)
    BY <1>1
  <1> QED
    BY <1>1, <1>2, <1>3

LEMMA JoinProperties ==
    ASSUME NEW S, NEW s \in Seq(S), NEW t \in Seq(S)
    PROVE  /\ s \o t \in Seq(S)
           /\ Len(s \o t) = Len(s) + Len(t)
           /\ DOMAIN s = 1 .. Len(s) /\ DOMAIN t = 1 .. Len(t)
           /\ DOMAIN (s \o t) = 1 .. (Len(s) + Len(t))
           /\ Len(s) \in Nat /\ Len(t) \in Nat
           /\ \A i \in 1 .. Len(s) : (s \o t)[i] = s[i]
           /\ \A i \in 1 .. Len(t) : (s \o t)[Len(s) + i] = t[i]
           /\ \A i \in 1 .. (Len(s) + Len(t)) :
                 i \in 1 .. Len(s) \/ (i - Len(s) \in 1 .. Len(t)
                                       /\ (s \o t)[i] = t[i - Len(s)])
  OBVIOUS

LEMMA JoinMembers ==
    ASSUME NEW S, NEW s \in Seq(S), NEW t \in Seq(S)
    PROVE  Members(s \o t) = Members(s) \cup Members(t)
  <1> DEFINE st == s \o t
  <1>1. /\ DOMAIN s = 1 .. Len(s) /\ DOMAIN t = 1 .. Len(t)
        /\ DOMAIN st = 1 .. (Len(s) + Len(t))
        /\ Len(s) \in Nat /\ Len(t) \in Nat
        /\ \A i \in 1 .. Len(s) : st[i] = s[i]
        /\ \A i \in 1 .. Len(t) : st[Len(s) + i] = t[i]
        /\ \A i \in 1 .. (Len(s) + Len(t)) :
              i \in 1 .. Len(s) \/ (i - Len(s) \in 1 .. Len(t) /\ st[i] = t[i - Len(s)])
    BY JoinProperties
  <1> HIDE DEF st
  <1>2. Members(st) \subseteq Members(s) \cup Members(t)
    BY <1>1, MembersDef
  <1>3. ASSUME NEW x \in Members(s)
        PROVE  x \in Members(st)
    <2>1. PICK i \in 1 .. Len(s) : s[i] = x
      BY <1>1, MembersDef
    <2> QED
      BY <1>1, <2>1, MembersDef
  <1>4. ASSUME NEW x \in Members(t)
        PROVE  x \in Members(st)
    <2>1. PICK i \in 1 .. Len(t) : t[i] = x
      BY <1>1, MembersDef
    <2>2. Len(s) + i \in DOMAIN st /\ st[Len(s) + i] = x
      BY <1>1, <2>1
    <2> QED
      BY <2>2, MembersDef
  <1>5. Members(st) = Members(s) \cup Members(t)
    BY <1>2, <1>3, <1>4
  <1> QED
    BY <1>5 DEF st

(* What is joined of two parts stands within what is joined of the wholes. *)
LEMMA JoinWithin ==
    ASSUME NEW S, NEW u \in Seq(S), NEW v \in Seq(S), NEW s \in Seq(S), NEW t \in Seq(S),
           Within(u, s), Within(v, t)
    PROVE  Within(u \o v, s \o t)
  <1> DEFINE uv == u \o v
             st == s \o t
  <1>1. /\ DOMAIN u = 1 .. Len(u) /\ DOMAIN v = 1 .. Len(v)
        /\ DOMAIN uv = 1 .. (Len(u) + Len(v))
        /\ Len(u) \in Nat /\ Len(v) \in Nat
        /\ \A i \in 1 .. Len(u) : uv[i] = u[i]
        /\ \A i \in 1 .. (Len(u) + Len(v)) :
              i \in 1 .. Len(u) \/ (i - Len(u) \in 1 .. Len(v) /\ uv[i] = v[i - Len(u)])
    BY JoinProperties
  <1>2. /\ DOMAIN s = 1 .. Len(s) /\ DOMAIN t = 1 .. Len(t)
        /\ DOMAIN st = 1 .. (Len(s) + Len(t))
        /\ Len(s) \in Nat /\ Len(t) \in Nat
        /\ \A i \in 1 .. Len(s) : st[i] = s[i]
        /\ \A i \in 1 .. Len(t) : st[Len(s) + i] = t[i]
    BY JoinProperties
  <1>3. Members(uv) \subseteq Members(st)
    BY JoinMembers DEF Within
  <1> HIDE DEF uv, st
  <1>4. ASSUME NEW i \in DOMAIN uv, NEW k \in DOMAIN uv, i < k
        PROVE  Before(st, uv[i], uv[k])
    <2>0. i \in 1 .. (Len(u) + Len(v)) /\ k \in 1 .. (Len(u) + Len(v))
      BY <1>1
    <2>1. CASE k \in 1 .. Len(u)
      <3>1. i \in DOMAIN u /\ k \in DOMAIN u /\ uv[i] = u[i] /\ uv[k] = u[k]
        BY <1>1, <1>4, <2>0, <2>1
      <3>2. PICK a, b \in DOMAIN s : a < b /\ s[a] = u[i] /\ s[b] = u[k]
        BY <1>4, <3>1 DEF Within, Before
      <3>3. a \in DOMAIN st /\ b \in DOMAIN st /\ st[a] = s[a] /\ st[b] = s[b]
        BY <1>2
      <3> QED
        BY <3>1, <3>2, <3>3 DEF Before
    <2>2. CASE i \in 1 .. Len(u) /\ k \notin 1 .. Len(u)
      <3>1. /\ i \in DOMAIN u /\ uv[i] = u[i]
            /\ k - Len(u) \in DOMAIN v /\ uv[k] = v[k - Len(u)]
        BY <1>1, <2>0, <2>2
      <3>2. u[i] \in Members(s) /\ v[k - Len(u)] \in Members(t)
        BY <3>1, MembersDef DEF Within
      <3>3. PICK a \in DOMAIN s : s[a] = u[i]
        BY <3>2, MembersDef
      <3>4. PICK b \in DOMAIN t : t[b] = v[k - Len(u)]
        BY <3>2, MembersDef
      <3>5. /\ a \in DOMAIN st /\ Len(s) + b \in DOMAIN st /\ a < Len(s) + b
            /\ st[a] = s[a] /\ st[Len(s) + b] = t[b]
        BY <1>2
      <3> QED
        BY <3>1, <3>3, <3>4, <3>5 DEF Before
    <2>3. CASE i \notin 1 .. Len(u) /\ k \notin 1 .. Len(u)
      <3>1. /\ i - Len(u) \in DOMAIN v /\ uv[i] = v[i - Len(u)]
            /\ k - Len(u) \in DOMAIN v /\ uv[k] = v[k - Len(u)]
            /\ i - Len(u) < k - Len(u)
        BY <1>1, <1>4, <2>0, <2>3
      <3>2. PICK a, b \in DOMAIN t :
               a < b /\ t[a] = v[i - Len(u)] /\ t[b] = v[k - Len(u)]
        BY <3>1 DEF Within, Before
      <3>3. /\ Len(s) + a \in DOMAIN st /\ Len(s) + b \in DOMAIN st
            /\ Len(s) + a < Len(s) + b
            /\ st[Len(s) + a] = t[a] /\ st[Len(s) + b] = t[b]
        BY <1>2, <3>2
      <3> QED
        BY <3>1, <3>2, <3>3 DEF Before
    <2> QED
      BY <1>1, <1>4, <2>0, <2>1, <2>2, <2>3
  <1>5. Within(uv, st)
    BY <1>3, <1>4 DEF Within
  <1> QED
    BY <1>5 DEF uv, st

LEMMA NewestWithin ==
    ASSUME NEW S, NEW s \in Seq(S), NEW n \in Nat
    PROVE  /\ Newest(s, n) \in Seq(S)
           /\ Len(Newest(s, n)) <= n
           /\ Within(Newest(s, n), s)
  <1>1. Len(s) \in Nat
    OBVIOUS
  <1>2. CASE Len(s) <= n
    BY <1>2, WithinItself DEF Newest, Rewrap!Newest
  <1>3. CASE ~ (Len(s) <= n)
    <2>1. /\ Newest(s, n) = SubSeq(s, Len(s) - n + 1, Len(s))
          /\ Len(s) - n + 1 \in Nat \ {0}
      BY <1>1, <1>3 DEF Newest, Rewrap!Newest
    <2>2. Len(SubSeq(s, Len(s) - n + 1, Len(s))) = n
      BY <1>1, <1>3
    <2> QED
      BY <1>1, <2>1, <2>2, PartWithin
  <1> QED
    BY <1>2, <1>3

(* Removing a member of a sequence without repetitions leaves the others   *)
(* in their order.                                                         *)
LEMMA WithoutProperties ==
    ASSUME NEW S, NEW s \in Seq(S), NEW m, Distinct(s)
    PROVE  /\ Without(s, m) \in Seq(S)
           /\ Members(Without(s, m)) = Members(s) \ {m}
           /\ Within(Without(s, m), s)
           /\ Len(Without(s, m)) <= Len(s)
           /\ m \in Members(s) => Len(Without(s, m)) < Len(s)
           /\ \A x, y : x # m /\ y # m /\ Before(s, x, y) => Before(Without(s, m), x, y)
  <1>1. CASE m \notin Members(s)
    <2>1. Without(s, m) = s
      BY <1>1 DEF Without, Members, Rewrap!Without
    <2> QED
      BY <1>1, <2>1, WithinItself
  <1>2. CASE m \in Members(s)
    <2> DEFINE p == CHOOSE i \in DOMAIN s : s[i] = m
               w == Without(s, m)
               n == Len(s)
    <2>1. p \in DOMAIN s /\ s[p] = m
      BY <1>2, MembersDef
    <2>2. w = SubSeq(s, 1, p - 1) \o SubSeq(s, p + 1, n)
      BY <1>2 DEF Without, Members, Rewrap!Without
    <2> HIDE DEF p
    <2>3. n \in Nat /\ DOMAIN s = 1 .. n /\ p \in 1 .. n
      BY <2>1
    <2>4. /\ SubSeq(s, 1, p - 1) \in Seq(S) /\ Len(SubSeq(s, 1, p - 1)) = p - 1
          /\ \A i \in 1 .. (p - 1) : SubSeq(s, 1, p - 1)[i] = s[i]
      BY <2>3
    <2>5. /\ SubSeq(s, p + 1, n) \in Seq(S) /\ Len(SubSeq(s, p + 1, n)) = n - p
          /\ \A i \in 1 .. (n - p) : SubSeq(s, p + 1, n)[i] = s[p + i]
      <3>1. /\ p + 1 \in Nat \ {0} /\ n \in Nat /\ p + 1 <= n + 1 /\ n <= Len(s)
            /\ n - (p + 1) + 1 = n - p
        BY <2>3
      <3> HIDE DEF n
      <3>2. SubSeq(s, p + 1, n) \in Seq(S) /\ Len(SubSeq(s, p + 1, n)) = n - p
        BY <3>1
      <3>3. ASSUME NEW i \in 1 .. (n - p)
            PROVE  SubSeq(s, p + 1, n)[i] = s[p + i]
        <4>1. i + (p + 1) - 1 = p + i
          BY <2>3, <3>1
        <4>2. SubSeq(s, p + 1, n)[i] = s[i + (p + 1) - 1]
          BY <3>1
        <4> QED
          BY <4>1, <4>2
      <3> QED
        BY <3>2, <3>3
    <2>6. /\ w \in Seq(S) /\ Len(w) = n - 1 /\ DOMAIN w = 1 .. (n - 1)
          /\ \A i \in 1 .. (p - 1) : w[i] = s[i]
          /\ \A i \in p .. (n - 1) : w[i] = s[i + 1]
      <3> DEFINE a == SubSeq(s, 1, p - 1)
                 b == SubSeq(s, p + 1, n)
      <3>0. a \in Seq(S) /\ b \in Seq(S) /\ Len(a) = p - 1 /\ Len(b) = n - p
        BY <2>4, <2>5
      <3>2. /\ \A i \in 1 .. (p - 1) : a[i] = s[i]
            /\ \A i \in 1 .. (n - p) : b[i] = s[p + i]
        BY <2>4, <2>5
      <3>3. w = a \o b
        BY <2>2
      <3> HIDE DEF a, b, n, w
      <3>6. /\ a \o b \in Seq(S)
            /\ Len(a \o b) = Len(a) + Len(b)
            /\ DOMAIN (a \o b) = 1 .. (Len(a) + Len(b))
            /\ \A i \in 1 .. Len(a) : (a \o b)[i] = a[i]
            /\ \A i \in 1 .. Len(b) : (a \o b)[Len(a) + i] = b[i]
        <4>1. ASSUME NEW c \in Seq(S), NEW d \in Seq(S)
              PROVE  /\ c \o d \in Seq(S)
                     /\ Len(c \o d) = Len(c) + Len(d)
                     /\ DOMAIN (c \o d) = 1 .. (Len(c) + Len(d))
                     /\ \A i \in 1 .. Len(c) : (c \o d)[i] = c[i]
                     /\ \A i \in 1 .. Len(d) : (c \o d)[Len(c) + i] = d[i]
          BY JoinProperties
        <4>2. a \in Seq(S)
          BY <3>0
        <4>3. b \in Seq(S)
          BY <3>0
        <4> QED
          BY <4>1, <4>2, <4>3
      <3>1. /\ a \o b \in Seq(S)
            /\ Len(a \o b) = (p - 1) + (n - p)
            /\ DOMAIN (a \o b) = 1 .. ((p - 1) + (n - p))
            /\ \A i \in 1 .. (p - 1) : (a \o b)[i] = a[i]
            /\ \A i \in 1 .. (n - p) : (a \o b)[(p - 1) + i] = b[i]
        BY <3>0, <3>6
      <3>4. ASSUME NEW i \in p .. (n - 1)
            PROVE  w[i] = s[i + 1]
        <4>1. i - p + 1 \in 1 .. (n - p) /\ (p - 1) + (i - p + 1) = i /\ p + (i - p + 1) = i + 1
          BY <2>3
        <4> DEFINE k == i - p + 1
        <4>2. (a \o b)[(p - 1) + k] = b[k] /\ b[k] = s[p + k]
          BY <3>1, <3>2, <4>1
        <4> QED
          BY <3>3, <4>1, <4>2
      <3>5. (p - 1) + (n - p) = n - 1
        BY <2>3
      <3> QED
        BY <3>1, <3>2, <3>3, <3>4, <3>5
    <2> HIDE DEF w, n
    <2>7. \A i \in 1 .. n : i # p => s[i] # m
      BY <2>1, <2>3 DEF Distinct
    (* where an element of s that stays is found again *)
    <2>8. ASSUME NEW i \in 1 .. n, s[i] # m
          PROVE  \/ i < p /\ i \in 1 .. (n - 1) /\ w[i] = s[i]
                 \/ i > p /\ i - 1 \in 1 .. (n - 1) /\ w[i - 1] = s[i]
      <3>1. i # p
        BY <2>1, <2>8
      <3>2. CASE i < p
        BY <2>3, <2>6, <3>2
      <3>3. CASE i > p
        <4>1. i - 1 \in p .. (n - 1) /\ (i - 1) + 1 = i
          BY <2>3, <3>3
        <4>2. w[i - 1] = s[i]
          BY <2>6, <4>1
        <4> QED
          BY <2>3, <3>3, <4>1, <4>2
      <3> QED
        BY <2>3, <3>1, <3>2, <3>3
    (* where an element of what remains comes from *)
    <2>9. ASSUME NEW i \in 1 .. (n - 1)
          PROVE  \/ i < p /\ i \in 1 .. n /\ w[i] = s[i]
                 \/ i >= p /\ i + 1 \in 1 .. n /\ w[i] = s[i + 1]
      BY <2>3, <2>6
    <2>10. Members(w) = Members(s) \ {m}
      <3>1. ASSUME NEW x \in Members(w)
            PROVE  x \in Members(s) \ {m}
        <4>1. PICK i \in 1 .. (n - 1) : w[i] = x
          BY <2>6, MembersDef
        <4>2. PICK k \in 1 .. n : k # p /\ s[k] = x
          BY <2>3, <2>9, <4>1
        <4> QED
          BY <2>3, <2>7, <4>2, MembersDef
      <3>2. ASSUME NEW x \in Members(s), x # m
            PROVE  x \in Members(w)
        <4>1. PICK i \in 1 .. n : s[i] = x
          BY <2>3, MembersDef
        <4>2. PICK k \in 1 .. (n - 1) : w[k] = x
          BY <2>8, <3>2, <4>1
        <4> QED
          BY <2>6, <4>2, MembersDef
      <3> QED
        BY <3>1, <3>2
    <2>11. ASSUME NEW i \in DOMAIN w, NEW k \in DOMAIN w, i < k
           PROVE  Before(s, w[i], w[k])
      <3>1. i \in 1 .. (n - 1) /\ k \in 1 .. (n - 1)
        BY <2>6
      <3>2. PICK a \in 1 .. n : w[i] = s[a] /\ ((i < p /\ a = i) \/ (i >= p /\ a = i + 1))
        BY <2>9, <3>1
      <3>3. PICK b \in 1 .. n : w[k] = s[b] /\ ((k < p /\ b = k) \/ (k >= p /\ b = k + 1))
        BY <2>9, <3>1
      <3>4. a < b
        BY <2>3, <2>11, <3>1, <3>2, <3>3
      <3> QED
        BY <2>3, <3>2, <3>3, <3>4 DEF Before
    <2>12. ASSUME NEW x, NEW y, x # m, y # m, Before(s, x, y)
           PROVE  Before(w, x, y)
      <3>1. PICK a, b \in 1 .. n : a < b /\ s[a] = x /\ s[b] = y
        BY <2>3, <2>12 DEF Before
      <3>2. PICK i \in 1 .. (n - 1) :
               w[i] = x /\ ((a < p /\ i = a) \/ (a > p /\ i = a - 1))
        BY <2>8, <2>12, <3>1
      <3>3. PICK k \in 1 .. (n - 1) :
               w[k] = y /\ ((b < p /\ k = b) \/ (b > p /\ k = b - 1))
        BY <2>8, <2>12, <3>1
      <3>4. i < k
        BY <2>3, <3>1, <3>2, <3>3
      <3> QED
        BY <2>6, <3>2, <3>3, <3>4 DEF Before
    <2>13. /\ w \in Seq(S) /\ Len(w) < n /\ Len(w) <= n
           /\ Members(w) = Members(s) \ {m}
           /\ Within(w, s)
           /\ \A x, y : x # m /\ y # m /\ Before(s, x, y) => Before(w, x, y)
      BY <2>3, <2>6, <2>10, <2>11, <2>12 DEF Within
    <2> QED
      BY <2>13 DEF w, n
  <1> QED
    BY <1>1, <1>2

LEMMA OneElement ==
    ASSUME NEW S, NEW m \in S
    PROVE  /\ <<m>> \in Seq(S) /\ Len(<<m>>) = 1
           /\ Members(<<m>>) = {m}
           /\ Within(<<m>>, <<m>>)
  <1>1. <<m>> \in Seq(S) /\ Len(<<m>>) = 1 /\ DOMAIN <<m>> = 1 .. 1 /\ <<m>>[1] = m
    OBVIOUS
  <1>2. Members(<<m>>) = {m}
    BY <1>1, MembersDef
  <1> QED
    BY <1>1, <1>2, WithinItself

LEMMA AppendIsJoin ==
    ASSUME NEW S, NEW s \in Seq(S), NEW m \in S
    PROVE  Append(s, m) = s \o <<m>>
  OBVIOUS

LEMMA JoinEmpty ==
    ASSUME NEW S, NEW s \in Seq(S)
    PROVE  s \o <<>> = s /\ <<>> \o s = s /\ <<>> \in Seq(S)
  OBVIOUS

LEMMA JoinAssociates ==
    ASSUME NEW S
    PROVE  \A s, t, u \in Seq(S) : (s \o t) \o u = s \o (t \o u)
  OBVIOUS

(* What is used moves to the end, and everything else keeps its order. *)
LEMMA ToEndProperties ==
    ASSUME NEW S, NEW s \in Seq(S), NEW m \in S, Distinct(s)
    PROVE  /\ ToEnd(s, m) = Without(s, m) \o <<m>>
           /\ ToEnd(s, m) \in Seq(S)
           /\ Members(ToEnd(s, m)) = Members(s) \cup {m}
           /\ Distinct(ToEnd(s, m))
           /\ m \in Members(s) => Len(ToEnd(s, m)) <= Len(s)
  <1> DEFINE w == Without(s, m)
             e == ToEnd(s, m)
  <1>1. w \in Seq(S) /\ Members(w) = Members(s) \ {m} /\ Within(w, s) /\ Len(w) \in Nat
        /\ (m \in Members(s) => Len(w) < Len(s)) /\ Len(s) \in Nat
    BY WithoutProperties
  <1>2. e = Append(w, m)
    BY DEF ToEnd, Without, Rewrap!ToEnd
  <1> HIDE DEF w, e
  <1>3. e = w \o <<m>>
    BY <1>1, <1>2, AppendIsJoin
  <1>4. /\ e \in Seq(S) /\ Len(e) = Len(w) + 1 /\ DOMAIN e = 1 .. (Len(w) + 1)
        /\ \A i \in 1 .. Len(w) : e[i] = w[i] /\ i \in DOMAIN w
        /\ e[Len(w) + 1] = m
    BY <1>1, <1>2
  <1>5. Members(e) = Members(s) \cup {m}
    <2>1. <<m>> \in Seq(S) /\ Members(<<m>>) = {m}
      BY OneElement
    <2>2. w \in Seq(S)
      BY <1>1
    <2>3. Members(w \o <<m>>) = Members(w) \cup Members(<<m>>)
      <3>1. \A t \in Seq(S) : Members(w \o t) = Members(w) \cup Members(t)
        BY <2>2, JoinMembers
      <3> QED
        BY <2>1, <3>1, Zenon
    <2> QED
      BY <1>1, <1>3, <2>1, <2>3
  <1>6. Distinct(w)
    BY <1>1, WithinDistinct
  <1>7. ASSUME NEW i \in 1 .. Len(w)
        PROVE  w[i] # m
    <2>1. w[i] \in Members(w)
      BY <1>4, MembersDef
    <2> QED
      BY <1>1, <2>1
  <1>8. ASSUME NEW i \in DOMAIN e, NEW k \in DOMAIN e, e[i] = e[k]
        PROVE  i = k
    <2>1. (i \in 1 .. Len(w) \/ i = Len(w) + 1) /\ (k \in 1 .. Len(w) \/ k = Len(w) + 1)
      BY <1>1, <1>4
    <2>2. CASE i \in 1 .. Len(w) /\ k \in 1 .. Len(w)
      BY <1>4, <1>6, <1>8, <2>2 DEF Distinct
    <2>3. CASE i = Len(w) + 1 /\ k \in 1 .. Len(w)
      BY <1>4, <1>7, <1>8, <2>3
    <2>4. CASE i \in 1 .. Len(w) /\ k = Len(w) + 1
      BY <1>4, <1>7, <1>8, <2>4
    <2> QED
      BY <2>1, <2>2, <2>3, <2>4
  <1>9. Distinct(e)
    BY <1>8 DEF Distinct
  <1>10. m \in Members(s) => Len(e) <= Len(s)
    BY <1>1, <1>4
  <1> QED
    BY <1>3, <1>4, <1>5, <1>9, <1>10 DEF w, e

(* What is resident and then m stands within the order of last uses once m *)
(* has been used.                                                          *)
LEMMA UsedWithin ==
    ASSUME NEW S, NEW t \in Seq(S), NEW s \in Seq(S), NEW m \in S,
           Within(t, s), Distinct(s), m \notin Members(t)
    PROVE  Within(t \o <<m>>, ToEnd(s, m))
  <1> DEFINE w == Without(s, m)
  <1>1. /\ w \in Seq(S) /\ Members(w) = Members(s) \ {m}
        /\ \A x, y : x # m /\ y # m /\ Before(s, x, y) => Before(w, x, y)
    BY WithoutProperties
  <1>2. ToEnd(s, m) = w \o <<m>>
    BY ToEndProperties
  <1> HIDE DEF w
  <1>3. ASSUME NEW i \in DOMAIN t
        PROVE  t[i] # m
    BY MembersDef
  <1>4. Within(t, w)
    BY <1>1, <1>3 DEF Within
  <1> QED
    <2>1. <<m>> \in Seq(S) /\ Within(<<m>>, <<m>>)
      BY OneElement
    <2>2. w \in Seq(S)
      BY <1>1
    <2>3. Within(t \o <<m>>, w \o <<m>>)
      BY <1>4, <2>1, <2>2, JoinWithin
    <2> QED
      BY <1>2, <2>3

(* The two parts of a sequence without repetitions share nothing. *)
LEMMA DistinctParts ==
    ASSUME NEW S, NEW s \in Seq(S), NEW t \in Seq(S), Distinct(s \o t)
    PROVE  /\ Distinct(s) /\ Distinct(t)
           /\ Members(s) \cap Members(t) = {}
  <1> DEFINE st == s \o t
  <1>1. /\ DOMAIN s = 1 .. Len(s) /\ DOMAIN t = 1 .. Len(t)
        /\ DOMAIN st = 1 .. (Len(s) + Len(t))
        /\ Len(s) \in Nat /\ Len(t) \in Nat
        /\ \A i \in 1 .. Len(s) : st[i] = s[i]
        /\ \A i \in 1 .. Len(t) : st[Len(s) + i] = t[i]
    BY JoinProperties
  <1>2. \A i, k \in DOMAIN st : st[i] = st[k] => i = k
    BY DEF Distinct
  <1> HIDE DEF st
  <1>3. \A i \in DOMAIN s : i \in DOMAIN st /\ st[i] = s[i]
    BY <1>1
  <1>4. \A i \in DOMAIN t : Len(s) + i \in DOMAIN st /\ st[Len(s) + i] = t[i]
    BY <1>1
  <1>5. Distinct(s)
    BY <1>2, <1>3 DEF Distinct
  <1>6. ASSUME NEW i \in DOMAIN t, NEW k \in DOMAIN t, t[i] = t[k]
        PROVE  i = k
    <2>1. Len(s) + i = Len(s) + k
      BY <1>2, <1>4, <1>6
    <2> QED
      BY <1>1, <2>1
  <1>7. ASSUME NEW x \in Members(s), x \in Members(t)
        PROVE  FALSE
    <2>1. PICK i \in DOMAIN s : s[i] = x
      BY MembersDef
    <2>2. PICK k \in DOMAIN t : t[k] = x
      BY <1>7, MembersDef
    <2>3. i = Len(s) + k
      BY <1>2, <1>3, <1>4, <2>1, <2>2
    <2> QED
      BY <1>1, <2>3
  <1> QED
    BY <1>5, <1>6, <1>7 DEF Distinct

LEMMA Halves ==
    ASSUME NEW S, NEW s \in Seq(S), NEW k \in 0 .. Len(s)
    PROVE  /\ SubSeq(s, 1, k) \in Seq(S) /\ SubSeq(s, k + 1, Len(s)) \in Seq(S)
           /\ SubSeq(s, 1, k) \o SubSeq(s, k + 1, Len(s)) = s
  <1> DEFINE a == SubSeq(s, 1, k)
             b == SubSeq(s, k + 1, Len(s))
  <1>0. Len(s) \in Nat /\ k \in Nat /\ k <= Len(s) /\ DOMAIN s = 1 .. Len(s)
    OBVIOUS
  <1>1. /\ a \in Seq(S) /\ Len(a) = k
        /\ \A i \in 1 .. k : a[i] = s[i]
    BY <1>0
  <1>2. b \in Seq(S) /\ Len(b) = Len(s) - k
    <2> DEFINE n == Len(s)
    <2>1. /\ k + 1 \in Nat \ {0} /\ n \in Nat /\ k + 1 <= n + 1 /\ n <= Len(s)
          /\ n - (k + 1) + 1 = n - k
      BY <1>0
    <2> HIDE DEF n
    <2>2. SubSeq(s, k + 1, n) \in Seq(S) /\ Len(SubSeq(s, k + 1, n)) = n - k
      BY <2>1
    <2> QED
      BY <2>2 DEF n
  <1>3. ASSUME NEW i \in 1 .. (Len(s) - k)
        PROVE  b[i] = s[k + i]
    <2>1. b[i] = s[i + (k + 1) - 1]
      BY <1>0
    <2>2. i + (k + 1) - 1 = k + i
      BY <1>0
    <2> QED
      BY <2>1, <2>2
  <1> HIDE DEF a, b
  <1>4. \A c, d \in Seq(S) :
           /\ c \o d \in Seq(S)
           /\ Len(c \o d) = Len(c) + Len(d)
           /\ \A i \in 1 .. Len(c) : (c \o d)[i] = c[i]
           /\ \A i \in 1 .. Len(d) : (c \o d)[Len(c) + i] = d[i]
    BY JoinProperties
  <1> DEFINE ab == a \o b
  <1>5. /\ ab \in Seq(S)
        /\ Len(ab) = Len(a) + Len(b)
        /\ \A i \in 1 .. Len(a) : ab[i] = a[i]
        /\ \A i \in 1 .. Len(b) : ab[Len(a) + i] = b[i]
    BY <1>1, <1>2, <1>4
  <1> HIDE DEF ab
  <1>6. Len(ab) = Len(s)
    BY <1>0, <1>1, <1>2, <1>5
  <1>7. ASSUME NEW i \in 1 .. Len(s)
        PROVE  ab[i] = s[i]
    <2>1. CASE i <= k
      BY <1>0, <1>1, <1>5, <2>1
    <2>2. CASE i > k
      <3> DEFINE j == i - k
      <3>1. j \in 1 .. (Len(s) - k) /\ k + j = i
        BY <1>0, <2>2
      <3>2. ab[k + j] = b[j] /\ b[j] = s[k + j]
        BY <1>1, <1>2, <1>3, <1>5, <3>1
      <3> QED
        BY <3>1, <3>2
    <2> QED
      BY <1>0, <2>1, <2>2
  <1>8. ab = s
    BY <1>5, <1>6, <1>7
  <1> QED
    BY <1>1, <1>2, <1>8 DEF a, b, ab

----------------------------------------------------------------------------
(* The invariant: what is resident stands, without repetitions, in the     *)
(* order of the last uses, and no tier is over its slots.                  *)

Resident == host \o vram
TierTypes ==
    /\ set \in Settings
    /\ vram \in Seq(Models) /\ host \in Seq(Models) /\ recency \in Seq(Models)
IInv ==
    /\ TierTypes
    /\ Distinct(recency)
    /\ Within(Resident, recency)
    /\ TiersBounded

LEMMA SettingsAre ==
    ASSUME NEW c \in Settings
    PROVE  /\ c.kind \in {"rewrap", "tiered"}
           /\ c.vram \in Nat \ {0} /\ c.host \in Nat
           /\ c.kind = "rewrap" => c.host = 0
  BY SettingsAssumption DEF Builds

LEMMA ResidentIs ==
    ASSUME IInv
    PROVE  /\ set \in Settings
           /\ vram \in Seq(Models) /\ host \in Seq(Models) /\ recency \in Seq(Models)
           /\ Resident \in Seq(Models)
           /\ Len(vram) \in Nat /\ Len(host) \in Nat
           /\ Distinct(recency) /\ Within(Resident, recency)
           /\ Distinct(vram) /\ Distinct(host)
           /\ Members(host) \cap Members(vram) = {}
           /\ Members(Resident) = Members(host) \cup Members(vram)
           /\ Len(vram) <= set.vram /\ Len(host) <= set.host
           /\ set.vram \in Nat \ {0} /\ set.host \in Nat
  <1>1. /\ set \in Settings
        /\ vram \in Seq(Models) /\ host \in Seq(Models) /\ recency \in Seq(Models)
        /\ Distinct(recency) /\ Within(Resident, recency)
        /\ Len(vram) <= set.vram /\ Len(host) <= set.host
    BY DEF IInv, TierTypes, TiersBounded
  <1>2. Resident \in Seq(Models) /\ Members(Resident) = Members(host) \cup Members(vram)
    BY <1>1, JoinMembers DEF Resident
  <1>3. Distinct(Resident)
    BY <1>1, <1>2, WithinDistinct
  <1>4. Distinct(host) /\ Distinct(vram) /\ Members(host) \cap Members(vram) = {}
    BY <1>1, <1>3, DistinctParts DEF Resident
  <1>5. Len(vram) \in Nat /\ Len(host) \in Nat
    BY <1>1
  <1> QED
    BY <1>1, <1>2, <1>4, <1>5, SettingsAre

(* A step after which what is resident stands within what was.             *)
LEMMA NothingUsed ==
    ASSUME IInv, set' = set, recency' = recency,
           vram' \in Seq(Models), host' \in Seq(Models),
           Len(vram') <= set.vram, Len(host') <= set.host,
           Within(host' \o vram', Resident)
    PROVE  IInv'
  <1>1. host' \o vram' \in Seq(Models)
    BY JoinProperties
  <1>2. Within(host' \o vram', recency')
    BY <1>1, ResidentIs, WithinTransitive
  <1>3. TierTypes' /\ Distinct(recency)' /\ TiersBounded'
    BY ResidentIs DEF TierTypes, TiersBounded, Distinct
  <1>4. Within(Resident, recency)'
    BY <1>2 DEF Resident, Within, Members, Before, Rewrap!Members
  <1> QED
    BY <1>3, <1>4 DEF IInv

(* A step after which m is resident as the last used, and of the others    *)
(* some that were.                                                         *)
LEMMA ModelUsed ==
    ASSUME IInv, set' = set, NEW m \in Models, NEW t \in Seq(Models),
           recency' = ToEnd(recency, m),
           vram' \in Seq(Models), host' \in Seq(Models),
           Len(vram') <= set.vram, Len(host') <= set.host,
           Within(t, Resident), m \notin Members(t),
           host' \o vram' = t \o <<m>>
    PROVE  IInv'
  <1>1. Within(t, recency)
    BY ResidentIs, WithinTransitive
  <1>2. Within(host' \o vram', recency')
    BY <1>1, ResidentIs, UsedWithin
  <1>3. recency' \in Seq(Models) /\ Distinct(recency')
    BY ResidentIs, ToEndProperties
  <1>4. TierTypes' /\ Distinct(recency)' /\ TiersBounded'
    BY <1>3, ResidentIs DEF TierTypes, TiersBounded, Distinct
  <1>5. Within(Resident, recency)'
    BY <1>2 DEF Resident, Within, Members, Before, Rewrap!Members
  <1> QED
    BY <1>4, <1>5 DEF IInv

----------------------------------------------------------------------------
(* What a call uses, and what it takes out of the tiers *)

(* A call that returns a slot has used its model, one that returns none or *)
(* raises has not.                                                         *)
Serving == {"hit", "promoted", "loaded"}
LEMMA ServedIsUsed ==
    ASSUME NEW m, NEW op, NEW result \in Serving, NEW done,
           Rewrap!Returns(op, m, result, done), Uses(m)
    PROVE  recency' = ToEnd(recency, m)
  BY DEF Uses, Served, Serving, Rewrap!Returns, Rewrap!Call

LEMMA UnservedIsUnused ==
    ASSUME NEW m, NEW x, NEW op, NEW result, NEW slot, NEW done, result \notin Serving,
           Rewrap!Call(op, m, result, slot, done), Uses(x)
    PROVE  recency' = recency
  BY DEF Uses, Served, Serving, Rewrap!Call

LEMMA RaisedIsUnused ==
    ASSUME NEW m, NEW x, NEW op, NEW result \in {"raised", "unloadable"},
           Rewrap!Raises(op, m, result), Uses(x)
    PROVE  recency' = recency
  BY UnservedIsUnused DEF Rewrap!Raises, Serving

LEMMA FailureIs == \A m : Rewrap!Failure(m) \in {"raised", "unloadable"}
  BY DEF Rewrap!Failure

(* Taking a model out of VRAM, or of both tiers. *)
LEMMA TakenOut ==
    ASSUME IInv, NEW m, NEW h \in Seq(Models), Within(h, host)
    PROVE  /\ Without(vram, m) \in Seq(Models)
           /\ h \o Without(vram, m) \in Seq(Models)
           /\ Within(h \o Without(vram, m), Resident)
           /\ Members(h \o Without(vram, m)) = Members(h) \cup (Members(vram) \ {m})
           /\ Len(Without(vram, m)) <= set.vram
  <1> DEFINE w == Without(vram, m)
  <1>1. /\ w \in Seq(Models) /\ Within(w, vram) /\ Members(w) = Members(vram) \ {m}
        /\ Len(w) <= Len(vram) /\ Len(w) \in Nat
    BY ResidentIs, WithoutProperties
  <1> HIDE DEF w
  <1>2. h \o w \in Seq(Models) /\ Members(h \o w) = Members(h) \cup Members(w)
    BY <1>1, JoinProperties, JoinMembers
  <1>3. Within(h \o w, Resident)
    BY <1>1, ResidentIs, JoinWithin DEF Resident
  <1>4. Len(w) <= set.vram
    BY <1>1, ResidentIs
  <1> QED
    BY <1>1, <1>2, <1>3, <1>4 DEF w

(* A hit: the model moves to the end of VRAM. *)
LEMMA HitKept ==
    ASSUME IInv, NEW m \in Members(vram), m \in Models,
           set' = set, host' = host, vram' = ToEnd(vram, m), recency' = ToEnd(recency, m)
    PROVE  IInv'
  <1> DEFINE w == Without(vram, m)
  <1>1. /\ vram' = w \o <<m>> /\ vram' \in Seq(Models) /\ Len(vram') <= Len(vram)
        /\ Len(vram') \in Nat
    <2>1. vram \in Seq(Models) /\ Distinct(vram)
      BY ResidentIs
    <2>2. /\ ToEnd(vram, m) = w \o <<m>> /\ ToEnd(vram, m) \in Seq(Models)
          /\ Len(ToEnd(vram, m)) <= Len(vram)
      BY <2>1, ToEndProperties
    <2>3. Len(vram') \in Nat
      BY <2>2
    <2> QED
      BY <2>2, <2>3
  <1>2. /\ w \in Seq(Models)
        /\ host \o w \in Seq(Models)
        /\ Within(host \o w, Resident)
        /\ Members(host \o w) = Members(host) \cup (Members(vram) \ {m})
    BY ResidentIs, TakenOut, WithinItself
  <1> HIDE DEF w
  <1>3. host' \o vram' = (host \o w) \o <<m>>
    <2>1. \A a, b, c \in Seq(Models) : (a \o b) \o c = a \o (b \o c)
      BY JoinAssociates
    <2>2. host \in Seq(Models) /\ w \in Seq(Models) /\ <<m>> \in Seq(Models)
      BY <1>2, ResidentIs, OneElement
    <2>3. (host \o w) \o <<m>> = host \o (w \o <<m>>)
      BY <2>1, <2>2, Zenon
    <2> QED
      BY <1>1, <2>3
  <1>4. m \notin Members(host \o w)
    BY <1>2, ResidentIs
  <1>5. Len(vram') <= set.vram /\ Len(host') <= set.host /\ host' \in Seq(Models)
    BY <1>1, ResidentIs
  <1> QED
    BY <1>1, <1>2, <1>3, <1>4, <1>5, ModelUsed

(* _make_vram_room leaves a slot free and keeps the newest of each tier.   *)
LEMMA RoomIsMade ==
    ASSUME IInv, NEW h \in Seq(Models), Within(h, host)
    PROVE  /\ Staying \in Seq(Models) /\ Len(Staying) <= set.vram - 1
           /\ Demoted(h, Leaving) \in Seq(Models) /\ Len(Demoted(h, Leaving)) <= set.host
           /\ Demoted(h, Leaving) \o Staying \in Seq(Models)
           /\ Within(Demoted(h, Leaving) \o Staying, Resident)
           /\ Members(Demoted(h, Leaving) \o Staying) \subseteq Members(h) \cup Members(vram)
  <1>1. /\ vram \in Seq(Models) /\ host \in Seq(Models) /\ Len(vram) \in Nat
        /\ Len(vram) <= set.vram /\ set.vram \in Nat \ {0} /\ set.host \in Nat
    BY ResidentIs
  <1>2. Staying \in Seq(Models) /\ Len(Staying) <= set.vram - 1
    <2>1. set.vram - 1 \in Nat
      BY <1>1
    <2> QED
      BY <1>1, <2>1, NewestWithin DEF Staying
  <1>3. Leaving \in Seq(Models) /\ Leaving \o Staying = vram
    <2>1. CASE Len(vram) < set.vram
      <3>1. Staying = vram
        BY <1>1, <2>1 DEF Staying, Newest, Rewrap!Newest
      <3>2. Leaving = <<>>
        <4>1. Len(vram) <= set.vram - 1
          BY <1>1, <2>1
        <4> QED
          BY <4>1 DEF Leaving, Oldest, Rewrap!Oldest
      <3> QED
        BY <1>1, <3>1, <3>2, JoinEmpty
    <2>2. CASE Len(vram) = set.vram
      <3>1. Leaving = SubSeq(vram, 1, 1)
        <4>1. ~ (Len(vram) <= set.vram - 1) /\ Len(vram) - (set.vram - 1) = 1
          BY <1>1, <2>2
        <4> QED
          BY <4>1 DEF Leaving, Oldest, Rewrap!Oldest
      <3>2. Staying = SubSeq(vram, 2, Len(vram))
        <4>1. ~ (Len(vram) <= set.vram - 1) /\ Len(vram) - (set.vram - 1) + 1 = 2
          BY <1>1, <2>2
        <4> QED
          BY <4>1 DEF Staying, Newest, Rewrap!Newest
      <3>3. 1 \in 0 .. Len(vram) /\ 1 + 1 = 2
        BY <1>1, <2>2
      <3> QED
        BY <1>1, <3>1, <3>2, <3>3, Halves
    <2> QED
      BY <1>1, <2>1, <2>2
  <1> DEFINE d == Demoted(h, Leaving)
  <1>4. h \o Leaving \in Seq(Models)
    BY <1>3, JoinProperties
  <1>5. d \in Seq(Models) /\ Len(d) <= set.host /\ Within(d, h \o Leaving)
    BY <1>1, <1>4, NewestWithin DEF Demoted
  <1> HIDE DEF d
  <1>6. Within(d \o Staying, (h \o Leaving) \o Staying)
    BY <1>2, <1>4, <1>5, WithinItself, JoinWithin
  <1>7. (h \o Leaving) \o Staying = h \o vram
    <2>1. \A a, b, c \in Seq(Models) : (a \o b) \o c = a \o (b \o c)
      BY JoinAssociates
    <2>2. (h \o Leaving) \o Staying = h \o (Leaving \o Staying)
      BY <1>2, <1>3, <2>1, Zenon
    <2> QED
      BY <1>3, <2>2
  <1>8. /\ d \o Staying \in Seq(Models) /\ h \o vram \in Seq(Models)
        /\ Members(h \o vram) = Members(h) \cup Members(vram)
    BY <1>1, <1>2, <1>5, JoinProperties, JoinMembers
  <1>9. Within(h \o vram, Resident)
    BY <1>1, WithinItself, JoinWithin DEF Resident
  <1>10. Within(d \o Staying, Resident)
    BY <1>6, <1>7, <1>8, <1>9, ResidentIs, WithinTransitive
  <1>11. Members(d \o Staying) \subseteq Members(h) \cup Members(vram)
    BY <1>6, <1>7, <1>8 DEF Within
  <1> QED
    BY <1>2, <1>5, <1>8, <1>10, <1>11 DEF d

(* Making room for nothing, because what was to come raised. *)
LEMMA RoomKept ==
    ASSUME IInv, set' = set, recency' = recency, NEW h \in Seq(Models), NEW v \in Seq(Models),
           Within(h \o v, Resident), Len(v) <= set.vram, Len(h) <= set.host,
           host' = h, vram' = v
    PROVE  IInv'
  BY NothingUsed

LEMMA ArrivalJoins ==
    ASSUME NEW S, NEW h \in Seq(S), NEW v \in Seq(S), NEW m \in S
    PROVE  (h \o v) \o <<m>> = h \o (v \o <<m>>)
  <1>1. <<m>> \in Seq(S)
    BY OneElement
  <1> QED
    BY <1>1, JoinAssociates

(* Making room and putting m there. *)
LEMMA ArrivalKept ==
    ASSUME IInv, set' = set, NEW m \in Models, NEW h \in Seq(Models), NEW v \in Seq(Models),
           Within(h \o v, Resident), m \notin Members(h \o v),
           Len(v) <= set.vram - 1, Len(h) <= set.host,
           host' = h, vram' = v \o <<m>>, recency' = ToEnd(recency, m)
    PROVE  IInv'
  <1>1. <<m>> \in Seq(Models) /\ Len(<<m>>) = 1
    BY OneElement
  <1>2. \A a, b \in Seq(Models) : a \o b \in Seq(Models) /\ Len(a \o b) = Len(a) + Len(b)
    BY JoinProperties
  <1>3. vram' \in Seq(Models) /\ Len(vram') = Len(v) + 1 /\ h \o v \in Seq(Models)
    BY <1>1, <1>2
  <1>4. Len(v) \in Nat
    OBVIOUS
  <1>5. Len(vram') <= set.vram
    <2>1. set.vram \in Nat
      BY ResidentIs
    <2> QED
      BY <1>3, <1>4, <2>1
  <1>6. (h \o v) \o <<m>> = h \o (v \o <<m>>)
    BY ArrivalJoins
  <1>7. host' \o vram' = (h \o v) \o <<m>>
    BY <1>6
  <1> QED
    BY <1>3, <1>5, <1>7, ModelUsed

(* The demotion raises: the oldest slot of VRAM is in neither tier. *)
LEMMA DemotionRaisesKept ==
    ASSUME IInv, set' = set, recency' = recency, NEW h \in Seq(Models), Within(h, host),
           DemotionRaises(h)
    PROVE  IInv'
  <1>1. /\ vram \in Seq(Models) /\ host \in Seq(Models) /\ Len(vram) \in Nat
        /\ Len(vram) <= set.vram /\ set.vram \in Nat \ {0} /\ set.host \in Nat
    BY ResidentIs
  <1>2. set.host > 0 /\ vram' = Tail(vram) /\ host' = Newest(h, set.host - 1)
    BY DEF DemotionRaises
  <1>3. vram # <<>>
    BY DEF DemotionRaises
  <1>4. Tail(vram) \in Seq(Models) /\ Len(Tail(vram)) <= Len(vram) /\ Within(Tail(vram), vram)
    BY <1>1, <1>3, TailWithin
  <1>5. Newest(h, set.host - 1) \in Seq(Models) /\ Len(Newest(h, set.host - 1)) <= set.host - 1
        /\ Within(Newest(h, set.host - 1), h)
    <2>1. set.host - 1 \in Nat
      BY <1>1, <1>2
    <2> QED
      BY <2>1, NewestWithin
  <1>6. Within(host', host)
    BY <1>1, <1>2, <1>5, WithinTransitive
  <1>7. Within(host' \o vram', Resident)
    BY <1>1, <1>2, <1>4, <1>5, <1>6, JoinWithin DEF Resident
  <1>8. Len(vram') <= set.vram /\ Len(host') <= set.host
    <2>1. Len(host') \in Nat /\ Len(vram') \in Nat
      BY <1>2, <1>4, <1>5
    <2> QED
      BY <1>1, <1>2, <1>4, <1>5, <2>1
  <1> QED
    BY <1>2, <1>4, <1>5, <1>7, <1>8, NothingUsed

----------------------------------------------------------------------------
(* One lemma for each call *)

LEMMA GetKept ==
    ASSUME IInv, NEW m \in Models, Rewrap!Get(m), UNCHANGED host, Uses(m)
    PROVE  IInv'
  <1>1. CASE m \in Members(vram)
    <2>1. vram' = ToEnd(vram, m) /\ Rewrap!Returns("get", m, "hit", {}) /\ set' = set
      BY <1>1 DEF Rewrap!Get, Members, ToEnd
    <2>2. recency' = ToEnd(recency, m)
      BY <2>1, ServedIsUsed DEF Serving
    <2> QED
      BY <1>1, <2>1, <2>2, HitKept
  <1>2. CASE m \notin Members(vram)
    <2>1. vram' = vram /\ Rewrap!Call("get", m, "none", NoSlot, {}) /\ set' = set
      BY <1>2 DEF Rewrap!Get, Members, Rewrap!NoSlot, NoSlot
    <2>2. recency' = recency
      BY <2>1, UnservedIsUnused DEF Serving
    <2>3. host' \o vram' = Resident
      BY <2>1 DEF Resident
    <2> QED
      BY <2>1, <2>2, <2>3, ResidentIs, WithinItself, NothingUsed
  <1> QED
    BY <1>1, <1>2

LEMMA RoomOfRewrap ==
    ASSUME IInv
    PROVE  /\ Rewrap!Room = Staying
           /\ Staying \in Seq(Models) /\ Len(Staying) <= set.vram - 1
           /\ Within(Staying, vram)
           /\ Within(host \o Staying, Resident)
           /\ Members(host \o Staying) \subseteq Members(host) \cup Members(vram)
  <1>1. vram \in Seq(Models) /\ host \in Seq(Models) /\ set.vram - 1 \in Nat
    BY ResidentIs
  <1>2. /\ Staying \in Seq(Models) /\ Len(Staying) <= set.vram - 1 /\ Within(Staying, vram)
    BY <1>1, NewestWithin DEF Staying
  <1>3. Within(host \o Staying, Resident)
    BY <1>1, <1>2, WithinItself, JoinWithin DEF Resident
  <1>4. Members(host \o Staying) \subseteq Members(host) \cup Members(vram)
    BY <1>3, ResidentIs DEF Within
  <1>5. Rewrap!Room = Staying
    BY DEF Rewrap!Room, Staying, Newest
  <1> QED
    BY <1>2, <1>3, <1>4, <1>5

LEMMA RewrapLoadKept ==
    ASSUME IInv, set.kind = "rewrap", NEW m \in Models, Rewrap!GetOrLoad(m),
           UNCHANGED host, Uses(m)
    PROVE  IInv'
  <1>0. set' = set /\ host' = host /\ host \in Seq(Models) /\ Len(host) <= set.host
    BY ResidentIs DEF Rewrap!GetOrLoad
  <1>1. CASE m \in Members(vram) /\ vram' = ToEnd(vram, m)
             /\ Rewrap!Returns("get_or_load", m, "hit", {})
    <2>1. recency' = ToEnd(recency, m)
      BY <1>1, ServedIsUsed DEF Serving
    <2> QED
      BY <1>0, <1>1, <2>1, HitKept
  <1>2. ASSUME NEW done, m \notin Members(vram), vram' = Append(Staying, m),
               Rewrap!Returns("get_or_load", m, "loaded", done)
        PROVE  IInv'
    <2>1. recency' = ToEnd(recency, m)
      BY <1>2, ServedIsUsed DEF Serving
    <2>2. vram' = Staying \o <<m>>
      BY <1>2, RoomOfRewrap, AppendIsJoin
    <2>3. Members(host) = {}
      <3>1. set.host = 0 /\ Len(host) = 0
        BY ResidentIs, SettingsAre
      <3>2. DOMAIN host = {}
        BY <1>0, <3>1
      <3> QED
        BY <3>2, MembersDef
    <2>4. m \notin Members(host \o Staying)
      BY <1>2, <2>3, RoomOfRewrap
    <2> QED
      BY <1>0, <2>1, <2>2, <2>4, RoomOfRewrap, ArrivalKept
  <1>3. CASE m \notin Members(vram) /\ vram' = Staying
             /\ Rewrap!Raises("get_or_load", m, Rewrap!Failure(m))
    <2>1. recency' = recency
      BY <1>3, RaisedIsUnused, FailureIs
    <2>2. Len(Staying) <= set.vram
      <3>1. Len(Staying) \in Nat /\ set.vram \in Nat
        BY RoomOfRewrap, ResidentIs
      <3> QED
        BY <3>1, RoomOfRewrap
    <2> QED
      BY <1>0, <1>3, <2>1, <2>2, RoomOfRewrap, RoomKept
  <1> QED
    BY <1>1, <1>2, <1>3, RoomOfRewrap
       DEF Rewrap!GetOrLoad, Rewrap!Hit, Rewrap!Load, Rewrap!LoadFails, Members, ToEnd

(* evict, with or without a host tier *)
LEMMA EvictKept ==
    ASSUME IInv, NEW m \in Models, set' = set, recency' = recency,
           NEW h \in Seq(Models), Within(h, host), Len(h) <= Len(host),
           vram' = Without(vram, m), host' = h
    PROVE  IInv'
  <1>1. Len(h) <= set.host
    <2>1. Len(h) \in Nat
      OBVIOUS
    <2> QED
      BY <2>1, ResidentIs
  <1> QED
    BY <1>1, TakenOut, RoomKept

LEMMA OldestOut ==
    ASSUME IInv, vram # <<>>
    PROVE  /\ Head(vram) \in Models /\ Tail(vram) \in Seq(Models)
           /\ Len(Tail(vram)) <= set.vram
           /\ Within(Tail(vram), vram)
           /\ <<Head(vram)>> \in Seq(Models)
           /\ <<Head(vram)>> \o Tail(vram) = vram
  <1>1. /\ vram \in Seq(Models) /\ Len(vram) \in Nat
        /\ Len(vram) <= set.vram /\ set.vram \in Nat
    BY ResidentIs
  <1>2. Head(vram) \in Models /\ <<Head(vram)>> \in Seq(Models)
    BY <1>1
  <1>3. Tail(vram) = SubSeq(vram, 2, Len(vram)) /\ Len(vram) >= 1
    BY <1>1, TailWithin
  <1>4. Tail(vram) \in Seq(Models) /\ Within(Tail(vram), vram) /\ Len(Tail(vram)) <= Len(vram)
    BY <1>1, TailWithin
  <1>5. SubSeq(vram, 1, 1) = <<Head(vram)>>
    <2>1. /\ SubSeq(vram, 1, 1) \in Seq(Models) /\ Len(SubSeq(vram, 1, 1)) = 1
          /\ SubSeq(vram, 1, 1)[1] = vram[1]
      BY <1>1, <1>3
    <2>2. \A a \in Seq(Models) : Len(a) = 1 => a = <<a[1]>>
      OBVIOUS
    <2>3. Head(vram) = vram[1]
      BY <1>1
    <2> QED
      BY <2>1, <2>2, <2>3, Zenon
  <1>6. <<Head(vram)>> \o Tail(vram) = vram
    <2>1. 1 \in 0 .. Len(vram) /\ 1 + 1 = 2
      BY <1>1, <1>3
    <2> QED
      BY <1>1, <1>3, <1>5, <2>1, Halves
  <1>7. Len(Tail(vram)) <= set.vram
    <2>1. Len(Tail(vram)) \in Nat
      BY <1>4
    <2> QED
      BY <1>1, <1>4, <2>1
  <1> QED
    BY <1>2, <1>4, <1>6, <1>7

LEMMA RewrapCallKept ==
    ASSUME IInv, RewrapCall
    PROVE  IInv'
  <1>0. set.kind = "rewrap" /\ Rewrap!Next /\ host' = host /\ Uses(last'.model)
    BY DEF RewrapCall
  <1>1. CASE \E m \in Models : Rewrap!Get(m)
    <2>1. PICK m \in Models : Rewrap!Get(m)
      BY <1>1
    <2>2. last'.model = m
      BY <2>1 DEF Rewrap!Get, Rewrap!Returns, Rewrap!Call
    <2> QED
      BY <1>0, <2>1, <2>2, GetKept
  <1>2. CASE \E m \in Models : Rewrap!GetOrLoad(m)
    <2>1. PICK m \in Models : Rewrap!GetOrLoad(m)
      BY <1>2
    <2>2. last'.model = m
      BY <2>1 DEF Rewrap!GetOrLoad, Rewrap!Hit, Rewrap!Load, Rewrap!LoadFails,
                  Rewrap!Returns, Rewrap!Raises, Rewrap!Call
    <2> QED
      BY <1>0, <2>1, <2>2, RewrapLoadKept
  <1>3. CASE \E m \in Models : Rewrap!Evict(m)
    <2>1. PICK m \in Models : Rewrap!Evict(m)
      BY <1>3
    <2>2. /\ vram' = Without(vram, m) /\ set' = set
          /\ Rewrap!Call("evict", m, "done", Rewrap!NoSlot, {})
      BY <2>1 DEF Rewrap!Evict, Without
    <2>3. recency' = recency
      BY <1>0, <2>2, UnservedIsUnused DEF Serving
    <2> QED
      BY <1>0, <2>2, <2>3, ResidentIs, WithinItself, EvictKept
  <1>4. CASE Rewrap!EvictLru
    <2>1. /\ vram # <<>> /\ vram' = Tail(vram) /\ set' = set
          /\ Rewrap!Call("evict_lru", Head(vram), "done", Rewrap!NoSlot, {})
      BY <1>4 DEF Rewrap!EvictLru
    <2>2. recency' = recency
      BY <1>0, <2>1, UnservedIsUnused DEF Serving
    <2>3. Tail(vram) \in Seq(Models) /\ Within(Tail(vram), vram) /\ Len(Tail(vram)) <= set.vram
      BY <2>1, OldestOut
    <2>4. Within(host \o Tail(vram), Resident)
      BY <2>3, ResidentIs, WithinItself, JoinWithin DEF Resident
    <2> QED
      BY <1>0, <2>1, <2>2, <2>3, <2>4, ResidentIs, RoomKept
  <1> QED
    BY <1>0, <1>1, <1>2, <1>3, <1>4 DEF Rewrap!Next

(* Room made for a model that stays away, or for one that comes. *)
LEMMA MadeRoomKept ==
    ASSUME IInv, set' = set, recency' = recency, NEW h \in Seq(Models), Within(h, host),
           MakesRoom(h, <<>>)
    PROVE  IInv'
  <1>1. /\ Staying \in Seq(Models) /\ Len(Staying) <= set.vram - 1
        /\ Demoted(h, Leaving) \in Seq(Models) /\ Len(Demoted(h, Leaving)) <= set.host
        /\ Within(Demoted(h, Leaving) \o Staying, Resident)
    BY RoomIsMade
  <1>2. vram' = Staying
    BY <1>1, JoinEmpty DEF MakesRoom
  <1>3. Len(Staying) <= set.vram
    <2>1. Len(Staying) \in Nat /\ set.vram \in Nat
      BY <1>1, ResidentIs
    <2> QED
      BY <1>1, <2>1
  <1>4. host' = Demoted(h, Leaving)
    BY DEF MakesRoom
  <1> QED
    BY <1>1, <1>2, <1>3, <1>4, RoomKept

LEMMA BroughtInKept ==
    ASSUME IInv, set' = set, NEW m \in Models, NEW h \in Seq(Models), Within(h, host),
           m \notin Members(h), m \notin Members(vram),
           MakesRoom(h, <<m>>), recency' = ToEnd(recency, m)
    PROVE  IInv'
  <1>1. /\ Staying \in Seq(Models) /\ Len(Staying) <= set.vram - 1
        /\ Demoted(h, Leaving) \in Seq(Models) /\ Len(Demoted(h, Leaving)) <= set.host
        /\ Within(Demoted(h, Leaving) \o Staying, Resident)
        /\ m \notin Members(Demoted(h, Leaving) \o Staying)
    BY RoomIsMade
  <1>2. vram' = Staying \o <<m>> /\ host' = Demoted(h, Leaving)
    BY DEF MakesRoom
  <1> QED
    BY <1>1, <1>2, ArrivalKept

LEMMA GetOrLoadKept ==
    ASSUME IInv, NEW m \in Models, GetOrLoad(m)
    PROVE  IInv'
  <1>0. set' = set /\ Uses(m)
    BY DEF GetOrLoad
  <1>1. CASE HitVram(m)
    <2>1. /\ m \in Members(vram) /\ vram' = ToEnd(vram, m) /\ host' = host
          /\ Rewrap!Returns("get_or_load", m, "hit", {})
      BY <1>1 DEF HitVram, Rewrap!Hit, Members, ToEnd
    <2>2. recency' = ToEnd(recency, m)
      BY <1>0, <2>1, ServedIsUsed DEF Serving
    <2> QED
      BY <1>0, <2>1, <2>2, HitKept
  <1>2. CASE Promote(m)
    <2> DEFINE rest == Without(host, m)
    <2>1. m \notin Members(vram)
      BY <1>2 DEF Promote
    <2>2. rest \in Seq(Models) /\ Within(rest, host) /\ m \notin Members(rest)
      <3>1. host \in Seq(Models) /\ Distinct(host)
        BY ResidentIs
      <3>2. rest \in Seq(Models) /\ Within(rest, host) /\ Members(rest) = Members(host) \ {m}
        BY <3>1, WithoutProperties
      <3> QED
        BY <3>2
    <2>3. \/ MakesRoom(rest, <<m>>) /\ Returns("get_or_load", m, "promoted", {})
          \/ MakesRoom(rest, <<>>) /\ Raises("get_or_load", m, "raised")
          \/ DemotionRaises(rest) /\ Raises("get_or_load", m, "raised")
      BY <1>2 DEF Promote
    <2> HIDE DEF rest
    <2>4. CASE MakesRoom(rest, <<m>>) /\ Returns("get_or_load", m, "promoted", {})
      <3>1. recency' = ToEnd(recency, m)
        BY <1>0, <2>4, ServedIsUsed DEF Returns, Serving
      <3> QED
        BY <1>0, <2>1, <2>2, <2>4, <3>1, BroughtInKept
    <2>5. CASE MakesRoom(rest, <<>>) /\ Raises("get_or_load", m, "raised")
      <3>1. recency' = recency
        BY <1>0, <2>5, RaisedIsUnused DEF Raises
      <3> QED
        BY <1>0, <2>2, <2>5, <3>1, MadeRoomKept
    <2>6. CASE DemotionRaises(rest) /\ Raises("get_or_load", m, "raised")
      <3>1. recency' = recency
        BY <1>0, <2>6, RaisedIsUnused DEF Raises
      <3> QED
        BY <1>0, <2>2, <2>6, <3>1, DemotionRaisesKept
    <2> QED
      BY <2>3, <2>4, <2>5, <2>6
  <1>3. CASE LoadCold(m)
    <2>1. m \notin Members(vram) /\ m \notin Members(host)
      BY <1>3 DEF LoadCold
    <2>2. host \in Seq(Models) /\ Within(host, host)
      BY ResidentIs, WithinItself
    <2>3. \/ \E done : MakesRoom(host, <<m>>) /\ Returns("get_or_load", m, "loaded", done)
          \/ MakesRoom(host, <<>>) /\ Raises("get_or_load", m, Rewrap!Failure(m))
          \/ DemotionRaises(host) /\ Raises("get_or_load", m, "raised")
      BY <1>3 DEF LoadCold
    <2>4. ASSUME NEW done, MakesRoom(host, <<m>>), Returns("get_or_load", m, "loaded", done)
          PROVE  IInv'
      <3>1. recency' = ToEnd(recency, m)
        BY <1>0, <2>4, ServedIsUsed DEF Returns, Serving
      <3> QED
        BY <1>0, <2>1, <2>2, <2>4, <3>1, BroughtInKept
    <2>5. CASE MakesRoom(host, <<>>) /\ Raises("get_or_load", m, Rewrap!Failure(m))
      <3>1. recency' = recency
        BY <1>0, <2>5, RaisedIsUnused, FailureIs DEF Raises
      <3> QED
        BY <1>0, <2>2, <2>5, <3>1, MadeRoomKept
    <2>6. CASE DemotionRaises(host) /\ Raises("get_or_load", m, "raised")
      <3>1. recency' = recency
        BY <1>0, <2>6, RaisedIsUnused DEF Raises
      <3> QED
        BY <1>0, <2>2, <2>6, <3>1, DemotionRaisesKept
    <2> QED
      BY <2>3, <2>4, <2>5, <2>6
  <1> QED
    BY <1>1, <1>2, <1>3 DEF GetOrLoad

LEMMA EvictTieredKept ==
    ASSUME IInv, NEW m \in Models, Evict(m)
    PROVE  IInv'
  <1>1. /\ vram' = Without(vram, m) /\ host' = Without(host, m)
        /\ set' = set /\ recency' = recency
    BY DEF Evict
  <1>2. host \in Seq(Models) /\ Distinct(host)
    BY ResidentIs
  <1>3. /\ Without(host, m) \in Seq(Models) /\ Within(Without(host, m), host)
        /\ Len(Without(host, m)) <= Len(host)
    BY <1>2, WithoutProperties
  <1> QED
    BY <1>1, <1>3, EvictKept

LEMMA EvictLruKept ==
    ASSUME IInv, EvictLru
    PROVE  IInv'
  <1>1. vram # <<>> /\ vram' = Tail(vram) /\ set' = set /\ recency' = recency
    BY DEF EvictLru, DemotionRaises
  <1>2. /\ Tail(vram) \in Seq(Models) /\ Len(Tail(vram)) <= set.vram
        /\ Within(Tail(vram), vram)
        /\ <<Head(vram)>> \in Seq(Models) /\ <<Head(vram)>> \o Tail(vram) = vram
    BY <1>1, OldestOut
  <1>3. host \in Seq(Models) /\ vram \in Seq(Models) /\ set.host \in Nat /\ Len(host) <= set.host
    BY ResidentIs
  <1> DEFINE out == <<Head(vram)>>
             rest == Tail(vram)
  <1>4. CASE host' = Demoted(host, out)
    <2> DEFINE d == Demoted(host, out)
    <2>1. host \o out \in Seq(Models)
      BY <1>2, <1>3, JoinProperties
    <2>2. d \in Seq(Models) /\ Len(d) <= set.host /\ Within(d, host \o out)
      BY <1>3, <2>1, NewestWithin DEF Demoted
    <2>3. (host \o out) \o rest = Resident
      <3>1. (host \o out) \o rest = host \o (out \o rest)
        BY <1>2, <1>3, JoinAssociates
      <3> QED
        BY <1>2, <3>1 DEF Resident
    <2> HIDE DEF d, out, rest
    <2>4. Within(d \o rest, (host \o out) \o rest)
      BY <1>2, <2>1, <2>2, WithinItself, JoinWithin DEF rest
    <2>5. Within(d \o rest, Resident)
      BY <2>3, <2>4
    <2>6. rest \in Seq(Models) /\ vram' = rest /\ Len(rest) <= set.vram /\ host' = d
      BY <1>1, <1>2, <1>4 DEF rest, d
    <2> QED
      BY <1>1, <2>2, <2>5, <2>6, RoomKept
  <1>5. CASE set.host > 0 /\ host' = Newest(host, set.host - 1)
    <2> DEFINE n == Newest(host, set.host - 1)
    <2>1. n \in Seq(Models) /\ Len(n) <= set.host - 1 /\ Within(n, host)
      <3>1. set.host - 1 \in Nat
        BY <1>3, <1>5
      <3> QED
        BY <1>3, <3>1, NewestWithin
    <2>2. Len(n) <= set.host
      <3>1. Len(n) \in Nat
        BY <2>1
      <3> QED
        BY <1>3, <2>1, <3>1
    <2> HIDE DEF n, rest
    <2>3. rest \in Seq(Models) /\ vram' = rest /\ Len(rest) <= set.vram /\ Within(rest, vram)
      BY <1>1, <1>2 DEF rest
    <2>4. Within(n \o rest, Resident)
      BY <1>3, <2>1, <2>3, JoinWithin DEF Resident
    <2>5. host' = n
      BY <1>5 DEF n
    <2> QED
      BY <1>1, <2>1, <2>2, <2>3, <2>4, <2>5, RoomKept
  <1> QED
    BY <1>4, <1>5 DEF EvictLru, DemotionRaises

LEMMA InitHolds ==
    ASSUME Init
    PROVE  IInv
  <1>1. /\ set \in Settings /\ vram = <<>> /\ host = <<>> /\ recency = <<>>
    BY DEF Init
  <1>2. TierTypes
    BY <1>1 DEF TierTypes
  <1>3. Resident = <<>>
    BY <1>1 DEF Resident
  <1>4. Distinct(<<>>) /\ Within(<<>>, <<>>)
    BY MembersDef DEF Distinct, Within
  <1>5. TiersBounded
    BY <1>1, SettingsAre DEF TiersBounded
  <1> QED
    BY <1>1, <1>2, <1>3, <1>4, <1>5 DEF IInv

LEMMA StepKept ==
    ASSUME IInv, [Next]_vars
    PROVE  IInv'
  <1>1. CASE RewrapCall
    BY <1>1, RewrapCallKept
  <1>2. ASSUME NEW m \in Models, Get(m)
        PROVE  IInv'
    BY <1>2, GetKept DEF Get
  <1>3. ASSUME NEW m \in Models, GetOrLoad(m)
        PROVE  IInv'
    BY <1>3, GetOrLoadKept
  <1>4. ASSUME NEW m \in Models, Evict(m)
        PROVE  IInv'
    BY <1>4, EvictTieredKept
  <1>5. CASE EvictLru
    BY <1>5, EvictLruKept
  <1>6. CASE UNCHANGED vars
    <2>1. set' = set /\ recency' = recency /\ vram' = vram /\ host' = host
      BY <1>6 DEF vars
    <2>2. host' \o vram' = Resident
      BY <2>1 DEF Resident
    <2> QED
      BY <2>1, <2>2, ResidentIs, WithinItself, NothingUsed
  <1> QED
    BY <1>1, <1>2, <1>3, <1>4, <1>5, <1>6 DEF Next

LEMMA Invariance == Spec => []IInv
  BY InitHolds, StepKept, PTL DEF Spec

----------------------------------------------------------------------------
(* The theorems *)

(* No model is resident twice, in one tier or in both, and neither tier    *)
(* exceeds its slots, whatever loads, promotes or demotes and whichever of *)
(* those raises midway (model_pool.py:502-587).                            *)
THEOREM ResidentOnce == Spec => []TiersSound
  <1>1. IInv => TiersSound
    BY ResidentIs DEF TiersSound, TiersDisjoint, TiersBounded, Distinct
  <1> QED
    BY <1>1, Invariance, PTL

(* From the oldest host slot to the newest in VRAM, the resident models    *)
(* stand in the order of their last use, so what leaves a tier was used    *)
(* least recently (popitem(last=False), model_pool.py:550-587).            *)
THEOREM LeastRecentLeavesFirst == Spec => []OldestLeavesFirst
  <1>1. IInv => OldestLeavesFirst
    BY DEF IInv, Within, Resident, OldestLeavesFirst
  <1> QED
    BY <1>1, Invariance, PTL

----------------------------------------------------------------------------
(* Where the weights of the slots are *)

SlotTypes(f) == DOMAIN f = Models /\ \A m \in Models : "at" \in DOMAIN f[m]
WholeIn(v, h, f) == /\ \A m \in Members(v) : f[m].at = "device"
                    /\ \A m \in Members(h) : f[m].at = "host"
Whole == SlotTypes(held) /\ ResidentsAreWhole

LEMMA MembersIn ==
    ASSUME NEW S, NEW s \in Seq(S)
    PROVE  Members(s) \subseteq S
  BY MembersDef

LEMMA TornDownIs ==
    ASSUME NEW f, NEW models, SlotTypes(f)
    PROVE  /\ SlotTypes(TornDown(f, models))
           /\ \A m \in Models \ models : TornDown(f, models)[m] = f[m]
  BY DEF SlotTypes, TornDown, Rewrap!TornDown, Rewrap!NoSlot

LEMMA MovedIs ==
    ASSUME NEW f, NEW models, NEW to, SlotTypes(f)
    PROVE  /\ SlotTypes(Moved(f, models, to))
           /\ \A m \in Models \ models : Moved(f, models, to)[m] = f[m]
           /\ \A m \in Models \cap models : Moved(f, models, to)[m].at = to
  BY DEF SlotTypes, Moved

LEMMA WholeHolds ==
    ASSUME SlotTypes(held'), WholeIn(vram', host', held'),
           Served' => last'.model \in Members(vram') /\ last'.slot = held'[last'.model]
    PROVE  Whole'
  BY DEF Whole, WholeIn, ResidentsAreWhole, SlotTypes, Members, Rewrap!Members

LEMMA WholeIs ==
    ASSUME Whole
    PROVE  SlotTypes(held) /\ WholeIn(vram, host, held)
  BY DEF Whole, ResidentsAreWhole, WholeIn

(* The oldest and the newest of a sequence make it up. *)
LEMMA OldestAndNewest ==
    ASSUME NEW S, NEW s \in Seq(S), NEW n \in Nat
    PROVE  /\ Oldest(s, n) \in Seq(S) /\ Newest(s, n) \in Seq(S)
           /\ Oldest(s, n) \o Newest(s, n) = s
  <1>1. Len(s) \in Nat
    OBVIOUS
  <1>2. CASE Len(s) <= n
    <2>1. Oldest(s, n) = <<>> /\ Newest(s, n) = s
      BY <1>2 DEF Oldest, Rewrap!Oldest, Newest, Rewrap!Newest
    <2> QED
      BY <2>1, JoinEmpty
  <1>3. CASE ~ (Len(s) <= n)
    <2>1. /\ Oldest(s, n) = SubSeq(s, 1, Len(s) - n)
          /\ Newest(s, n) = SubSeq(s, Len(s) - n + 1, Len(s))
          /\ Len(s) - n \in 0 .. Len(s)
      BY <1>1, <1>3 DEF Oldest, Rewrap!Oldest, Newest, Rewrap!Newest
    <2> QED
      BY <2>1, Halves
  <1> QED
    BY <1>2, <1>3

LEMMA OldestApart ==
    ASSUME NEW S, NEW s \in Seq(S), NEW n \in Nat, Distinct(s)
    PROVE  /\ Members(Oldest(s, n)) \cap Members(Newest(s, n)) = {}
           /\ Members(Oldest(s, n)) \cup Members(Newest(s, n)) = Members(s)
  <1>1. /\ Oldest(s, n) \in Seq(S) /\ Newest(s, n) \in Seq(S)
        /\ Oldest(s, n) \o Newest(s, n) = s
    BY OldestAndNewest
  <1> DEFINE old == Oldest(s, n)
             new == Newest(s, n)
  <1>2. old \in Seq(S) /\ new \in Seq(S) /\ old \o new = s
    BY <1>1
  <1> HIDE DEF old, new
  <1>3. Members(old \o new) = Members(old) \cup Members(new)
    BY <1>2, JoinMembers
  <1>4. Distinct(old \o new)
    BY <1>2
  <1>5. Members(old) \cap Members(new) = {}
    BY <1>2, <1>4, DistinctParts
  <1> QED
    BY <1>2, <1>3, <1>5 DEF old, new

LEMMA JoinsOfModels ==
    \A a, b, c \in Seq(Models) : (a \o b) \o c = a \o (b \o c)
  BY JoinAssociates

(* What the host tier may be while a model leaves VRAM. *)
LEMMA HostPart ==
    ASSUME IInv, NEW h \in Seq(Models), Within(h, host),
           NEW leaving \in Seq(Models), NEW staying \in Seq(Models),
           leaving \o staying = vram
    PROVE  /\ h \o leaving \in Seq(Models) /\ Distinct(h \o leaving) /\ Distinct(h)
           /\ Members(h \o leaving) = Members(h) \cup Members(leaving)
           /\ Members(h) \cap Members(leaving) = {}
           /\ Members(h \o leaving) \cap Members(staying) = {}
           /\ Members(h) \subseteq Members(host)
           /\ Members(leaving) \subseteq Members(vram)
           /\ Members(staying) \subseteq Members(vram)
  <1>1. /\ vram \in Seq(Models) /\ host \in Seq(Models) /\ Resident \in Seq(Models)
        /\ recency \in Seq(Models) /\ Within(Resident, recency) /\ Distinct(recency)
    BY ResidentIs
  <1>2. h \o leaving \in Seq(Models) /\ h \o vram \in Seq(Models)
    BY <1>1, JoinProperties
  <1>3. Within(h \o vram, Resident)
    BY <1>1, WithinItself, JoinWithin DEF Resident
  <1>4. Distinct(h \o vram)
    BY <1>1, <1>2, <1>3, WithinDistinct
  <1>5. (h \o leaving) \o staying = h \o vram
    <2>1. (h \o leaving) \o staying = h \o (leaving \o staying)
      BY JoinsOfModels, Zenon
    <2> QED
      BY <2>1, Zenon
  <1>6. /\ Distinct(h \o leaving)
        /\ Members(h \o leaving) \cap Members(staying) = {}
    BY <1>2, <1>4, <1>5, DistinctParts
  <1>7. Distinct(h) /\ Members(h) \cap Members(leaving) = {}
    BY <1>6, DistinctParts
  <1>8. /\ Members(h \o leaving) = Members(h) \cup Members(leaving)
        /\ Members(vram) = Members(leaving) \cup Members(staying)
    <2>1. \A a, b \in Seq(Models) : Members(a \o b) = Members(a) \cup Members(b)
      BY JoinMembers
    <2> QED
      BY <2>1
  <1>9. Members(h) \subseteq Members(host)
    BY DEF Within
  <1> QED
    BY <1>2, <1>6, <1>7, <1>8, <1>9

(* A demotion: what stays in VRAM keeps its weights there, and what is in  *)
(* the host tier after it, the demoted model with the rest, has them there.*)
LEMMA DemotedWhole ==
    ASSUME IInv, Whole, NEW h \in Seq(Models), Within(h, host),
           NEW leaving \in Seq(Models), NEW staying \in Seq(Models),
           leaving \o staying = vram
    PROVE  /\ SlotTypes(SlotsDemoted(h, leaving))
           /\ WholeIn(staying, Demoted(h, leaving), SlotsDemoted(h, leaving))
           /\ Demoted(h, leaving) \in Seq(Models)
           /\ Members(Demoted(h, leaving)) \subseteq Members(h) \cup Members(leaving)
  <1> DEFINE all == h \o leaving
             gone == Members(Oldest(all, set.host))
             kept == Members(Newest(all, set.host))
             moved == Moved(held, Members(leaving), "host")
             room == TornDown(moved, gone)
  <1>1. /\ all \in Seq(Models) /\ Distinct(all)
        /\ Members(all) = Members(h) \cup Members(leaving)
        /\ Members(h) \cap Members(leaving) = {}
        /\ Members(all) \cap Members(staying) = {}
        /\ Members(h) \subseteq Members(host)
        /\ Members(staying) \subseteq Members(vram)
    BY HostPart
  <1>2. gone \cap kept = {} /\ gone \cup kept = Members(all)
    BY <1>1, ResidentIs, OldestApart
  <1>3. SlotTypes(held) /\ WholeIn(vram, host, held)
    BY WholeIs
  <1>4. /\ Members(h) \subseteq Models /\ Members(leaving) \subseteq Models
        /\ Members(staying) \subseteq Models
    BY MembersIn
  <1>5. /\ SlotTypes(moved)
        /\ \A m \in Models \ Members(leaving) : moved[m] = held[m]
        /\ \A m \in Models \cap Members(leaving) : moved[m].at = "host"
    BY <1>3, MovedIs
  <1> HIDE DEF moved
  <1>6. SlotTypes(room) /\ \A m \in Models \ gone : room[m] = moved[m]
    BY <1>5, TornDownIs
  <1>7. SlotsDemoted(h, leaving) = room /\ Demoted(h, leaving) = Newest(all, set.host)
    BY DEF SlotsDemoted, Demoted, moved
  <1>8. Newest(all, set.host) \in Seq(Models)
    BY <1>1, ResidentIs, OldestAndNewest
  <1> HIDE DEF room, gone, all
  <1>9. ASSUME NEW m \in Members(staying)
        PROVE  room[m].at = "device"
    <2>1. m \in Models /\ m \notin gone /\ m \notin Members(leaving) /\ m \in Members(vram)
      BY <1>1, <1>2, <1>4
    <2>2. room[m] = held[m]
      BY <1>5, <1>6, <2>1
    <2> QED
      BY <1>3, <2>1, <2>2 DEF WholeIn
  <1>10. ASSUME NEW m \in kept
         PROVE  room[m].at = "host"
    <2>1. m \in Models /\ m \notin gone /\ m \in Members(h) \cup Members(leaving)
      BY <1>1, <1>2, <1>4
    <2>2. room[m] = moved[m]
      BY <1>6, <2>1
    <2>3. CASE m \in Members(leaving)
      BY <1>5, <2>1, <2>2, <2>3
    <2>4. CASE m \notin Members(leaving)
      <3>1. m \in Members(host) /\ moved[m] = held[m]
        BY <1>1, <1>5, <2>1, <2>4
      <3> QED
        BY <1>3, <2>2, <3>1 DEF WholeIn
    <2> QED
      BY <2>3, <2>4
  <1>11. WholeIn(staying, Newest(all, set.host), room)
    BY <1>9, <1>10 DEF WholeIn
  <1> QED
    BY <1>1, <1>2, <1>6, <1>7, <1>8, <1>11

LEMMA VramParts ==
    ASSUME IInv
    PROVE  /\ Leaving \in Seq(Models) /\ Staying \in Seq(Models)
           /\ Leaving \o Staying = vram
  <1>1. vram \in Seq(Models) /\ set.vram - 1 \in Nat
    BY ResidentIs
  <1> QED
    BY <1>1, OldestAndNewest DEF Leaving, Staying

(* The model that comes into VRAM, or nothing. *)
LEMMA NobodyCame ==
    ASSUME IInv, Whole, NEW h \in Seq(Models), Within(h, host), MakesRoom(h, <<>>),
           ~ Served', SlotTypes(held'),
           \A x \in Models : \/ held'[x] = SlotsDemoted(h, Leaving)[x]
                             \/ x \notin Members(h) \cup Members(vram)
    PROVE  Whole'
  <1>1. /\ WholeIn(Staying, Demoted(h, Leaving), SlotsDemoted(h, Leaving))
        /\ Demoted(h, Leaving) \in Seq(Models)
        /\ Members(Demoted(h, Leaving)) \subseteq Members(h) \cup Members(Leaving)
    BY VramParts, DemotedWhole
  <1>2. vram' = Staying /\ host' = Demoted(h, Leaving)
    BY VramParts, JoinEmpty DEF MakesRoom
  <1>3. Members(vram) = Members(Leaving) \cup Members(Staying)
    <2>1. \A a, b \in Seq(Models) : Members(a \o b) = Members(a) \cup Members(b)
      BY JoinMembers
    <2> QED
      BY <2>1, VramParts
  <1>4. Members(Staying) \subseteq Models /\ Members(Demoted(h, Leaving)) \subseteq Models
    BY <1>1, VramParts, MembersIn
  <1>5. WholeIn(vram', host', held')
    BY <1>1, <1>2, <1>3, <1>4 DEF WholeIn
  <1> QED
    BY <1>5, WholeHolds

LEMMA SomeoneCame ==
    ASSUME IInv, Whole, NEW m \in Models, NEW h \in Seq(Models), Within(h, host),
           m \notin Members(h), m \notin Members(vram), MakesRoom(h, <<m>>),
           SlotTypes(held'), held'[m].at = "device",
           \A x \in Models : x = m \/ held'[x] = SlotsDemoted(h, Leaving)[x],
           last'.model = m, last'.slot = held'[m]
    PROVE  Whole'
  <1>1. /\ WholeIn(Staying, Demoted(h, Leaving), SlotsDemoted(h, Leaving))
        /\ Demoted(h, Leaving) \in Seq(Models)
        /\ Members(Demoted(h, Leaving)) \subseteq Members(h) \cup Members(Leaving)
    BY VramParts, DemotedWhole
  <1>2. vram' = Staying \o <<m>> /\ host' = Demoted(h, Leaving)
    BY DEF MakesRoom
  <1>3. Members(vram) = Members(Leaving) \cup Members(Staying)
    <2>1. \A a, b \in Seq(Models) : Members(a \o b) = Members(a) \cup Members(b)
      BY JoinMembers
    <2> QED
      BY <2>1, VramParts
  <1>4. Members(Staying) \subseteq Models /\ Members(Demoted(h, Leaving)) \subseteq Models
    BY <1>1, VramParts, MembersIn
  <1>5. Members(vram') = Members(Staying) \cup {m}
    <2>1. <<m>> \in Seq(Models) /\ Members(<<m>>) = {m}
      BY OneElement
    <2>2. \A a, b \in Seq(Models) : Members(a \o b) = Members(a) \cup Members(b)
      BY JoinMembers
    <2>3. Staying \in Seq(Models)
      BY VramParts
    <2> QED
      BY <1>2, <2>1, <2>2, <2>3
  <1>6. WholeIn(vram', host', held')
    BY <1>1, <1>2, <1>3, <1>4, <1>5 DEF WholeIn
  <1>7. last'.model \in Members(vram')
    BY <1>5
  <1> QED
    BY <1>6, <1>7, WholeHolds

(* The demotion raises: the model that was leaving is in no tier. *)
LEMMA DemotionRaisesWhole ==
    ASSUME IInv, Whole, NEW h \in Seq(Models), Within(h, host), DemotionRaises(h), ~ Served'
    PROVE  Whole'
  <1>1. /\ vram # <<>> /\ vram' = Tail(vram) /\ host' = Newest(h, set.host - 1)
        /\ held' = TornDown(Moved(held, {Head(vram)}, "split"),
                            Members(Oldest(h, set.host - 1)))
        /\ set.host - 1 \in Nat
    BY ResidentIs DEF DemotionRaises
  <1> DEFINE out == <<Head(vram)>>
             rest == Tail(vram)
             gone == Members(Oldest(h, set.host - 1))
             moved == Moved(held, {Head(vram)}, "split")
  <1>2. /\ Head(vram) \in Models /\ rest \in Seq(Models)
        /\ out \in Seq(Models) /\ out \o rest = vram
    BY <1>1, OldestOut
  <1>3. Members(out) = {Head(vram)}
    BY <1>2, OneElement
  <1>4. /\ Distinct(h) /\ Members(h \o out) = Members(h) \cup Members(out)
        /\ Members(h) \cap Members(out) = {}
        /\ Members(h \o out) \cap Members(rest) = {}
        /\ Members(h) \subseteq Members(host)
        /\ Members(rest) \subseteq Members(vram)
    <2> HIDE DEF out, rest
    <2> QED
      BY <1>2, HostPart
  <1>5. gone \cap Members(host') = {} /\ gone \cup Members(host') = Members(h)
    BY <1>1, <1>4, OldestApart
  <1>6. SlotTypes(held) /\ WholeIn(vram, host, held)
    BY WholeIs
  <1>7. SlotTypes(moved) /\ \A m \in Models \ {Head(vram)} : moved[m] = held[m]
    BY <1>6, MovedIs
  <1> HIDE DEF moved
  <1>8. SlotTypes(held') /\ \A m \in Models \ gone : held'[m] = moved[m]
    BY <1>1, <1>7, TornDownIs DEF moved
  <1>9. Members(rest) \subseteq Models /\ Members(h) \subseteq Models
    BY <1>2, MembersIn
  <1> HIDE DEF gone, out, rest
  <1>10. ASSUME NEW m \in Members(rest)
         PROVE  held'[m].at = "device"
    <2>1. m \in Models \ gone /\ m # Head(vram) /\ m \in Members(vram)
      BY <1>3, <1>4, <1>5, <1>9
    <2> QED
      BY <1>6, <1>7, <1>8, <2>1 DEF WholeIn
  <1>11. ASSUME NEW m \in Members(host')
         PROVE  held'[m].at = "host"
    <2>1. m \in Models \ gone /\ m # Head(vram) /\ m \in Members(host)
      BY <1>3, <1>4, <1>5, <1>9
    <2> QED
      BY <1>6, <1>7, <1>8, <2>1 DEF WholeIn
  <1>12. WholeIn(vram', host', held')
    BY <1>1, <1>10, <1>11 DEF WholeIn, rest
  <1> QED
    BY <1>8, <1>12, WholeHolds

LEMMA SlotIsOnDevice ==
    ASSUME NEW m, NEW done
    PROVE  /\ SlotOf(Describe[m], set, done).at = "device"
           /\ "at" \in DOMAIN SlotOf(Describe[m], set, done)
           /\ Rewrap!SlotOf(Describe[m], set, done).at = "device"
           /\ "at" \in DOMAIN Rewrap!SlotOf(Describe[m], set, done)
  BY DEF SlotOf, Rewrap!SlotOf

LEMMA ToEndMembers ==
    ASSUME NEW S, NEW s \in Seq(S), NEW m \in S, Distinct(s)
    PROVE  Members(ToEnd(s, m)) = Members(s) \cup {m}
  <1>1. /\ ToEnd(s, m) = Without(s, m) \o <<m>>
        /\ Without(s, m) \in Seq(S) /\ Members(Without(s, m)) = Members(s) \ {m}
    BY ToEndProperties, WithoutProperties
  <1>2. <<m>> \in Seq(S) /\ Members(<<m>>) = {m}
    BY OneElement
  <1>3. Members(Without(s, m) \o <<m>>) = Members(Without(s, m)) \cup Members(<<m>>)
    <2>1. \A t, u \in Seq(S) : Members(t \o u) = Members(t) \cup Members(u)
      BY JoinMembers
    <2> QED
      BY <1>1, <1>2, <2>1, Zenon
  <1> QED
    BY <1>1, <1>2, <1>3

(* A hit in VRAM moves nothing but the order of use. *)
LEMMA HitWhole ==
    ASSUME IInv, Whole, NEW m \in Models, m \in Members(vram),
           vram' = ToEnd(vram, m), host' = host, held' = held,
           last'.model = m, last'.slot = held'[m]
    PROVE  Whole'
  <1>1. vram \in Seq(Models) /\ Distinct(vram)
    BY ResidentIs
  <1>2. Members(vram') = Members(vram)
    <2>1. \A s \in Seq(Models) : Distinct(s) => Members(ToEnd(s, m)) = Members(s) \cup {m}
      <3> TAKE s \in Seq(Models)
      <3> QED
        BY ToEndMembers
    <2>2. Members(ToEnd(vram, m)) = Members(vram) \cup {m}
      BY <1>1, <2>1, Zenon
    <2>3. Members(vram) \cup {m} = Members(vram)
      OBVIOUS
    <2> QED
      BY <2>2, <2>3
  <1>3. SlotTypes(held) /\ WholeIn(vram, host, held)
    BY WholeIs
  <1>4. WholeIn(vram', host', held')
    BY <1>2, <1>3 DEF WholeIn
  <1> QED
    BY <1>2, <1>3, <1>4, WholeHolds

LEMMA GetWhole ==
    ASSUME IInv, Whole, NEW m \in Models, Rewrap!Get(m), UNCHANGED host
    PROVE  Whole'
  <1>1. CASE m \in Members(vram)
    <2>1. /\ vram' = ToEnd(vram, m) /\ held' = held
          /\ last'.model = m /\ last'.slot = held'[m]
      BY <1>1 DEF Rewrap!Get, Rewrap!Returns, Rewrap!Call, Members, ToEnd
    <2> QED
      BY <1>1, <2>1, HitWhole
  <1>2. CASE m \notin Members(vram)
    <2>1. vram' = vram /\ held' = held /\ ~ Served'
      BY <1>2 DEF Rewrap!Get, Rewrap!Call, Members, Served
    <2>2. SlotTypes(held') /\ WholeIn(vram', host', held')
      BY <2>1, WholeIs
    <2> QED
      BY <2>1, <2>2, WholeHolds
  <1> QED
    BY <1>1, <1>2

LEMMA PromoteWhole ==
    ASSUME IInv, Whole, NEW m \in Models, Promote(m)
    PROVE  Whole'
  <1> DEFINE rest == Without(host, m)
             room == SlotsDemoted(rest, Leaving)
  <1>1. m \notin Members(vram) /\ m \in Members(host)
    BY DEF Promote
  <1>2. rest \in Seq(Models) /\ Within(rest, host) /\ m \notin Members(rest)
    <2>1. host \in Seq(Models) /\ Distinct(host)
      BY ResidentIs
    <2>2. rest \in Seq(Models) /\ Within(rest, host) /\ Members(rest) = Members(host) \ {m}
      BY <2>1, WithoutProperties
    <2> QED
      BY <2>2
  <1>3. \/ /\ MakesRoom(rest, <<m>>) /\ held' = Moved(room, {m}, "device")
           /\ Returns("get_or_load", m, "promoted", {})
        \/ /\ MakesRoom(rest, <<>>) /\ held' = Moved(room, {m}, "split")
           /\ Raises("get_or_load", m, "raised")
        \/ DemotionRaises(rest) /\ Raises("get_or_load", m, "raised")
    BY DEF Promote
  <1> HIDE DEF rest
  <1>4. SlotTypes(room)
    BY <1>2, VramParts, DemotedWhole
  <1>5. \A to : /\ SlotTypes(Moved(room, {m}, to))
                /\ \A x \in Models : x = m \/ Moved(room, {m}, to)[x] = room[x]
                /\ Moved(room, {m}, to)[m].at = to
    <2> HIDE DEF room
    <2> QED
      BY <1>4, MovedIs
  <1>6. CASE /\ MakesRoom(rest, <<m>>) /\ held' = Moved(room, {m}, "device")
             /\ Returns("get_or_load", m, "promoted", {})
    <2>1. last'.model = m /\ last'.slot = held'[m]
      BY <1>6 DEF Returns, Rewrap!Returns, Rewrap!Call
    <2>2. /\ SlotTypes(held') /\ held'[m].at = "device"
          /\ \A x \in Models : x = m \/ held'[x] = SlotsDemoted(rest, Leaving)[x]
      <3>1. held' = Moved(room, {m}, "device")
        BY <1>6
      <3> HIDE DEF room
      <3>2. /\ SlotTypes(held') /\ held'[m].at = "device"
            /\ \A x \in Models : x = m \/ held'[x] = room[x]
        BY <1>5, <3>1
      <3> QED
        BY <3>2 DEF room
    <2> QED
      BY <1>1, <1>2, <1>6, <2>1, <2>2, SomeoneCame
  <1>7. CASE /\ MakesRoom(rest, <<>>) /\ held' = Moved(room, {m}, "split")
             /\ Raises("get_or_load", m, "raised")
    <2>1. ~ Served'
      BY <1>7 DEF Raises, Rewrap!Raises, Rewrap!Call, Served
    <2>2. /\ SlotTypes(held')
          /\ \A x \in Models : x = m \/ held'[x] = SlotsDemoted(rest, Leaving)[x]
      <3>1. held' = Moved(room, {m}, "split")
        BY <1>7
      <3> HIDE DEF room
      <3>2. /\ SlotTypes(held')
            /\ \A x \in Models : x = m \/ held'[x] = room[x]
        BY <1>5, <3>1
      <3> QED
        BY <3>2 DEF room
    <2>3. \A x \in Models : \/ held'[x] = SlotsDemoted(rest, Leaving)[x]
                            \/ x \notin Members(rest) \cup Members(vram)
      BY <1>1, <1>2, <2>2
    <2> QED
      BY <1>2, <1>7, <2>1, <2>2, <2>3, NobodyCame
  <1>8. CASE DemotionRaises(rest) /\ Raises("get_or_load", m, "raised")
    <2>1. ~ Served'
      BY <1>8 DEF Raises, Rewrap!Raises, Rewrap!Call, Served
    <2> QED
      BY <1>2, <1>8, <2>1, DemotionRaisesWhole
  <1> QED
    BY <1>3, <1>6, <1>7, <1>8

LEMMA LoadColdWhole ==
    ASSUME IInv, Whole, NEW m \in Models, LoadCold(m)
    PROVE  Whole'
  <1> DEFINE room == SlotsDemoted(host, Leaving)
  <1>1. m \notin Members(vram) /\ m \notin Members(host)
    BY DEF LoadCold
  <1>2. host \in Seq(Models) /\ Within(host, host)
    BY ResidentIs, WithinItself
  <1>3. SlotTypes(room)
    BY <1>2, VramParts, DemotedWhole
  <1>4. ASSUME NEW done,
               MakesRoom(host, <<m>>), held' = [room EXCEPT ![m] = SlotOf(Describe[m], set, done)],
               Returns("get_or_load", m, "loaded", done)
        PROVE  Whole'
    <2>1. last'.model = m /\ last'.slot = held'[m]
      BY <1>4 DEF Returns, Rewrap!Returns, Rewrap!Call
    <2>2. /\ SlotTypes(held') /\ held'[m].at = "device"
          /\ \A x \in Models : x = m \/ held'[x] = SlotsDemoted(host, Leaving)[x]
      <3> DEFINE new == SlotOf(Describe[m], set, done)
      <3>1. held' = [room EXCEPT ![m] = new] /\ new.at = "device" /\ "at" \in DOMAIN new
        BY <1>4, SlotIsOnDevice
      <3> HIDE DEF room, new
      <3>2. /\ SlotTypes(held') /\ held'[m].at = "device"
            /\ \A x \in Models : x = m \/ held'[x] = room[x]
        BY <1>3, <3>1 DEF SlotTypes
      <3> QED
        BY <3>2 DEF room
    <2> QED
      BY <1>1, <1>2, <1>4, <2>1, <2>2, SomeoneCame
  <1>5. CASE MakesRoom(host, <<>>) /\ held' = room
             /\ Raises("get_or_load", m, Rewrap!Failure(m))
    <2>1. ~ Served'
      BY <1>5, FailureIs DEF Raises, Rewrap!Raises, Rewrap!Call, Served
    <2> QED
      BY <1>2, <1>3, <1>5, <2>1, NobodyCame
  <1>6. CASE DemotionRaises(host) /\ Raises("get_or_load", m, "raised")
    <2>1. ~ Served'
      BY <1>6 DEF Raises, Rewrap!Raises, Rewrap!Call, Served
    <2> QED
      BY <1>2, <1>6, <2>1, DemotionRaisesWhole
  <1> QED
    BY <1>4, <1>5, <1>6 DEF LoadCold

(* What is torn down leaves its tier. *)
LEMMA RemovedWhole ==
    ASSUME IInv, Whole, NEW gone, ~ Served',
           held' = TornDown(held, gone),
           Members(vram') \subseteq Members(vram) \ gone,
           Members(host') \subseteq Members(host) \ gone
    PROVE  Whole'
  <1>1. SlotTypes(held) /\ WholeIn(vram, host, held)
    BY WholeIs
  <1>2. SlotTypes(held') /\ \A m \in Models \ gone : held'[m] = held[m]
    BY <1>1, TornDownIs
  <1>3. Members(vram) \subseteq Models /\ Members(host) \subseteq Models
    BY ResidentIs, MembersIn
  <1>4. WholeIn(vram', host', held')
    BY <1>1, <1>2, <1>3 DEF WholeIn
  <1> QED
    BY <1>2, <1>4, WholeHolds

LEMMA EvictWhole ==
    ASSUME IInv, Whole, NEW m \in Models, Evict(m)
    PROVE  Whole'
  <1>1. /\ vram' = Without(vram, m) /\ host' = Without(host, m)
        /\ held' = TornDown(held, {m} \cap (Members(vram) \cup Members(host)))
        /\ ~ Served'
    BY DEF Evict, Rewrap!Call, Served
  <1>2. Members(vram') = Members(vram) \ {m} /\ Members(host') = Members(host) \ {m}
    <2>1. \A s \in Seq(Models) : Distinct(s) => Members(Without(s, m)) = Members(s) \ {m}
      BY WithoutProperties
    <2> QED
      BY <1>1, <2>1, ResidentIs
  <1> QED
    BY <1>1, <1>2, RemovedWhole

LEMMA EvictLruWhole ==
    ASSUME IInv, Whole, EvictLru
    PROVE  Whole'
  <1>1. vram # <<>> /\ host \in Seq(Models) /\ Within(host, host)
    BY ResidentIs, WithinItself DEF EvictLru
  <1> DEFINE out == <<Head(vram)>>
             rest == Tail(vram)
  <1>2. out \in Seq(Models) /\ rest \in Seq(Models) /\ out \o rest = vram
    BY <1>1, OldestOut
  <1>3. CASE /\ vram' = rest /\ host' = Demoted(host, out)
             /\ held' = SlotsDemoted(host, out)
             /\ Rewrap!Call("evict_lru", Head(vram), "done", NoSlot, {})
    <2>1. ~ Served'
      BY <1>3 DEF Rewrap!Call, Served
    <2>2. SlotTypes(held') /\ WholeIn(vram', host', held')
      <3> HIDE DEF out, rest
      <3> QED
        BY <1>1, <1>2, <1>3, DemotedWhole
    <2> QED
      BY <2>1, <2>2, WholeHolds
  <1>4. CASE DemotionRaises(host) /\ Raises("evict_lru", Head(vram), "raised")
    <2>1. ~ Served'
      BY <1>4 DEF Raises, Rewrap!Raises, Rewrap!Call, Served
    <2> QED
      BY <1>1, <1>4, <2>1, DemotionRaisesWhole
  <1> QED
    BY <1>3, <1>4 DEF EvictLru

(* The calls of the rewrap pool *)
LEMMA RewrapGetOrLoadWhole ==
    ASSUME IInv, Whole, set.kind = "rewrap", NEW m \in Models, Rewrap!GetOrLoad(m),
           UNCHANGED host
    PROVE  Whole'
  <1> DEFINE gone == Members(Oldest(vram, set.vram - 1))
             room == TornDown(held, gone)
  <1>1. vram \in Seq(Models) /\ set.vram - 1 \in Nat /\ Distinct(vram)
    BY ResidentIs
  <1>2. gone \cap Members(Staying) = {} /\ gone \cup Members(Staying) = Members(vram)
    BY <1>1, OldestApart DEF Staying
  <1>3. SlotTypes(held) /\ WholeIn(vram, host, held)
    BY WholeIs
  <1>4. SlotTypes(room) /\ \A x \in Models \ gone : room[x] = held[x]
    BY <1>3, TornDownIs
  <1>5. Rewrap!Roomier = room /\ Rewrap!Room = Staying
    BY RoomOfRewrap DEF Rewrap!Roomier, TornDown, Oldest, Members
  <1>6. Members(host) = {} /\ Members(vram) \subseteq Models
    <2>1. host \in Seq(Models) /\ set.host = 0 /\ Len(host) = 0
      BY ResidentIs, SettingsAre
    <2>2. DOMAIN host = {}
      BY <2>1
    <2> QED
      BY <1>1, <2>2, MembersDef, MembersIn
  <1> HIDE DEF gone, room
  <1>7. CASE Rewrap!Hit(m)
    <2>1. /\ m \in Members(vram) /\ vram' = ToEnd(vram, m) /\ held' = held
          /\ last'.model = m /\ last'.slot = held'[m]
      BY <1>7 DEF Rewrap!Hit, Rewrap!Returns, Rewrap!Call, Members, ToEnd
    <2> QED
      BY <2>1, HitWhole
  <1>8. ASSUME NEW done, Rewrap!Load(m, done)
        PROVE  Whole'
    <2> DEFINE new == Rewrap!SlotOf(Describe[m], set, done)
    <2>1. /\ m \notin Members(vram) /\ vram' = Append(Staying, m)
          /\ held' = [room EXCEPT ![m] = new]
          /\ last'.model = m /\ last'.slot = held'[m]
      BY <1>5, <1>8 DEF Rewrap!Load, Rewrap!Returns, Rewrap!Call, Members
    <2>2. new.at = "device" /\ "at" \in DOMAIN new
      BY SlotIsOnDevice
    <2> HIDE DEF new
    <2>3. /\ SlotTypes(held') /\ held'[m].at = "device"
          /\ \A x \in Models : x = m \/ held'[x] = room[x]
      BY <1>4, <2>1, <2>2 DEF SlotTypes
    <2>4. Members(vram') = Members(Staying) \cup {m}
      <3>1. Staying \in Seq(Models) /\ <<m>> \in Seq(Models) /\ Members(<<m>>) = {m}
        BY RoomOfRewrap, OneElement
      <3>2. \A a, b \in Seq(Models) : Members(a \o b) = Members(a) \cup Members(b)
        BY JoinMembers
      <3>3. vram' = Staying \o <<m>>
        BY <2>1, <3>1, AppendIsJoin
      <3> QED
        BY <3>1, <3>2, <3>3
    <2>5. WholeIn(vram', host', held')
      BY <1>2, <1>3, <1>4, <1>6, <2>3, <2>4 DEF WholeIn
    <2> QED
      BY <2>1, <2>3, <2>4, <2>5, WholeHolds
  <1>9. CASE Rewrap!LoadFails(m)
    <2>1. vram' = Staying /\ held' = room /\ ~ Served'
      BY <1>5, <1>9, FailureIs DEF Rewrap!LoadFails, Rewrap!Raises, Rewrap!Call, Served
    <2>2. WholeIn(vram', host', held')
      BY <1>2, <1>3, <1>4, <1>6, <2>1 DEF WholeIn
    <2> QED
      BY <1>4, <2>1, <2>2, WholeHolds
  <1> QED
    BY <1>7, <1>8, <1>9 DEF Rewrap!GetOrLoad

LEMMA RewrapCallWhole ==
    ASSUME IInv, Whole, RewrapCall
    PROVE  Whole'
  <1>0. set.kind = "rewrap" /\ Rewrap!Next /\ host' = host
    BY DEF RewrapCall
  <1>1. Members(host) = {}
    <2>1. host \in Seq(Models) /\ set.host = 0 /\ Len(host) = 0
      BY <1>0, ResidentIs, SettingsAre
    <2>2. DOMAIN host = {}
      BY <2>1
    <2> QED
      BY <2>2, MembersDef
  <1>2. ASSUME NEW m \in Models, Rewrap!Get(m)
        PROVE  Whole'
    BY <1>0, <1>2, GetWhole
  <1>3. ASSUME NEW m \in Models, Rewrap!GetOrLoad(m)
        PROVE  Whole'
    BY <1>0, <1>3, RewrapGetOrLoadWhole
  <1>4. ASSUME NEW m \in Models, Rewrap!Evict(m)
        PROVE  Whole'
    <2>1. /\ vram' = Without(vram, m) /\ ~ Served'
          /\ held' = TornDown(held, {m} \cap Members(vram))
      BY <1>4 DEF Rewrap!Evict, Rewrap!Call, Served, Without, TornDown, Members
    <2>2. Members(vram') = Members(vram) \ {m}
      <3>1. vram \in Seq(Models) /\ Distinct(vram)
        BY ResidentIs
      <3> QED
        BY <2>1, <3>1, WithoutProperties
    <2> QED
      BY <1>0, <1>1, <2>1, <2>2, RemovedWhole
  <1>5. CASE Rewrap!EvictLru
    <2>1. /\ vram # <<>> /\ vram' = Tail(vram) /\ ~ Served'
          /\ held' = TornDown(held, {Head(vram)})
      BY <1>5 DEF Rewrap!EvictLru, Rewrap!Call, Served, TornDown
    <2> DEFINE out == <<Head(vram)>>
               rest == Tail(vram)
    <2>2. /\ out \in Seq(Models) /\ rest \in Seq(Models) /\ out \o rest = vram
          /\ Members(out) = {Head(vram)} /\ Distinct(vram)
      BY <2>1, OldestOut, OneElement, ResidentIs
    <2>3. Members(rest) \subseteq Members(vram) \ {Head(vram)}
      <3> HIDE DEF out, rest
      <3>1. Distinct(out \o rest)
        BY <2>2
      <3>2. Members(out) \cap Members(rest) = {}
        BY <2>2, <3>1, DistinctParts
      <3>3. \A a, b \in Seq(Models) : Members(a \o b) = Members(a) \cup Members(b)
        BY JoinMembers
      <3> QED
        BY <2>2, <3>2, <3>3
    <2> QED
      BY <1>0, <1>1, <2>1, <2>3, RemovedWhole
  <1> QED
    BY <1>0, <1>2, <1>3, <1>4, <1>5 DEF Rewrap!Next

LEMMA StepWhole ==
    ASSUME IInv, Whole, [Next]_vars
    PROVE  Whole'
  <1>1. CASE RewrapCall
    BY <1>1, RewrapCallWhole
  <1>2. ASSUME NEW m \in Models, Get(m)
        PROVE  Whole'
    BY <1>2, GetWhole DEF Get
  <1>3. ASSUME NEW m \in Models, GetOrLoad(m)
        PROVE  Whole'
    <2>1. CASE HitVram(m)
      <3>1. /\ m \in Members(vram) /\ vram' = ToEnd(vram, m) /\ held' = held /\ host' = host
            /\ last'.model = m /\ last'.slot = held'[m]
        BY <2>1 DEF HitVram, Rewrap!Hit, Rewrap!Returns, Rewrap!Call, Members, ToEnd
      <3> QED
        BY <3>1, HitWhole
    <2> QED
      BY <1>3, <2>1, PromoteWhole, LoadColdWhole DEF GetOrLoad
  <1>4. ASSUME NEW m \in Models, Evict(m)
        PROVE  Whole'
    BY <1>4, EvictWhole
  <1>5. CASE EvictLru
    BY <1>5, EvictLruWhole
  <1>6. CASE UNCHANGED vars
    <2>1. vram' = vram /\ host' = host /\ held' = held /\ last' = last
      BY <1>6 DEF vars
    <2>2. SlotTypes(held) /\ WholeIn(vram, host, held)
      BY WholeIs
    <2>3. Served' => last'.model \in Members(vram') /\ last'.slot = held'[last'.model]
      BY <2>1 DEF Whole, ResidentsAreWhole, Served
    <2> QED
      BY <2>1, <2>2, <2>3, WholeHolds
  <1> QED
    BY <1>1, <1>2, <1>3, <1>4, <1>5, <1>6 DEF Next

LEMMA InitWhole ==
    ASSUME Init
    PROVE  Whole
  <1>1. /\ vram = <<>> /\ host = <<>> /\ held = [m \in Models |-> NoSlot] /\ last.result = "none"
    BY DEF Init
  <1>2. Members(<<>>) = {}
    BY MembersDef
  <1>3. SlotTypes(held)
    BY <1>1 DEF SlotTypes, NoSlot
  <1>4. ResidentsAreWhole
    BY <1>1, <1>2 DEF ResidentsAreWhole, Served
  <1> QED
    BY <1>3, <1>4 DEF Whole

(* A tier lists only models whose weights are all in it, though a load, a  *)
(* promotion or a demotion may raise halfway, and a call returns the slot  *)
(* of its model, which is on the device (model_pool.py:502-541, 569-587).  *)
THEOREM ListedIsWhole == Spec => []ResidentsAreWhole
  <1>1. Init => Whole
    BY InitWhole
  <1>2. IInv /\ Whole /\ [Next]_vars => Whole'
    BY StepWhole
  <1>3. Whole => ResidentsAreWhole
    BY DEF Whole
  <1> QED
    BY <1>1, <1>2, <1>3, Invariance, PTL DEF Spec

----------------------------------------------------------------------------
(* A tiered pool without a host tier, and the rewrap pool with a loading   *)
(* of its own *)

LEMMA OwnSlot ==
    ASSUME NEW d, NEW c, NEW done
    PROVE  Own!SlotOf(d, c, done) = SlotOf(d, c, done)
  BY DEF Own!SlotOf, SlotOf,
         Own!ResolveScheme, ResolveScheme, Own!DetectScheme, DetectScheme,
         Own!IsFp8Torchao, IsFp8Torchao, Own!IsOnebit, IsOnebit,
         Own!LoadedConfig, LoadedConfig, Own!Injects, Injects,
         Own!Kernels, Kernels, Own!RewrapKernels, RewrapKernels,
         Own!Dequantizes, Dequantizes, Own!Requantizes, Requantizes,
         Own!TieredKernels, TieredKernels, Own!StoredKernels, StoredKernels,
         Own!LoadDtype, LoadDtype, Own!OnebitDtype, OnebitDtype, Own!Consults, Consults,
         Own!ServesVision, ServesVision

LEMMA OwnOperators ==
    /\ \A s : Own!Members(s) = Members(s)
    /\ \A s, m : Own!Without(s, m) = Without(s, m)
    /\ \A s, m : Own!ToEnd(s, m) = ToEnd(s, m)
    /\ \A s, n : Own!Newest(s, n) = Newest(s, n) /\ Own!Oldest(s, n) = Oldest(s, n)
    /\ \A f, ms : Own!TornDown(f, ms) = TornDown(f, ms)
    /\ \A d, c : Own!Loadable(d, c) = Loadable(d, c)
    /\ Own!NoSlot = NoSlot /\ Own!BestEffort = BestEffort
  BY DEF Own!Members, Members, Rewrap!Members, Own!Without, Without, Rewrap!Without,
         Own!ToEnd, ToEnd, Rewrap!ToEnd, Own!Newest, Newest, Rewrap!Newest,
         Own!Oldest, Oldest, Rewrap!Oldest, Own!TornDown, TornDown, Rewrap!TornDown,
         Own!Loadable, Loadable, Own!NoSlot, NoSlot, Rewrap!NoSlot,
         Own!BestEffort, BestEffort

LEMMA RewrapSetIs ==
    ASSUME set \in Settings
    PROVE  RewrapSet.vram = set.vram
  BY SettingsAssumption DEF RewrapSet, Builds

LEMMA NoHostTier ==
    ASSUME IInv, set.host = 0
    PROVE  host = <<>> /\ Members(host) = {}
  <1>1. host \in Seq(Models) /\ Len(host) = 0
    BY ResidentIs
  <1>2. host = <<>>
    BY <1>1
  <1> QED
    BY <1>2, MembersDef

(* Without a host tier what is demoted is torn down. *)
LEMMA DemotedIsTornDown ==
    ASSUME IInv, set.host = 0, NEW leaving \in Seq(Models)
    PROVE  SlotsDemoted(host, leaving) = TornDown(held, Members(leaving))
  <1>1. host \o leaving = leaving
    BY NoHostTier, JoinEmpty
  <1>2. Oldest(leaving, 0) = leaving
    <2>1. Len(leaving) \in Nat
      OBVIOUS
    <2>2. CASE Len(leaving) <= 0
      <3>1. leaving = <<>>
        BY <2>1, <2>2
      <3> QED
        BY <2>2, <3>1 DEF Oldest, Rewrap!Oldest
    <2>3. CASE ~ (Len(leaving) <= 0)
      <3>1. SubSeq(leaving, 1, Len(leaving)) = leaving
        OBVIOUS
      <3> QED
        BY <2>1, <2>3, <3>1 DEF Oldest, Rewrap!Oldest
    <2> QED
      BY <2>2, <2>3
  <1>3. SlotsDemoted(host, leaving)
           = TornDown(Moved(held, Members(leaving), "host"), Members(leaving))
    BY <1>1, <1>2 DEF SlotsDemoted
  <1> QED
    BY <1>3 DEF TornDown, Rewrap!TornDown, Moved

LEMMA OwnRoom ==
    ASSUME IInv
    PROVE  Own!Room = Staying /\ Own!Roomier = TornDown(held, Members(Leaving))
  <1>1. RewrapSet.vram = set.vram
    BY ResidentIs, RewrapSetIs
  <1> QED
    BY <1>1, OwnOperators DEF Own!Room, Own!Roomier, Staying, Leaving

(* A cold load, of a model both pools load alike or not. *)
LEMMA ColdLoadIsRewrap ==
    ASSUME IInv, NEW m \in Models, LoadCold(m), set.host = 0, set' = set
    PROVE  /\ LoadedAlike' => Own!GetOrLoad(m)
           /\ LoadsTheSameModels
  <1> DEFINE room == TornDown(held, Members(Leaving))
             d == Describe[m]
  <1>1. SlotsDemoted(host, Leaving) = room
    BY VramParts, DemotedIsTornDown
  <1>2. m \notin Own!Members(vram)
    BY OwnOperators DEF LoadCold
  <1>3. Own!Room = Staying /\ Own!Roomier = room /\ Staying \in Seq(Models)
    BY OwnRoom, VramParts
  <1>4. RewrapSet' = RewrapSet
    BY DEF RewrapSet
  <1> HIDE DEF room
  <1>5. ASSUME NEW done \in SUBSET BestEffort,
               Loadable(d, set), MakesRoom(host, <<m>>),
               held' = [room EXCEPT ![m] = SlotOf(d, set, done)],
               Returns("get_or_load", m, "loaded", done)
        PROVE  (LoadedAlike' => Own!GetOrLoad(m)) /\ LoadsTheSameModels
    <2>1. vram' = Append(Own!Room, m)
      BY <1>3, <1>5, AppendIsJoin DEF MakesRoom
    <2>2. /\ last' = [op |-> "get_or_load", model |-> m, result |-> "loaded",
                      slot |-> held'[m], done |-> done]
      BY <1>5 DEF Returns, Rewrap!Returns, Rewrap!Call
    <2>3. LoadsTheSameModels
      BY <2>1, <2>2 DEF LoadsTheSameModels
    <2>4. ASSUME LoadedAlike'
          PROVE  Own!GetOrLoad(m)
      <3>1. Loadable(d, RewrapSet) /\ SlotOf(d, set, done) = SlotOf(d, RewrapSet, done)
        BY <1>4, <1>5, <2>2, <2>4 DEF LoadedAlike
      <3>2. Own!Load(m, done)
        <4>1. held' = [Own!Roomier EXCEPT ![m] = Own!SlotOf(d, RewrapSet, done)]
          BY <1>3, <1>5, <3>1, OwnSlot
        <4>2. Own!Loadable(d, RewrapSet)
          BY <3>1, OwnOperators
        <4>3. Own!Returns("get_or_load", m, "loaded", done)
          BY <2>2 DEF Own!Returns, Own!Call
        <4> QED
          BY <1>2, <2>1, <4>1, <4>2, <4>3 DEF Own!Load
      <3>3. done \in SUBSET Own!BestEffort
        BY <1>5, OwnOperators
      <3> QED
        BY <1>4, <3>2, <3>3 DEF Own!GetOrLoad
    <2> QED
      BY <2>3, <2>4
  <1>6. CASE MakesRoom(host, <<>>) /\ held' = room
             /\ Raises("get_or_load", m, Rewrap!Failure(m))
    <2>1. vram' = Own!Room
      BY <1>3, <1>6, JoinEmpty DEF MakesRoom
    <2>2. last' = [op |-> "get_or_load", model |-> m, result |-> Rewrap!Failure(m),
                   slot |-> NoSlot, done |-> {}]
      BY <1>6 DEF Raises, Rewrap!Raises, Rewrap!Call, Rewrap!NoSlot, NoSlot
    <2>3. LoadsTheSameModels
      BY <2>1 DEF LoadsTheSameModels
    <2>4. ASSUME LoadedAlike'
          PROVE  Own!GetOrLoad(m)
      <3>1. Loadable(d, set) = Loadable(d, RewrapSet)
        BY <1>4, <2>2, <2>4, FailureIs DEF LoadedAlike
      <3>2. Own!Failure(m) = Rewrap!Failure(m)
        BY <3>1 DEF Own!Failure, Rewrap!Failure, Own!Loadable, Rewrap!Loadable, Loadable
      <3>3. Own!Raises("get_or_load", m, Own!Failure(m))
        BY <2>2, <3>2, OwnOperators DEF Own!Raises, Own!Call
      <3> QED
        BY <1>2, <1>3, <1>4, <1>6, <2>1, <3>3 DEF Own!GetOrLoad, Own!LoadFails
    <2> QED
      BY <2>3, <2>4
  <1>7. ~ DemotionRaises(host)
    BY DEF DemotionRaises
  <1> QED
    BY <1>1, <1>5, <1>6, <1>7 DEF LoadCold

LEMMA StepIsRewrap ==
    ASSUME IInv, Next, set.kind = "tiered", set.host = 0
    PROVE  IF LoadedAlike' THEN StepOfRewrap ELSE LoadsTheSameModels
  <1>1. ~ RewrapCall
    BY DEF RewrapCall
  <1>2. ASSUME NEW m \in Models, Get(m)
        PROVE  Own!Get(m) /\ LoadedAlike'
    <2>1. Rewrap!Get(m)
      BY <1>2 DEF Get
    <2>2. Own!Get(m)
      BY <2>1, OwnOperators
         DEF Own!Get, Rewrap!Get, Own!Returns, Rewrap!Returns, Own!Call, Rewrap!Call,
             RewrapSet, Members, ToEnd, NoSlot, Rewrap!NoSlot
    <2>3. last'.op = "get"
      BY <2>1 DEF Rewrap!Get, Rewrap!Returns, Rewrap!Call
    <2> QED
      BY <2>2, <2>3 DEF LoadedAlike
  <1>3. ASSUME NEW m \in Models, GetOrLoad(m)
        PROVE  (LoadedAlike' => Own!GetOrLoad(m)) /\ (~ LoadedAlike' => LoadsTheSameModels)
    <2>0. set' = set
      BY <1>3 DEF GetOrLoad
    <2>1. CASE HitVram(m)
      <3>1. Rewrap!Hit(m)
        BY <2>1 DEF HitVram
      <3>2. Own!Hit(m)
        BY <3>1, OwnOperators
           DEF Own!Hit, Rewrap!Hit, Own!Returns, Rewrap!Returns, Own!Call, Rewrap!Call,
               Members, ToEnd
      <3>3. last'.result = "hit"
        BY <3>1 DEF Rewrap!Hit, Rewrap!Returns, Rewrap!Call
      <3> QED
        BY <2>0, <3>2, <3>3 DEF Own!GetOrLoad, LoadedAlike, RewrapSet
    <2>2. CASE LoadCold(m)
      BY <2>0, <2>2, ColdLoadIsRewrap
    <2>3. ~ Promote(m)
      BY NoHostTier DEF Promote
    <2> QED
      BY <1>3, <2>1, <2>2, <2>3 DEF GetOrLoad
  <1>4. ASSUME NEW m \in Models, Evict(m)
        PROVE  Own!Evict(m) /\ LoadedAlike'
    <2>1. /\ vram' = Own!Without(vram, m)
          /\ held' = Own!TornDown(held, {m} \cap Own!Members(vram))
          /\ Own!Call("evict", m, "done", Own!NoSlot, {}) /\ set' = set
      BY <1>4, OwnOperators, NoHostTier DEF Evict, Own!Call, Rewrap!Call
    <2>2. last'.op = "evict"
      BY <2>1 DEF Own!Call
    <2> QED
      BY <2>1, <2>2 DEF Own!Evict, LoadedAlike, RewrapSet
  <1>5. ASSUME EvictLru
        PROVE  Own!EvictLru /\ LoadedAlike'
    <2>1. vram # <<>> /\ set' = set
      BY <1>5 DEF EvictLru
    <2>2. <<Head(vram)>> \in Seq(Models) /\ Members(<<Head(vram)>>) = {Head(vram)}
      <3>1. Head(vram) \in Models
        BY <2>1, OldestOut
      <3> QED
        BY <3>1, OneElement
    <2>3. SlotsDemoted(host, <<Head(vram)>>) = TornDown(held, {Head(vram)})
      BY <2>2, DemotedIsTornDown
    <2>4. /\ vram' = Tail(vram) /\ held' = SlotsDemoted(host, <<Head(vram)>>)
          /\ Rewrap!Call("evict_lru", Head(vram), "done", NoSlot, {})
      BY <1>5 DEF EvictLru, DemotionRaises
    <2>5. /\ held' = Own!TornDown(held, {Head(vram)})
          /\ Own!Call("evict_lru", Head(vram), "done", Own!NoSlot, {})
      BY <2>3, <2>4, OwnOperators DEF Own!Call, Rewrap!Call
    <2>6. last'.op = "evict_lru"
      BY <2>5 DEF Own!Call
    <2> QED
      BY <2>1, <2>4, <2>5, <2>6 DEF Own!EvictLru, LoadedAlike, RewrapSet
  <1> QED
    BY <1>1, <1>2, <1>3, <1>4, <1>5 DEF Next, StepOfRewrap

(* Without a host tier the tiered pool is the rewrap pool: each of its     *)
(* steps is a step of the other, which loads models in its own way, with   *)
(* the same result, and a load of a model the two load differently leaves  *)
(* the same models resident (model_pool.py:423, 502-587).                  *)
THEOREM NoHostTierIsRewrap == Spec => TieredIsRewrap
  <1>1. ASSUME IInv, [Next]_vars
        PROVE  [set.kind = "tiered" /\ set.host = 0 =>
                   IF LoadedAlike' THEN StepOfRewrap ELSE LoadsTheSameModels]_vars
    BY <1>1, StepIsRewrap
  <1> QED
    BY <1>1, Invariance, PTL DEF Spec, TieredIsRewrap
=============================================================================
