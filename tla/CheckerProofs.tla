--------------------------- MODULE CheckerProofs ---------------------------
(***************************************************************************)
(* Theorems about the linearizability checker, for histories of any        *)
(* length, any number of partitions and any values: its list is the        *)
(* history without the calls taken out, what it has given up cannot be     *)
(* completed, and its verdict is right.                                    *)
(***************************************************************************)
EXTENDS CheckerProps, FiniteSetTheorems, SequenceTheorems, WellFoundedInduction, TLAPS

\* A nonempty set of natural numbers has a least element, and a greatest one if it is
\* bounded.
LEMMA LeastExists ==
  ASSUME NEW S \in SUBSET Nat, S # {}
  PROVE  \E n \in S : \A m \in S : n <= m
<1>1. \E x \in S : \A y \in S : <<y, x>> \notin OpToRel(<, Nat)
  <2>1. IsWellFoundedOn(OpToRel(<, Nat), S)
    BY NatLessThanWellFounded, IsWellFoundedOnSubset, Zenon
  <2>2. QED  BY <2>1, WFMin, Zenon
<1>2. \A x, y \in Nat : y < x => <<y, x>> \in OpToRel(<, Nat)
  BY Zenon DEF OpToRel
<1>3. \E x \in S : \A y \in S : ~(y < x)
  BY <1>1, <1>2, Zenon
<1>4. QED  BY <1>3

\* So has a bounded one a greatest.
LEMMA GreatestExists ==
  ASSUME NEW S \in SUBSET Nat, S # {}, NEW b \in Nat, \A m \in S : m <= b
  PROVE  \E n \in S : \A m \in S : m <= n
<1>. DEFINE T == {k \in Nat : b - k \in S}
<1>1. PICK x \in S : TRUE
  OBVIOUS
<1>2. b - x \in T
  BY <1>1
<1>3. PICK k \in T : \A m \in T : k <= m
  BY <1>2, LeastExists
<1>4. \A m \in S : b - m \in T
  OBVIOUS
<1>5. b - k \in S /\ \A m \in S : m <= b - k
  BY <1>3, <1>4
<1>6. QED  BY <1>5
-----------------------------------------------------------------------------
\* The linked list.

\* The node that follows k, and the one that precedes it, among the nodes of R.
NextIn(R, k) == IF \E m \in R : m > k THEN Min({m \in R : m > k}) ELSE Nil
PrevIn(R, k) == Max({m \in R \cup {headEntry} : m < k})

\* The links of the nodes of R are those of the list of R.
Linked(l, R) ==
    /\ \A k \in R \cup {headEntry} : l.next[k] = NextIn(R, k)
    /\ \A k \in R : l.prev[k] = PrevIn(R, k)

\* Links between n nodes and the head.
Links(n) == [next : [0 .. n -> Int], prev : [0 .. n -> Int]]

Without(R, k) == R \ {k}

\* The links of the nodes outside R are the same in l and m.
SameOutside(n, R, l, m) ==
    \A x \in 0 .. n : x \notin R \cup {headEntry} => m.next[x] = l.next[x] /\ m.prev[x] = l.prev[x]

\* What NextIn and PrevIn are.
LEMMA NextIs ==
  ASSUME NEW R \in SUBSET (Nat \ {0}), NEW k \in Nat
  PROVE  /\ \/ NextIn(R, k) = Nil /\ \A m \in R : ~(m > k)
            \/ NextIn(R, k) \in R /\ NextIn(R, k) > k /\ \A m \in R : m > k => NextIn(R, k) <= m
         /\ \A a \in R : a > k /\ (\A m \in R : m > k => a <= m) => NextIn(R, k) = a
         /\ (\A m \in R : ~(m > k)) => NextIn(R, k) = Nil
<1>. DEFINE S == {m \in R : m > k}
<1>1. S \in SUBSET Nat
  OBVIOUS
<1>2. ASSUME S # {}
      PROVE  Min(S) \in S /\ \A m \in S : Min(S) <= m
  <2>1. \E n \in S : \A m \in S : n <= m
    BY <1>1, <1>2, LeastExists
  <2>2. QED  BY <2>1 DEF Min
<1>3. ASSUME NEW a \in S, \A m \in S : a <= m
      PROVE  Min(S) = a
  <2>1. Min(S) \in S /\ \A m \in S : Min(S) <= m
    BY <1>2, <1>3
  <2>2. Min(S) <= a /\ a <= Min(S)
    BY <1>3, <2>1
  <2>3. QED  BY <1>1, <2>1, <2>2
<1>4. NextIn(R, k) = IF S # {} THEN Min(S) ELSE Nil
  BY DEF NextIn
<1>5. QED  BY <1>2, <1>3, <1>4

\* The same of the node before k.
LEMMA PrevIs ==
  ASSUME NEW R \in SUBSET (Nat \ {0}), NEW k \in Nat \ {0}
  PROVE  /\ PrevIn(R, k) \in R \cup {headEntry} /\ PrevIn(R, k) < k
         /\ \A m \in R \cup {headEntry} : m < k => m <= PrevIn(R, k)
         /\ \A a \in R \cup {headEntry} :
               a < k /\ (\A m \in R \cup {headEntry} : m < k => m <= a) => PrevIn(R, k) = a
<1>. DEFINE S == {m \in R \cup {headEntry} : m < k}
<1>1. S \in SUBSET Nat /\ S # {} /\ \A m \in S : m <= k
  <2>1. headEntry = 0 /\ headEntry < k
    BY DEF headEntry
  <2>2. headEntry \in S /\ R \cup {headEntry} \subseteq Nat
    BY <2>1
  <2>3. S \in SUBSET Nat /\ S # {}
    BY <2>2
  <2>4. QED  BY <2>3
<1>2. Max(S) \in S /\ \A m \in S : Max(S) >= m
  <2>1. \E n \in S : \A m \in S : n >= m
    <3>1. \E n \in S : \A m \in S : m <= n
      BY <1>1, GreatestExists
    <3>2. QED  BY <1>1, <3>1
  <2>2. QED  BY <2>1 DEF Max
<1>3. ASSUME NEW a \in S, \A m \in S : m <= a
      PROVE  Max(S) = a
  <2>1. Max(S) <= a /\ a <= Max(S)
    BY <1>1, <1>2, <1>3
  <2>2. QED  BY <1>1, <1>2, <2>1
<1>4. PrevIn(R, k) = Max(S)
  BY DEF PrevIn
<1>5. QED  BY <1>1, <1>2, <1>3, <1>4

\* Without k the neighbours of k are each other's, and nobody else's change.
LEMMA NextWithout ==
  ASSUME NEW R \in SUBSET (Nat \ {0}), NEW k \in R, NEW x \in (R \ {k}) \cup {headEntry}
  PROVE  /\ x = PrevIn(R, k) <=> NextIn(R, x) = k
         /\ NextIn(R \ {k}, x) = IF x = PrevIn(R, k) THEN NextIn(R, k) ELSE NextIn(R, x)
<1>1. x \in Nat /\ x # k /\ k \in Nat \ {0} /\ R \ {k} \in SUBSET (Nat \ {0})
  BY DEF headEntry
<1>2. x = PrevIn(R, k) => NextIn(R, x) = k
  <2>. SUFFICES ASSUME x = PrevIn(R, k)
                PROVE  NextIn(R, x) = k
    OBVIOUS
  <2>1. k > x /\ \A m \in R : m < k => m <= x
    BY <1>1, PrevIs
  <2>2. \A m \in R : m > x => k <= m
    BY <1>1, <2>1
  <2>3. QED  BY <1>1, <2>1, <2>2, NextIs
<1>3. NextIn(R, x) = k => x = PrevIn(R, k)
  <2>. SUFFICES ASSUME NextIn(R, x) = k
                PROVE  x = PrevIn(R, k)
    OBVIOUS
  <2>1. k > x /\ \A m \in R : m > x => k <= m
    <3>1. k # Nil
      BY <1>1 DEF Nil
    <3>2. QED  BY <1>1, <3>1, NextIs
  <2>2. \A m \in R \cup {headEntry} : m < k => m <= x
    BY <1>1, <2>1 DEF headEntry
  <2>3. QED  BY <1>1, <2>1, <2>2, PrevIs
<1>4. CASE x = PrevIn(R, k)
  <2>1. k > x /\ \A m \in R : m < k => m <= x
    BY <1>1, <1>4, PrevIs
  <2>2. \A m \in R \ {k} : m > x <=> m > k
    BY <1>1, <2>1
  <2>3. NextIn(R \ {k}, x) = NextIn(R, k)
    <3>1. CASE NextIn(R, k) = Nil /\ \A m \in R : ~(m > k)
      BY <1>1, <2>2, <3>1, NextIs
    <3>2. CASE NextIn(R, k) \in R /\ NextIn(R, k) > k /\ \A m \in R : m > k => NextIn(R, k) <= m
      <4>. DEFINE n == NextIn(R, k)
      <4>. HIDE DEF n
      <4>1. n \in R /\ n > k /\ \A m \in R : m > k => n <= m
        BY <3>2 DEF n
      <4>2. n \in R \ {k} /\ n > x /\ \A m \in R \ {k} : m > x => n <= m
        BY <1>1, <2>1, <2>2, <4>1
      <4>3. NextIn(R \ {k}, x) = n
        BY <1>1, <4>2, NextIs
      <4>4. QED  BY <4>3 DEF n
    <3>3. QED  BY <1>1, <3>1, <3>2, NextIs
  <2>4. QED  BY <1>2, <1>3, <1>4, <2>3
<1>5. CASE x # PrevIn(R, k)
  <2>1. NextIn(R, x) # k
    BY <1>3, <1>5
  <2>2. CASE NextIn(R, x) = Nil /\ \A m \in R : ~(m > x)
    <3>1. NextIn(R \ {k}, x) = Nil
      BY <1>1, <2>2, NextIs
    <3>2. QED  BY <1>3, <1>5, <2>2, <3>1
  <2>3. CASE NextIn(R, x) \in R /\ NextIn(R, x) > x /\ \A m \in R : m > x => NextIn(R, x) <= m
    <3>1. NextIn(R \ {k}, x) = NextIn(R, x)
      BY <1>1, <2>1, <2>3, NextIs
    <3>2. QED  BY <1>3, <1>5, <3>1
  <2>4. QED  BY <1>1, <2>2, <2>3, NextIs
<1>6. QED  BY <1>4, <1>5

\* The same of the nodes before.
LEMMA PrevWithout ==
  ASSUME NEW R \in SUBSET (Nat \ {0}), NEW k \in R, NEW x \in R \ {k}
  PROVE  /\ x = NextIn(R, k) <=> PrevIn(R, x) = k
         /\ PrevIn(R \ {k}, x) = IF x = NextIn(R, k) THEN PrevIn(R, k) ELSE PrevIn(R, x)
<1>1. /\ x \in Nat \ {0} /\ x # k /\ k \in Nat \ {0} /\ R \ {k} \in SUBSET (Nat \ {0})
      /\ headEntry = 0
  BY DEF headEntry
<1>2. x = NextIn(R, k) => PrevIn(R, x) = k
  <2>. SUFFICES ASSUME x = NextIn(R, k)
                PROVE  PrevIn(R, x) = k
    OBVIOUS
  <2>1. x > k /\ \A m \in R : m > k => x <= m
    BY <1>1, NextIs DEF Nil
  <2>2. \A m \in R \cup {headEntry} : m < x => m <= k
    BY <1>1, <2>1
  <2>3. QED  BY <1>1, <2>1, <2>2, PrevIs
<1>3. PrevIn(R, x) = k => x = NextIn(R, k)
  <2>. SUFFICES ASSUME PrevIn(R, x) = k
                PROVE  x = NextIn(R, k)
    OBVIOUS
  <2>1. k < x /\ \A m \in R : m < x => m <= k
    BY <1>1, PrevIs
  <2>2. \A m \in R : m > k => x <= m
    BY <1>1, <2>1
  <2>3. QED  BY <1>1, <2>1, <2>2, NextIs
<1>4. CASE x = NextIn(R, k)
  <2>1. x > k /\ \A m \in R : m < x => m <= k
    BY <1>1, <1>2, <1>4, PrevIs
  <2>. DEFINE n == PrevIn(R, k)
  <2>. HIDE DEF n
  <2>2. n \in Nat /\ n \in (R \ {k}) \cup {headEntry} /\ n < k
        /\ \A m \in R \cup {headEntry} : m < k => m <= n
    <3>1. n \in R \cup {headEntry} /\ n < k
          /\ \A m \in R \cup {headEntry} : m < k => m <= n
      BY PrevIs DEF n
    <3>2. n \in Nat /\ n # k
      BY <1>1, <3>1
    <3>3. QED  BY <3>1, <3>2
  <2>3. n < x
    BY <1>1, <2>1, <2>2
  <2>4. \A m \in (R \ {k}) \cup {headEntry} : m < x => m <= n
    BY <1>1, <2>1, <2>2
  <2>5. PrevIn(R \ {k}, x) = PrevIn(R, k)
    <3>1. PrevIn(R \ {k}, x) = n
      BY <1>1, <2>2, <2>3, <2>4, PrevIs
    <3>2. QED  BY <3>1 DEF n
  <2>6. QED  BY <1>2, <1>3, <1>4, <2>5
<1>5. CASE x # NextIn(R, k)
  <2>1. PrevIn(R, x) # k
    BY <1>3, <1>5
  <2>2. PrevIn(R, x) \in (R \ {k}) \cup {headEntry} /\ PrevIn(R, x) < x
        /\ \A m \in R \cup {headEntry} : m < x => m <= PrevIn(R, x)
    BY <1>1, <2>1, PrevIs
  <2>3. PrevIn(R \ {k}, x) = PrevIn(R, x)
    BY <1>1, <2>2, PrevIs
  <2>4. QED  BY <1>3, <1>5, <2>3
<1>6. QED  BY <1>4, <1>5

\* Taking a node out of the list, and what its own links keep.
LEMMA BypassKeeps ==
  ASSUME NEW n \in Nat, NEW R \in SUBSET (1 .. n), NEW l \in Links(n), Linked(l, R), NEW k \in R
  PROVE  /\ Bypass(l, k) \in Links(n) /\ Linked(Bypass(l, k), Without(R, k))
         /\ SameOutside(n, Without(R, k), l, Bypass(l, k))
<1>. DEFINE a == l.prev[k]
            b == l.next[k]
            nx == [l.next EXCEPT ![a] = b]
            pv == IF b = Nil THEN l.prev ELSE [l.prev EXCEPT ![b] = a]
<1>1. /\ R \in SUBSET (Nat \ {0}) /\ k \in Nat \ {0} /\ headEntry = 0 /\ Nil = -1
      /\ l.next \in [0 .. n -> Int] /\ l.prev \in [0 .. n -> Int]
      /\ R \subseteq 0 .. n
  BY DEF headEntry, Nil, Links
<1>2. Bypass(l, k) = [next |-> nx, prev |-> pv]
  BY DEF Bypass
<1>3. a = PrevIn(R, k) /\ b = NextIn(R, k)
  BY DEF Linked
<1>. HIDE DEF a, b
<1>4. a \in R \cup {headEntry} /\ a # k /\ a \in 0 .. n /\ a \in Int
  <2>1. PrevIn(R, k) \in R \cup {headEntry} /\ PrevIn(R, k) < k
    BY <1>1, PrevIs
  <2>2. a < k /\ a \in R \cup {0}
    BY <1>1, <1>3, <2>1
  <2>3. a \in 0 .. n
    BY <1>1, <2>2
  <2>4. QED  BY <1>1, <2>2, <2>3
<1>5. b = Nil \/ (b \in R /\ b # k /\ b \in 0 .. n /\ b # headEntry)
  <2>1. NextIn(R, k) = Nil \/ (NextIn(R, k) \in R /\ NextIn(R, k) > k)
    BY <1>1, NextIs
  <2>2. b = Nil \/ (b \in R /\ b > k /\ b \in 0 .. n /\ b \in Nat \ {0})
    BY <1>1, <1>3, <2>1
  <2>3. QED  BY <1>1, <2>2
<1>6. b \in Int
  BY <1>1, <1>5
<1>7. nx \in [0 .. n -> Int] /\ pv \in [0 .. n -> Int]
  BY <1>1, <1>4, <1>5, <1>6
<1>8. ASSUME NEW x \in (R \ {k}) \cup {headEntry}
      PROVE  nx[x] = NextIn(R \ {k}, x)
  <2>1. x \in 0 .. n
    BY <1>1
  <2>2. nx[x] = IF x = a THEN b ELSE l.next[x]
    BY <1>1, <2>1
  <2>3. l.next[x] = NextIn(R, x)
    BY DEF Linked
  <2>4. NextIn(R \ {k}, x) = IF x = a THEN b ELSE NextIn(R, x)
    <3>1. R \in SUBSET (Nat \ {0})
      BY <1>1
    <3>2. NextIn(R \ {k}, x) = IF x = PrevIn(R, k) THEN NextIn(R, k) ELSE NextIn(R, x)
      BY <3>1, NextWithout
    <3>3. QED  BY <1>3, <3>2
  <2>5. QED  BY <2>2, <2>3, <2>4
<1>9. ASSUME NEW x \in R \ {k}
      PROVE  pv[x] = PrevIn(R \ {k}, x)
  <2>0. x \in 0 .. n /\ Nil = -1
    BY <1>1
  <2>1. x \in 0 .. n /\ x # Nil
    BY <2>0
  <2>2. pv[x] = IF x = b THEN a ELSE l.prev[x]
    BY <1>1, <1>5, <2>1
  <2>3. l.prev[x] = PrevIn(R, x)
    BY DEF Linked
  <2>4. PrevIn(R \ {k}, x) = IF x = b THEN a ELSE PrevIn(R, x)
    BY <1>1, <1>3, PrevWithout
  <2>5. QED  BY <2>2, <2>3, <2>4
<1>10. ASSUME NEW x \in 0 .. n, x \notin (R \ {k}) \cup {headEntry}
       PROVE  nx[x] = l.next[x] /\ pv[x] = l.prev[x]
  <2>1. x # a /\ x # b
    BY <1>1, <1>4, <1>5, <1>10
  <2>2. QED  BY <1>1, <2>1
<1>. HIDE DEF nx, pv
<1>11. Bypass(l, k).next = nx /\ Bypass(l, k).prev = pv
  BY <1>2
<1>12. Bypass(l, k) \in Links(n)
  BY <1>2, <1>7 DEF Links
<1>13. Linked(Bypass(l, k), Without(R, k))
  BY <1>8, <1>9, <1>11 DEF Linked, Without
<1>14. SameOutside(n, Without(R, k), l, Bypass(l, k))
  BY <1>10, <1>11 DEF SameOutside, Without
<1>15. QED  BY <1>12, <1>13, <1>14

\* Putting it back where its own links say.
LEMMA RelinkKeeps ==
  ASSUME NEW n \in Nat, NEW R \in SUBSET (1 .. n), NEW l \in Links(n), NEW k \in R,
         Linked(l, Without(R, k)), l.next[k] = NextIn(R, k), l.prev[k] = PrevIn(R, k)
  PROVE  /\ Relink(l, k) \in Links(n) /\ Linked(Relink(l, k), R)
         /\ SameOutside(n, Without(R, k), l, Relink(l, k))
<1>. DEFINE a == l.prev[k]
            b == l.next[k]
            nx == [l.next EXCEPT ![a] = k]
            pv == IF b = Nil THEN l.prev ELSE [l.prev EXCEPT ![b] = k]
<1>1. /\ R \in SUBSET (Nat \ {0}) /\ k \in Nat \ {0} /\ headEntry = 0 /\ Nil = -1
      /\ l.next \in [0 .. n -> Int] /\ l.prev \in [0 .. n -> Int]
      /\ R \subseteq 0 .. n /\ k \in 0 .. n
  BY DEF headEntry, Nil, Links
<1>2. Relink(l, k) = [next |-> nx, prev |-> pv]
  BY DEF Relink
<1>3. a = PrevIn(R, k) /\ b = NextIn(R, k)
  OBVIOUS
<1>. HIDE DEF a, b
<1>4. a \in R \cup {headEntry} /\ a # k /\ a \in 0 .. n /\ a \in Int
  <2>1. PrevIn(R, k) \in R \cup {headEntry} /\ PrevIn(R, k) < k
    BY <1>1, PrevIs
  <2>2. a < k /\ a \in R \cup {0}
    BY <1>1, <1>3, <2>1
  <2>3. a \in 0 .. n
    BY <1>1, <2>2
  <2>4. QED  BY <1>1, <2>2, <2>3
<1>5. b = Nil \/ (b \in R /\ b # k /\ b \in 0 .. n /\ b # headEntry)
  <2>1. NextIn(R, k) = Nil \/ (NextIn(R, k) \in R /\ NextIn(R, k) > k)
    BY <1>1, NextIs
  <2>2. QED  BY <1>1, <1>3, <2>1
<1>7. nx \in [0 .. n -> Int] /\ pv \in [0 .. n -> Int]
  BY <1>1, <1>4, <1>5
<1>8. ASSUME NEW x \in R \cup {headEntry}
      PROVE  nx[x] = NextIn(R, x)
  <2>1. x \in 0 .. n
    BY <1>1
  <2>2. nx[x] = IF x = a THEN k ELSE l.next[x]
    BY <1>1, <2>1
  <2>3. CASE x = k
    <3>1. l.next[x] = NextIn(R, x)
      BY <1>3, <2>3 DEF b
    <3>2. QED  BY <1>4, <2>2, <2>3, <3>1
  <2>4. CASE x # k
    <3>1. x \in (R \ {k}) \cup {headEntry}
      BY <2>4
    <3>2. l.next[x] = NextIn(R \ {k}, x)
      BY <3>1 DEF Linked, Without
    <3>3. /\ x = a <=> NextIn(R, x) = k
          /\ NextIn(R \ {k}, x) = IF x = a THEN b ELSE NextIn(R, x)
      <4>1. R \in SUBSET (Nat \ {0})
        BY <1>1
      <4>2. /\ x = PrevIn(R, k) <=> NextIn(R, x) = k
            /\ NextIn(R \ {k}, x) = IF x = PrevIn(R, k) THEN NextIn(R, k) ELSE NextIn(R, x)
        BY <3>1, <4>1, NextWithout
      <4>3. QED  BY <1>3, <4>2
    <3>4. QED  BY <2>2, <3>2, <3>3
  <2>5. QED  BY <2>3, <2>4
<1>9. ASSUME NEW x \in R
      PROVE  pv[x] = PrevIn(R, x)
  <2>0. x \in 0 .. n /\ Nil = -1
    BY <1>1
  <2>1. x \in 0 .. n /\ x # Nil
    BY <2>0
  <2>2. pv[x] = IF x = b THEN k ELSE l.prev[x]
    BY <1>1, <1>5, <2>1
  <2>3. CASE x = k
    <3>1. l.prev[x] = PrevIn(R, x)
      BY <1>3, <2>3 DEF a
    <3>2. QED  BY <1>1, <1>5, <2>2, <2>3, <3>1
  <2>4. CASE x # k
    <3>1. x \in R \ {k}
      BY <2>4
    <3>2. l.prev[x] = PrevIn(R \ {k}, x)
      BY <3>1 DEF Linked, Without
    <3>3. /\ x = b <=> PrevIn(R, x) = k
          /\ PrevIn(R \ {k}, x) = IF x = b THEN a ELSE PrevIn(R, x)
      BY <1>1, <1>3, <3>1, PrevWithout
    <3>4. QED  BY <2>2, <3>2, <3>3
  <2>5. QED  BY <2>3, <2>4
<1>10. ASSUME NEW x \in 0 .. n, x \notin (R \ {k}) \cup {headEntry}
       PROVE  nx[x] = l.next[x] /\ pv[x] = l.prev[x]
  <2>1. x # a /\ x # b
    BY <1>1, <1>4, <1>5, <1>10
  <2>2. QED  BY <1>1, <2>1
<1>. HIDE DEF nx, pv
<1>11. Relink(l, k).next = nx /\ Relink(l, k).prev = pv
  BY <1>2
<1>12. Relink(l, k) \in Links(n)
  BY <1>2, <1>7 DEF Links
<1>13. Linked(Relink(l, k), R)
  BY <1>8, <1>9, <1>11 DEF Linked
<1>14. SameOutside(n, Without(R, k), l, Relink(l, k))
  BY <1>10, <1>11 DEF SameOutside, Without
<1>15. QED  BY <1>12, <1>13, <1>14
-----------------------------------------------------------------------------
\* One partition h of a history, with n operations.

Id(h, k)     == h.entries[k].id
Calls(h, k)  == h.entries[k].kind = "call"
OpAt(h, k)   == h.ops[Id(h, k)]
MatchIn(h, k) == CHOOSE m \in DOMAIN h.entries : ~Calls(h, m) /\ Id(h, m) = Id(h, k)

\* Every operation is called once and returns once, in this order.
WellFormed(h, n) ==
    /\ n \in Nat \ {0}
    /\ DOMAIN h.ops = 1 .. n /\ \A i \in 1 .. n : h.ops[i] \in Operation
    /\ DOMAIN h.entries = 1 .. 2 * n
    /\ \A k \in 1 .. 2 * n : h.entries[k] \in [kind : {"call", "return"}, id : 1 .. n]
    /\ \A k, m \in 1 .. 2 * n :
          Id(h, k) = Id(h, m) /\ (Calls(h, k) <=> Calls(h, m)) => k = m
    /\ \A i \in 1 .. n : \E k, m \in 1 .. 2 * n :
          k < m /\ Calls(h, k) /\ ~Calls(h, m) /\ Id(h, k) = i /\ Id(h, m) = i

\* What makeEntries leaves is well formed: n calls and n returns fill 2 * n places.
LEMMA EntriesWellFormed ==
  ASSUME NEW n \in Nat \ {0}, NEW h, h.ops \in [1 .. n -> Operation], h.entries \in Entries(n)
  PROVE  WellFormed(h, n)
<1>. DEFINE N == 1 .. 2 * n
            Place(k) == IF Calls(h, k) THEN Id(h, k) ELSE n + Id(h, k)
            f == [k \in N |-> Place(k)]
<1>1. /\ h.entries \in [N -> [kind : {"call", "return"}, id : 1 .. n]]
      /\ \A a, b \in DOMAIN h.entries : h.entries[a] = h.entries[b] => a = b
      /\ \A k, l \in N :
            Calls(h, k) /\ k > l =>
               IF Calls(h, l) THEN Id(h, l) < Id(h, k) ELSE Id(h, l) # Id(h, k)
  BY DEF Entries, IsInjective, Calls, Id
<1>2. \A k \in N : h.entries[k] \in [kind : {"call", "return"}, id : 1 .. n]
  BY <1>1
<1>3. \A k \in N : Id(h, k) \in 1 .. n
  BY <1>2 DEF Id
<1>4. \A k, m \in N : Id(h, k) = Id(h, m) /\ (Calls(h, k) <=> Calls(h, m)) => k = m
  <2>. TAKE k, m \in N
  <2>. HAVE Id(h, k) = Id(h, m) /\ (Calls(h, k) <=> Calls(h, m))
  <2>1. h.entries[k].kind = h.entries[m].kind /\ h.entries[k].id = h.entries[m].id
    BY <1>2 DEF Calls, Id
  <2>2. h.entries[k] = h.entries[m]
    BY <1>2, <2>1
  <2>3. QED  BY <1>1, <2>2
<1>5. f \in [N -> N]
  <2>1. \A k \in N : Place(k) \in N
    BY <1>3
  <2>2. QED  BY <2>1
<1>6. \A a, b \in N : Place(a) = Place(b) => a = b
  <2>. TAKE a, b \in N
  <2>. HAVE Place(a) = Place(b)
  <2>1. Id(h, a) \in 1 .. n /\ Id(h, b) \in 1 .. n
    BY <1>3
  <2>2. Id(h, a) = Id(h, b) /\ (Calls(h, a) <=> Calls(h, b))
    BY <2>1
  <2>3. QED  BY <1>4, <2>2
<1>7. \A k \in N : f[k] = Place(k)
  OBVIOUS
<1>8. \A x \in N : \E k \in N : Place(k) = x
  <2>. HIDE DEF f, N, Place
  <2>1. f \in Injection(N, N)
    <3>1. DOMAIN f = N
      BY <1>5
    <3>2. IsInjective(f)
      BY <1>6, <1>7, <3>1 DEF IsInjective
    <3>3. QED  BY <1>5, <3>2 DEF Injection
  <2>2. IsFiniteSet(N)
    <3>1. 2 * n \in Int /\ 1 \in Int
      OBVIOUS
    <3>2. QED  BY <3>1, FS_Interval DEF N
  <2>3. f \in Surjection(N, N)
    BY <2>1, <2>2, FS_Injection
  <2>4. QED  BY <1>7, <2>3 DEF Surjection
<1>9. ASSUME NEW i \in 1 .. n
      PROVE  \E k, m \in N : k < m /\ Calls(h, k) /\ ~Calls(h, m) /\ Id(h, k) = i /\ Id(h, m) = i
  <2>0. i \in N /\ n + i \in N
    OBVIOUS
  <2>1. PICK k \in N : Place(k) = i
    BY <1>8, <2>0
  <2>2. PICK m \in N : Place(m) = n + i
    BY <1>8, <2>0
  <2>3. Id(h, k) \in 1 .. n /\ Id(h, m) \in 1 .. n
    BY <1>3
  <2>4. Calls(h, k) /\ Id(h, k) = i
    BY <2>1, <2>3
  <2>5. ~Calls(h, m) /\ Id(h, m) = i
    BY <2>2, <2>3
  <2>6. ~(k > m)
    BY <1>1, <2>4, <2>5
  <2>7. k # m
    BY <2>4, <2>5
  <2>8. k < m
    BY <2>6, <2>7
  <2>9. QED  BY <2>4, <2>5, <2>8
<1>10. DOMAIN h.entries = N /\ DOMAIN h.ops = 1 .. n /\ \A i \in 1 .. n : h.ops[i] \in Operation
  BY <1>1
<1>11. QED  BY <1>2, <1>4, <1>9, <1>10 DEF WellFormed

\* The match of a call is its return, and comes later.
LEMMA MatchIs ==
  ASSUME NEW n, NEW h, WellFormed(h, n), NEW k \in 1 .. 2 * n, Calls(h, k)
  PROVE  /\ MatchIn(h, k) \in 1 .. 2 * n /\ ~Calls(h, MatchIn(h, k))
         /\ Id(h, MatchIn(h, k)) = Id(h, k) /\ k < MatchIn(h, k)
         /\ \A m \in 1 .. 2 * n : Id(h, m) = Id(h, k) => m = k \/ m = MatchIn(h, k)
<1>1. /\ DOMAIN h.entries = 1 .. 2 * n /\ Id(h, k) \in 1 .. n
      /\ \A a, b \in 1 .. 2 * n : Id(h, a) = Id(h, b) /\ (Calls(h, a) <=> Calls(h, b)) => a = b
  <2>1. h.entries[k] \in [kind : {"call", "return"}, id : 1 .. n]
    BY DEF WellFormed
  <2>2. Id(h, k) \in 1 .. n
    BY <2>1 DEF Id
  <2>3. QED  BY <2>2 DEF WellFormed
<1>2. PICK c, m \in 1 .. 2 * n :
         c < m /\ Calls(h, c) /\ ~Calls(h, m) /\ Id(h, c) = Id(h, k) /\ Id(h, m) = Id(h, k)
  BY <1>1 DEF WellFormed
<1>3. c = k
  BY <1>1, <1>2
<1>4. MatchIn(h, k) \in 1 .. 2 * n /\ ~Calls(h, MatchIn(h, k)) /\ Id(h, MatchIn(h, k)) = Id(h, k)
  BY <1>1, <1>2 DEF MatchIn
<1>5. MatchIn(h, k) = m
  BY <1>1, <1>2, <1>4
<1>6. QED  BY <1>1, <1>2, <1>3, <1>4, <1>5
-----------------------------------------------------------------------------
\* What the search may do from a configuration c: the ids chosen and the state.

Configurations(n) == (SUBSET (1 .. n)) \X Seq(Values)
Root == <<{}, InitialState>>

\* The entries of the operations not in S, and the configuration after the choice of k.
Rest(h, n, S) == {k \in 1 .. 2 * n : Id(h, k) \notin S}
With(h, c, k) == <<c[1] \cup {Id(h, k)}, Step(c[2], OpAt(h, k))>>

\* k may be chosen at c: a legal call that no return of the rest precedes.
May(h, n, c, k) ==
    /\ k \in Rest(h, n, c[1]) /\ Calls(h, k) /\ IsLegal(c[2], OpAt(h, k))
    /\ \A x \in Rest(h, n, c[1]) : ~Calls(h, x) => k < x

\* g leads from c to g[m] by m choices.
Path(h, n, c, m, g) ==
    /\ g \in [0 .. m -> Configurations(n)] /\ g[0] = c
    /\ \A j \in 1 .. m : \E k \in 1 .. 2 * n :
          May(h, n, g[j - 1], k) /\ g[j] = With(h, g[j - 1], k)

\* c is done with: no path from it ends with all operations chosen; and if the partial
\* linearizations lg are wanted, none is longer than what lg has for its operations.
Settled(h, n, want, lg, c) ==
    \A m \in Nat : \A g : Path(h, n, c, m, g) =>
        /\ g[m][1] # 1 .. n
        /\ want => \A i \in g[m][1] : Len(lg[i]) >= Cardinality(g[m][1])

\* The search at c has tried all entries before e: they are calls, and the legal ones led
\* to configurations done with.
Tried(h, n, want, lg, c, e) ==
    \A x \in Rest(h, n, c[1]) : x < e =>
        /\ Calls(h, x)
        /\ IsLegal(c[2], OpAt(h, x)) => Settled(h, n, want, lg, With(h, c, x))

\* lg has for no operation more than lm has.
Within(n, lg, lm) == \A i \in 1 .. n : Len(lg[i]) <= Len(lm[i])

\* What is chosen and reached with one more call.
LEMMA WithIs ==
  ASSUME NEW n, NEW h, WellFormed(h, n), NEW c \in Configurations(n), NEW k \in 1 .. 2 * n
  PROVE  With(h, c, k) \in Configurations(n) /\ Id(h, k) \in 1 .. n /\ OpAt(h, k) \in Operation
<1>1. Id(h, k) \in 1 .. n
  <2>1. h.entries[k] \in [kind : {"call", "return"}, id : 1 .. n]
    BY DEF WellFormed
  <2>2. QED  BY <2>1 DEF Id
<1>2. OpAt(h, k) \in Operation
  BY <1>1 DEF OpAt, WellFormed
<1>3. c[1] \in SUBSET (1 .. n) /\ c[2] \in Seq(Values)
  BY DEF Configurations
<1>4. Step(c[2], OpAt(h, k)) \in Seq(Values)
  <2>. DEFINE op == OpAt(h, k)
  <2>. HIDE DEF op
  <2>1. \/ op.task = "Get"
        \/ op.task \in {"Put", "Append"} /\ op.value \in Values
    BY <1>2 DEF Operation, op
  <2>2. <<op.value>> \in Seq(Values) \/ op.task = "Get"
    BY <2>1
  <2>3. Append(c[2], op.value) \in Seq(Values) \/ op.task = "Get"
    BY <1>3, <2>1
  <2>4. Step(c[2], op) \in Seq(Values)
    BY <1>3, <2>1, <2>2, <2>3 DEF Step
  <2>5. QED  BY <2>4 DEF op
<1>5. QED  BY <1>1, <1>2, <1>3, <1>4 DEF With, Configurations

\* What is done with stays so while lg grows.
LEMMA SettledStays ==
  ASSUME NEW n \in Nat, NEW h, NEW want, NEW lg, NEW lm, NEW c, Settled(h, n, want, lg, c),
         lg \in [1 .. n -> Seq(1 .. n)], lm \in [1 .. n -> Seq(1 .. n)], want => Within(n, lg, lm)
  PROVE  Settled(h, n, want, lm, c)
<1>. SUFFICES ASSUME NEW m \in Nat, NEW g, Path(h, n, c, m, g)
              PROVE  /\ g[m][1] # 1 .. n
                     /\ want => \A i \in g[m][1] : Len(lm[i]) >= Cardinality(g[m][1])
  BY DEF Settled
<1>1. /\ g[m][1] # 1 .. n
      /\ want => \A i \in g[m][1] : Len(lg[i]) >= Cardinality(g[m][1])
  BY DEF Settled
<1>2. g[m][1] \in SUBSET (1 .. n)
  BY DEF Path, Configurations
<1>3. Cardinality(g[m][1]) \in Nat
  <2>1. IsFiniteSet(1 .. n)
    BY FS_Interval
  <2>2. IsFiniteSet(g[m][1])
    BY <1>2, <2>1, FS_Subset
  <2>3. QED  BY <2>2, FS_CardinalityType
<1>4. ASSUME want, NEW i \in g[m][1]
      PROVE  Len(lm[i]) >= Cardinality(g[m][1])
  <2>1. Len(lg[i]) >= Cardinality(g[m][1])
    BY <1>1, <1>4
  <2>2. Len(lg[i]) <= Len(lm[i])
    BY <1>2, <1>4 DEF Within
  <2>3. Len(lg[i]) \in Nat /\ Len(lm[i]) \in Nat
    <3>1. i \in 1 .. n
      BY <1>2
    <3>2. lg[i] \in Seq(1 .. n) /\ lm[i] \in Seq(1 .. n)
      BY <3>1
    <3>3. QED  BY <3>2
  <2>4. QED  BY <1>3, <2>1, <2>2, <2>3
<1>5. QED  BY <1>1, <1>4

\* What was tried stays tried when the partial linearizations get longer.
LEMMA TriedStays ==
  ASSUME NEW n \in Nat, NEW h, NEW want, NEW lg, NEW lm, NEW c, NEW e, Tried(h, n, want, lg, c, e),
         lg \in [1 .. n -> Seq(1 .. n)], lm \in [1 .. n -> Seq(1 .. n)], want => Within(n, lg, lm)
  PROVE  Tried(h, n, want, lm, c, e)
<1>1. \A x : Settled(h, n, want, lg, With(h, c, x)) => Settled(h, n, want, lm, With(h, c, x))
  BY SettledStays
<1>2. QED  BY <1>1 DEF Tried

\* A configuration is done with when the search there has come to a return entry: whatever
\* follows it in a linearization is called before that return, and was tried.
LEMMA SettledWhenTried ==
  ASSUME NEW n \in Nat, NEW h, NEW want, NEW lg, NEW c \in Configurations(n),
         NEW e \in Rest(h, n, c[1]), ~Calls(h, e), Tried(h, n, want, lg, c, e), WellFormed(h, n),
         want => \A i \in c[1] : Len(lg[i]) >= Cardinality(c[1])
  PROVE  Settled(h, n, want, lg, c)
<1>. SUFFICES ASSUME NEW m \in Nat, NEW g, Path(h, n, c, m, g)
              PROVE  /\ g[m][1] # 1 .. n
                     /\ want => \A i \in g[m][1] : Len(lg[i]) >= Cardinality(g[m][1])
  BY DEF Settled
<1>0. e \in 1 .. 2 * n /\ Id(h, e) \notin c[1]
  BY DEF Rest
<1>1. CASE m = 0
  <2>1. g[m] = c
    BY <1>1 DEF Path
  <2>2. Id(h, e) \in 1 .. n
    BY <1>0, WithIs
  <2>3. QED  BY <1>0, <2>1, <2>2
<1>2. CASE m # 0
  <2>. DEFINE f == [j \in 0 .. (m - 1) |-> g[j + 1]]
  <2>0. m - 1 \in Nat
    BY <1>2
  <2>1. g \in [0 .. m -> Configurations(n)] /\ g[0] = c
        /\ \A j \in 1 .. m : \E k \in 1 .. 2 * n :
              May(h, n, g[j - 1], k) /\ g[j] = With(h, g[j - 1], k)
    BY DEF Path
  <2>2. PICK k \in 1 .. 2 * n : May(h, n, c, k) /\ g[1] = With(h, c, k)
    <3>1. 1 \in 1 .. m /\ 1 - 1 = 0
      BY <1>2
    <3>2. \E k \in 1 .. 2 * n : May(h, n, g[1 - 1], k) /\ g[1] = With(h, g[1 - 1], k)
      BY <2>1, <3>1
    <3>3. QED  BY <2>1, <3>1, <3>2
  <2>3. Settled(h, n, want, lg, g[1])
    <3>1. k \in Rest(h, n, c[1]) /\ k < e /\ IsLegal(c[2], OpAt(h, k))
      BY <2>2 DEF May
    <3>2. QED  BY <2>2, <3>1 DEF Tried
  <2>4. Path(h, n, g[1], m - 1, f)
    <3>1. f \in [0 .. (m - 1) -> Configurations(n)]
      <4>1. \A j \in 0 .. (m - 1) : g[j + 1] \in Configurations(n)
        BY <2>1
      <4>2. QED  BY <4>1
    <3>2. f[0] = g[1]
      BY <2>0
    <3>3. ASSUME NEW j \in 1 .. (m - 1)
          PROVE  \E x \in 1 .. 2 * n : May(h, n, f[j - 1], x) /\ f[j] = With(h, f[j - 1], x)
      <4>1. j + 1 \in 1 .. m /\ (j + 1) - 1 = j /\ j \in 0 .. (m - 1) /\ j - 1 \in 0 .. (m - 1)
            /\ (j - 1) + 1 = j
        OBVIOUS
      <4>2. \E x \in 1 .. 2 * n : May(h, n, g[(j + 1) - 1], x) /\ g[j + 1] = With(h, g[(j + 1) - 1], x)
        BY <2>1, <4>1
      <4>3. f[j - 1] = g[j] /\ f[j] = g[j + 1]
        BY <4>1
      <4>. HIDE DEF f
      <4>4. QED  BY <4>1, <4>2, <4>3
    <3>. HIDE DEF f
    <3>4. QED  BY <3>1, <3>2, <3>3 DEF Path
  <2>5. f[m - 1] = g[m]
    BY <2>0
  <2>. HIDE DEF f
  <2>6. QED  BY <2>0, <2>3, <2>4, <2>5 DEF Settled
<1>3. QED  BY <1>1, <1>2
-----------------------------------------------------------------------------
\* lift and unlift.

\* The links of the call k and of its match are as they were when it was taken out of R.
Stale(h, l, R, k) ==
    /\ l.next[k] = NextIn(R, k) /\ l.prev[k] = PrevIn(R, k)
    /\ l.next[MatchIn(h, k)] = NextIn(Without(R, k), MatchIn(h, k))
    /\ l.prev[MatchIn(h, k)] = PrevIn(Without(R, k), MatchIn(h, k))

Lifted(h, l, k)   == Bypass(Bypass(l, k), MatchIn(h, k))
Unlifted(h, l, k) == Relink(Relink(l, MatchIn(h, k)), k)

\* The return of a call that is left is left too, after it.
LEMMA RestHasMatch ==
  ASSUME NEW n, NEW h, WellFormed(h, n), NEW S, NEW k \in 1 .. 2 * n, k \in Rest(h, n, S), Calls(h, k)
  PROVE  /\ MatchIn(h, k) \in 1 .. 2 * n /\ MatchIn(h, k) \in Rest(h, n, S)
         /\ k < MatchIn(h, k) /\ MatchIn(h, k) # k /\ ~Calls(h, MatchIn(h, k))
<1>1. MatchIn(h, k) \in 1 .. 2 * n /\ Id(h, MatchIn(h, k)) = Id(h, k) /\ k < MatchIn(h, k)
      /\ ~Calls(h, MatchIn(h, k))
  BY MatchIs
<1>2. QED  BY <1>1 DEF Rest

\* Choosing a call takes two entries out of what is left.
LEMMA RestWithout ==
  ASSUME NEW n, NEW h, WellFormed(h, n), NEW S, NEW k \in 1 .. 2 * n, k \in Rest(h, n, S), Calls(h, k)
  PROVE  Rest(h, n, S \cup {Id(h, k)}) = Without(Without(Rest(h, n, S), k), MatchIn(h, k))
<1>. DEFINE m == MatchIn(h, k)
<1>. HIDE DEF m
<1>1. /\ m \in 1 .. 2 * n /\ Id(h, m) = Id(h, k)
      /\ \A x \in 1 .. 2 * n : Id(h, x) = Id(h, k) => x = k \/ x = m
  BY MatchIs DEF m
<1>2. Rest(h, n, S \cup {Id(h, k)}) = (Rest(h, n, S) \ {k}) \ {m}
  BY <1>1 DEF Rest
<1>3. QED  BY <1>2 DEF m, Without

\* lift: the list is again that of what is left, and the two nodes keep their old
\* neighbours.
LEMMA LiftKeeps ==
  ASSUME NEW n, NEW h, WellFormed(h, n), NEW S, NEW k \in 1 .. 2 * n, k \in Rest(h, n, S), Calls(h, k),
         NEW l \in Links(2 * n), Linked(l, Rest(h, n, S))
  PROVE  /\ Lifted(h, l, k) \in Links(2 * n)
         /\ Linked(Lifted(h, l, k), Rest(h, n, S \cup {Id(h, k)}))
         /\ Stale(h, Lifted(h, l, k), Rest(h, n, S), k)
         /\ SameOutside(2 * n, Rest(h, n, S), l, Lifted(h, l, k))
<1>. DEFINE N == 2 * n
            R == Rest(h, n, S)
            Q == Without(R, k)
            m == MatchIn(h, k)
            l1 == Bypass(l, k)
            l2 == Bypass(l1, m)
<1>1. /\ N \in Nat /\ R \in SUBSET (1 .. N) /\ Q \in SUBSET (1 .. N)
      /\ k \in R /\ k \in 1 .. N
  BY DEF Rest, WellFormed, Without
<1>2. m \in Q /\ m \in R /\ m # k /\ m \in 1 .. N
  BY RestHasMatch DEF Without
<1>3. Rest(h, n, S \cup {Id(h, k)}) = Without(Q, m)
  BY RestWithout
<1>4. l \in Links(N) /\ Linked(l, R) /\ Lifted(h, l, k) = l2
  BY DEF Lifted
<1>5. l.next[k] = NextIn(R, k) /\ l.prev[k] = PrevIn(R, k)
  BY <1>1, <1>4 DEF Linked
<1>. HIDE DEF N, R, Q, m, l1, l2
<1>6. l1 \in Links(N) /\ Linked(l1, Q) /\ SameOutside(N, Q, l, l1)
  BY <1>1, <1>4, BypassKeeps DEF l1, Q
<1>7. l2 \in Links(N) /\ Linked(l2, Without(Q, m)) /\ SameOutside(N, Without(Q, m), l1, l2)
  BY <1>1, <1>2, <1>6, BypassKeeps DEF l2
<1>8. l1.next[m] = NextIn(Q, m) /\ l1.prev[m] = PrevIn(Q, m)
  BY <1>2, <1>6 DEF Linked
<1>9. \A x \in 0 .. N : x \notin R \cup {headEntry} \/ x = k =>
         x \notin Q \cup {headEntry} /\ x \notin Without(Q, m) \cup {headEntry}
  BY <1>1 DEF headEntry, Without, Q
<1>10. l2.next[m] = l1.next[m] /\ l2.prev[m] = l1.prev[m]
  <2>1. m \in 0 .. N /\ m \notin Without(Q, m) \cup {headEntry}
    BY <1>2 DEF Without, headEntry
  <2>2. QED  BY <1>7, <2>1 DEF SameOutside
<1>11. \A x \in 0 .. N : x \notin R \cup {headEntry} \/ x = k =>
          l2.next[x] = l.next[x] /\ l2.prev[x] = l.prev[x]
  BY <1>6, <1>7, <1>9 DEF SameOutside
<1>12. k \in 0 .. N
  BY <1>1
<1>13. Stale(h, l2, R, k)
  BY <1>5, <1>8, <1>10, <1>11, <1>12 DEF Stale, m, Q
<1>14. SameOutside(N, R, l, l2)
  BY <1>11 DEF SameOutside
<1>15. QED  BY <1>3, <1>4, <1>7, <1>13, <1>14 DEF N, R

\* unlift: two nodes that kept their neighbours are put back where they were.
LEMMA UnliftKeeps ==
  ASSUME NEW n, NEW h, WellFormed(h, n), NEW S, NEW k \in 1 .. 2 * n, k \in Rest(h, n, S), Calls(h, k),
         NEW l \in Links(2 * n), Linked(l, Rest(h, n, S \cup {Id(h, k)})),
         Stale(h, l, Rest(h, n, S), k)
  PROVE  /\ Unlifted(h, l, k) \in Links(2 * n)
         /\ Linked(Unlifted(h, l, k), Rest(h, n, S))
         /\ SameOutside(2 * n, Rest(h, n, S), l, Unlifted(h, l, k))
<1>. DEFINE N == 2 * n
            R == Rest(h, n, S)
            Q == Without(R, k)
            m == MatchIn(h, k)
            l1 == Relink(l, m)
            l2 == Relink(l1, k)
<1>1. /\ N \in Nat /\ R \in SUBSET (1 .. N) /\ Q \in SUBSET (1 .. N)
      /\ k \in R /\ k \in 1 .. N
  BY DEF Rest, WellFormed, Without
<1>2. m \in Q /\ m \in R /\ m # k /\ m \in 1 .. N
  BY RestHasMatch DEF Without
<1>3. Rest(h, n, S \cup {Id(h, k)}) = Without(Q, m)
  BY RestWithout
<1>4. l \in Links(N) /\ Linked(l, Without(Q, m)) /\ Unlifted(h, l, k) = l2
  BY <1>3 DEF Unlifted
<1>5. /\ l.next[k] = NextIn(R, k) /\ l.prev[k] = PrevIn(R, k)
      /\ l.next[m] = NextIn(Q, m) /\ l.prev[m] = PrevIn(Q, m)
  BY DEF Stale
<1>. HIDE DEF N, R, Q, m, l1, l2
<1>6. l1 \in Links(N) /\ Linked(l1, Q) /\ SameOutside(N, Without(Q, m), l, l1)
  BY <1>1, <1>2, <1>4, <1>5, RelinkKeeps DEF l1
<1>7. \A x \in 0 .. N : x \notin R \cup {headEntry} \/ x = k =>
         x \notin Q \cup {headEntry} /\ x \notin Without(Q, m) \cup {headEntry}
  BY <1>1 DEF headEntry, Without, Q
<1>8. l1.next[k] = NextIn(R, k) /\ l1.prev[k] = PrevIn(R, k)
  <2>1. k \in 0 .. N
    BY <1>1
  <2>2. QED  BY <1>5, <1>6, <1>7, <2>1 DEF SameOutside
<1>9. l2 \in Links(N) /\ Linked(l2, R) /\ SameOutside(N, Q, l1, l2)
  BY <1>1, <1>6, <1>8, RelinkKeeps DEF l2, Q
<1>10. SameOutside(N, R, l, l2)
  BY <1>6, <1>7, <1>9 DEF SameOutside
<1>11. QED  BY <1>4, <1>9, <1>10 DEF N, R

\* The links of what was taken out before stay as they are.
LEMMA StaleStays ==
  ASSUME NEW n, NEW h, WellFormed(h, n), NEW S, NEW k \in 1 .. 2 * n, Calls(h, k), Id(h, k) \in S,
         NEW l, NEW m, SameOutside(2 * n, Rest(h, n, S), l, m), NEW R, Stale(h, l, R, k)
  PROVE  Stale(h, m, R, k)
<1>1. MatchIn(h, k) \in 1 .. 2 * n /\ Id(h, MatchIn(h, k)) = Id(h, k)
  BY MatchIs
<1>2. \A x \in 1 .. 2 * n : Id(h, x) \in S => m.next[x] = l.next[x] /\ m.prev[x] = l.prev[x]
  BY DEF SameOutside, Rest, headEntry, WellFormed
<1>3. QED  BY <1>1, <1>2 DEF Stale
-----------------------------------------------------------------------------
\* The search in one partition: l is its list, e the entry it looks at, ca its cache, cs
\* its stack and st its state; lg are the longest sequences, and want says whether they
\* are wanted.

Stacks(n) == Seq([entry : 1 .. 2 * n, state : Seq(Values)])

\* The ids chosen by the first j calls, and the configuration they led to.
Chosen(h, cs, j)  == {Id(h, cs[i].entry) : i \in 1 .. j}
StateAt(cs, st, j) == IF j = Len(cs) THEN st ELSE cs[j + 1].state
At(h, cs, st, j)  == <<Chosen(h, cs, j), StateAt(cs, st, j)>>

\* The call k was chosen at c and led to d.
Level(h, n, want, lg, l, c, d, k) ==
    /\ k \in Rest(h, n, c[1]) /\ Calls(h, k) /\ IsLegal(c[2], OpAt(h, k)) /\ d = With(h, c, k)
    /\ Tried(h, n, want, lg, c, k)
    /\ Stale(h, l, Rest(h, n, c[1]), k)

\* The list is that of the rest, and the entry is one of it, with all before it tried.
PlaceInv(h, n, want, lg, l, e, c) ==
    /\ Linked(l, Rest(h, n, c[1]))
    /\ Rest(h, n, c[1]) # {} => e \in Rest(h, n, c[1]) /\ Tried(h, n, want, lg, c, e)

\* What the cache holds is done with, or was come through.
CacheInv(h, n, want, lg, ca, cs, st) ==
    \A c \in ca : Settled(h, n, want, lg, c) \/ \E j \in 1 .. Len(cs) : c = At(h, cs, st, j)

SearchInv(h, n, want, lg, l, e, ca, cs, st) ==
    /\ l \in Links(2 * n) /\ cs \in Stacks(n) /\ st \in Seq(Values)
    /\ lg \in [1 .. n -> Seq(1 .. n)]
    /\ StateAt(cs, st, 0) = InitialState
    /\ \A j \in 1 .. Len(cs) :
          Level(h, n, want, lg, l, At(h, cs, st, j - 1), At(h, cs, st, j), cs[j].entry)
    /\ PlaceInv(h, n, want, lg, l, e, At(h, cs, st, Len(cs)))
    /\ CacheInv(h, n, want, lg, ca, cs, st)

\* Every level of the stack is a configuration.
LEMMA AtIs ==
  ASSUME NEW n, NEW h, WellFormed(h, n), NEW cs \in Stacks(n), NEW st \in Seq(Values),
         NEW j \in 0 .. Len(cs)
  PROVE  At(h, cs, st, j) \in Configurations(n)
<1>1. \A i \in 1 .. Len(cs) : cs[i].entry \in 1 .. 2 * n /\ cs[i].state \in Seq(Values)
  <2>. DEFINE T == [entry : 1 .. 2 * n, state : Seq(Values)]
  <2>0. cs \in Seq(T)
    BY DEF Stacks
  <2>1. \A i \in 1 .. Len(cs) : cs[i] \in T
    <3>. HIDE DEF T
    <3>1. QED  BY <2>0
  <2>2. QED  BY <2>1
<1>2. \A i \in 1 .. j : cs[i].entry \in 1 .. 2 * n
  <2>1. \A i \in 1 .. j : i \in 1 .. Len(cs)
    BY LenProperties DEF Stacks
  <2>2. QED  BY <1>1, <2>1
<1>3. \A k \in 1 .. 2 * n : Id(h, k) \in 1 .. n
  <2>1. \A k \in 1 .. 2 * n : h.entries[k] \in [kind : {"call", "return"}, id : 1 .. n]
    BY DEF WellFormed
  <2>2. QED  BY <2>1 DEF Id
<1>4. Chosen(h, cs, j) \in SUBSET (1 .. n)
  BY <1>2, <1>3 DEF Chosen
<1>5. StateAt(cs, st, j) \in Seq(Values)
  <2>1. j = Len(cs) \/ j + 1 \in 1 .. Len(cs)
    BY LenProperties DEF Stacks
  <2>2. QED  BY <1>1, <2>1 DEF StateAt
<1>6. QED  BY <1>4, <1>5 DEF At, Configurations

\* cn is the stack cs with one call more, k at st, that led to t.
Deeper(h, n, cs, st, k, cn, t) ==
    /\ cn \in Stacks(n) /\ Len(cn) = Len(cs) + 1 /\ cn[Len(cs) + 1].entry = k
    /\ \A j \in 1 .. Len(cs) : cn[j] = cs[j]
    /\ \A j \in 0 .. Len(cs) : At(h, cn, t, j) = At(h, cs, st, j)
    /\ At(h, cn, t, Len(cs) + 1) = <<Chosen(h, cs, Len(cs)) \cup {Id(h, k)}, t>>

\* A push leaves the levels below it as they were.
LEMMA AtAppend ==
  ASSUME NEW n, NEW h, NEW cs \in Stacks(n), NEW st \in Seq(Values), NEW k \in 1 .. 2 * n, NEW t,
         NEW cn, cn = Append(cs, [entry |-> k, state |-> st])
  PROVE  Deeper(h, n, cs, st, k, cn, t)
<1>. DEFINE x == [entry |-> k, state |-> st]
            N == Len(cs)
            T == [entry : 1 .. 2 * n, state : Seq(Values)]
<1>1. x \in T /\ cs \in Seq(T) /\ x.entry = k /\ x.state = st /\ cn = Append(cs, x)
  BY DEF Stacks
<1>. HIDE DEF x, T, N
<1>2. cn \in Seq(T) /\ Len(cn) = N + 1 /\ N \in Nat /\ cn[N + 1] = x
      /\ \A j \in 1 .. N : cn[j] = cs[j]
  BY <1>1 DEF N
<1>3. ASSUME NEW j \in 0 .. N
      PROVE  Chosen(h, cn, j) = Chosen(h, cs, j)
  <2>1. \A i \in 1 .. j : cn[i] = cs[i]
    BY <1>2
  <2>2. QED  BY <2>1 DEF Chosen
<1>4. ASSUME NEW j \in 0 .. N
      PROVE  StateAt(cn, t, j) = StateAt(cs, st, j)
  <2>1. StateAt(cn, t, j) = cn[j + 1].state
    BY <1>2 DEF StateAt
  <2>2. CASE j = N
    BY <1>1, <1>2, <2>1, <2>2 DEF StateAt, N
  <2>3. CASE j # N
    <3>1. j + 1 \in 1 .. N
      BY <1>2, <2>3
    <3>2. cn[j + 1] = cs[j + 1]
      BY <1>2, <3>1
    <3>3. QED  BY <2>1, <2>3, <3>2 DEF StateAt, N
  <2>4. QED  BY <2>2, <2>3
<1>5. Chosen(h, cn, N + 1) = Chosen(h, cs, N) \cup {Id(h, k)}
  <2>1. 1 .. (N + 1) = (1 .. N) \cup {N + 1}
    BY <1>2
  <2>2. Chosen(h, cn, N + 1) = {Id(h, cn[i].entry) : i \in 1 .. N} \cup {Id(h, cn[N + 1].entry)}
    BY <2>1 DEF Chosen
  <2>3. {Id(h, cn[i].entry) : i \in 1 .. N} = Chosen(h, cn, N)
    BY DEF Chosen
  <2>4. N \in 0 .. N
    BY <1>2
  <2>5. QED  BY <1>1, <1>2, <1>3, <2>2, <2>3, <2>4
<1>6. StateAt(cn, t, N + 1) = t
  <2>1. QED  BY <1>2 DEF StateAt
<1>7. cn[N + 1].entry = k
  BY <1>1, <1>2
<1>8. \A j \in 0 .. N : At(h, cn, t, j) = At(h, cs, st, j)
  BY <1>3, <1>4 DEF At
<1>9. At(h, cn, t, N + 1) = <<Chosen(h, cs, N) \cup {Id(h, k)}, t>>
  BY <1>5, <1>6 DEF At
<1>10. QED  BY <1>2, <1>7, <1>8, <1>9 DEF N, Stacks, T, Deeper

\* Front(cs) is the stack cs with one call less.
Shallower(h, n, cs, st) ==
    /\ Front(cs) \in Stacks(n) /\ Len(cs) \in Nat \ {0} /\ Len(Front(cs)) = Len(cs) - 1
    /\ Last(cs) = cs[Len(cs)] /\ cs[Len(cs)].entry \in 1 .. 2 * n
    /\ cs[Len(cs)].state \in Seq(Values)
    /\ \A j \in 1 .. (Len(cs) - 1) : Front(cs)[j] = cs[j]
    /\ \A j \in 0 .. (Len(cs) - 1) :
          At(h, Front(cs), cs[Len(cs)].state, j) = At(h, cs, st, j)

\* So does a pop.
LEMMA AtFront ==
  ASSUME NEW n, NEW h, NEW cs \in Stacks(n), cs # <<>>, NEW st
  PROVE  Shallower(h, n, cs, st)
<1>. DEFINE T == [entry : 1 .. 2 * n, state : Seq(Values)]
            N == Len(cs)
            f == Front(cs)
            t == cs[N].state
<1>1. cs \in Seq(T)
  BY DEF Stacks
<1>2. N \in Nat \ {0} /\ cs[N] \in T
  <2>. HIDE DEF T
  <2>1. QED  BY <1>1
<1>3. cs[N].entry \in 1 .. 2 * n /\ t \in Seq(Values)
  BY <1>2
<1>. HIDE DEF T
<1>4. f \in Seq(T) /\ Len(f) = N - 1 /\ \A j \in 1 .. (N - 1) : f[j] = cs[j]
  <2>1. f = SubSeq(cs, 1, N - 1)
    BY DEF Front
  <2>2. N - 1 \in Int /\ 1 \in Int /\ N - 1 \in Nat
    BY <1>2
  <2>3. \A j \in 1 .. (N - 1) : cs[j] \in T
    <3>1. \A j \in 1 .. (N - 1) : j \in 1 .. N
      BY <1>2
    <3>2. QED  BY <1>1, <3>1
  <2>. DEFINE M == N - 1
  <2>. HIDE DEF N, M, f
  <2>4. /\ SubSeq(cs, 1, M) \in Seq(T)
        /\ Len(SubSeq(cs, 1, M)) = IF 1 <= M THEN M - 1 + 1 ELSE 0
        /\ \A i \in 1 .. M - 1 + 1 : SubSeq(cs, 1, M)[i] = cs[1 + i - 1]
    BY <2>2, <2>3, SubSeqProperties DEF M
  <2>5. \A i \in 1 .. M : SubSeq(cs, 1, M)[i] = cs[i]
    BY <2>2, <2>4 DEF M
  <2>6. QED  BY <2>1, <2>2, <2>4, <2>5 DEF M
<1>. HIDE DEF N, f, t
<1>5. ASSUME NEW j \in 0 .. (N - 1)
      PROVE  At(h, f, t, j) = At(h, cs, st, j)
  <2>1. \A i \in 1 .. j : f[i] = cs[i]
    BY <1>2, <1>4
  <2>2. Chosen(h, f, j) = Chosen(h, cs, j)
    BY <2>1 DEF Chosen
  <2>3. StateAt(f, t, j) = StateAt(cs, st, j)
    <3>1. StateAt(cs, st, j) = cs[j + 1].state
      BY <1>2 DEF StateAt, N
    <3>2. CASE j = N - 1
      <4>1. j + 1 = N
        BY <1>2, <3>2
      <4>2. QED  BY <1>4, <3>1, <3>2, <4>1 DEF StateAt, t
    <3>3. CASE j # N - 1
      <4>1. j + 1 \in 1 .. (N - 1)
        BY <1>2, <3>3
      <4>2. f[j + 1] = cs[j + 1]
        BY <1>4, <4>1
      <4>3. QED  BY <1>4, <3>1, <3>3, <4>2 DEF StateAt
    <3>4. QED  BY <3>2, <3>3
  <2>4. QED  BY <2>2, <2>3 DEF At
<1>6. f = Front(cs) /\ N = Len(cs) /\ t = cs[Len(cs)].state
  BY DEF f, N, t
<1>7. Last(cs) = cs[Len(cs)]
  BY DEF Last
<1>8. QED  BY <1>2, <1>3, <1>4, <1>5, <1>6, <1>7 DEF Stacks, T, Shallower
-----------------------------------------------------------------------------
\* The steps of the search.

\* The list is empty if and only if nothing is left; otherwise it begins with the first
\* entry left.
LEMMA HasRest ==
  ASSUME NEW n, NEW R \in SUBSET (1 .. n), NEW l, Linked(l, R)
  PROVE  /\ l.next[headEntry] # Nil <=> R # {}
         /\ R # {} => l.next[headEntry] \in R /\ \A x \in R : l.next[headEntry] <= x
<1>1. l.next[headEntry] = NextIn(R, headEntry)
  BY DEF Linked
<1>2. R \in SUBSET (Nat \ {0}) /\ headEntry \in Nat /\ headEntry = 0 /\ Nil = -1
  BY DEF headEntry, Nil
<1>3. \A m \in R : m > headEntry
  BY <1>2
<1>. DEFINE x == NextIn(R, headEntry)
<1>. HIDE DEF x
<1>4. \/ x = Nil /\ \A m \in R : ~(m > headEntry)
      \/ x \in R /\ x > headEntry /\ \A m \in R : m > headEntry => x <= m
  BY <1>2, NextIs DEF x
<1>5. x \in R => x # Nil
  BY <1>2
<1>6. /\ x # Nil <=> R # {}
      /\ R # {} => x \in R /\ \A m \in R : x <= m
  BY <1>3, <1>4, <1>5
<1>7. QED  BY <1>1, <1>6 DEF x

\* The entry after a call is in the list, and nothing is between the two.
LEMMA AfterCall ==
  ASSUME NEW n, NEW h, WellFormed(h, n), NEW S, NEW k \in 1 .. 2 * n, k \in Rest(h, n, S), Calls(h, k)
  PROVE  LET x == NextIn(Rest(h, n, S), k) IN
         x \in Rest(h, n, S) /\ \A y \in Rest(h, n, S) : y < x => y < k \/ y = k
<1>. DEFINE R == Rest(h, n, S)
            m == MatchIn(h, k)
            x == NextIn(R, k)
<1>1. R \in SUBSET (Nat \ {0}) /\ k \in Nat
  BY DEF Rest
<1>2. m \in R /\ m > k
  <2>1. m \in 1 .. 2 * n /\ m \in R /\ k < m
    BY RestHasMatch
  <2>2. QED  BY <1>1, <2>1
<1>. HIDE DEF R, m, x
<1>3. \/ x = Nil /\ \A y \in R : ~(y > k)
      \/ x \in R /\ x > k /\ \A y \in R : y > k => x <= y
  BY <1>1, NextIs DEF x
<1>4. x \in R /\ \A y \in R : y > k => x <= y
  BY <1>2, <1>3
<1>5. \A y \in R : y < x => y < k \/ y = k
  BY <1>1, <1>4
<1>6. QED  BY <1>4, <1>5 DEF x, R

\* A search begins with its invariant.
LEMMA SearchInit ==
  ASSUME NEW n, NEW h, WellFormed(h, n), NEW want, NEW l,
         l = [next |-> [k \in (1 .. 2 * n) \cup {headEntry} |->
                          IF k + 1 \in 1 .. 2 * n THEN k + 1 ELSE Nil],
              prev |-> [k \in (1 .. 2 * n) \cup {headEntry} |-> k - 1]]
  PROVE  SearchInv(h, n, want, [i \in 1 .. n |-> <<>>], l, 1, {}, <<>>, InitialState)
<1>. DEFINE N == 2 * n
            R == 1 .. N
            lg == [i \in 1 .. n |-> <<>>]
            c == At(h, <<>>, InitialState, 0)
<1>1. n \in Nat \ {0} /\ N \in Nat \ {0} /\ headEntry = 0 /\ Nil = -1 /\ 0 .. N = R \cup {headEntry}
      /\ R \in SUBSET (Nat \ {0})
  <2>1. n \in Nat \ {0} /\ headEntry = 0 /\ Nil = -1
    BY DEF WellFormed, headEntry, Nil
  <2>2. N \in Nat \ {0}
    BY <2>1
  <2>3. R \in SUBSET (Nat \ {0}) /\ 0 .. N = R \cup {0}
    <3>. HIDE DEF N
    <3>1. QED  BY <2>2
  <2>4. QED  BY <2>1, <2>2, <2>3
<1>2. l \in Links(N)
  <2>1. \A k \in 0 .. N : (IF k + 1 \in R THEN k + 1 ELSE Nil) \in Int /\ k - 1 \in Int
    BY <1>1
  <2>2. QED  BY <1>1, <2>1 DEF Links
<1>3. <<>> \in Stacks(n) /\ <<>> \in Seq(Values) /\ <<>> \in Seq(1 .. n) /\ Len(<<>>) = 0
  BY DEF Stacks
<1>4. lg \in [1 .. n -> Seq(1 .. n)]
  BY <1>3
<1>5. c = <<{}, InitialState>> /\ StateAt(<<>>, InitialState, 0) = InitialState
  BY <1>3 DEF At, Chosen, StateAt
<1>6. Rest(h, n, c[1]) = R
  BY <1>5 DEF Rest
<1>7. Linked(l, R)
  <2>1. ASSUME NEW k \in R \cup {headEntry}
        PROVE  l.next[k] = NextIn(R, k)
    <3>1. l.next[k] = IF k + 1 \in R THEN k + 1 ELSE Nil
      BY <1>1
    <3>2. k \in Nat
      BY <1>1
    <3>3. CASE k + 1 \in R
      <4>1. k + 1 \in R /\ k + 1 > k /\ \A m \in R : m > k => k + 1 <= m
        <5>1. \A m \in R : m \in Nat
          BY <1>1
        <5>2. \A m \in Nat : m > k => k + 1 <= m
          BY <3>2
        <5>3. QED  BY <3>2, <3>3, <5>1, <5>2
      <4>. DEFINE a == k + 1
      <4>2. a \in R /\ a > k /\ \A m \in R : m > k => a <= m
        BY <4>1
      <4>. HIDE DEF R, a
      <4>3. R \in SUBSET (Nat \ {0})
        BY <1>1
      <4>4. NextIn(R, k) = a
        <5>1. \A x \in R : x > k /\ (\A m \in R : m > k => x <= m) => NextIn(R, k) = x
          BY <3>2, <4>3, NextIs
        <5>. HIDE DEF NextIn
        <5>2. QED  BY <4>2, <5>1, Zenon
      <4>5. QED  BY <3>1, <3>3, <4>4 DEF a
    <3>4. CASE k + 1 \notin R
      <4>1. \A m \in R : ~(m > k)
        BY <1>1, <3>2, <3>4
      <4>. HIDE DEF R
      <4>2. NextIn(R, k) = Nil
        BY <1>1, <3>2, <4>1, NextIs
      <4>3. QED  BY <3>1, <3>4, <4>2
    <3>5. QED  BY <3>3, <3>4
  <2>2. ASSUME NEW k \in R
        PROVE  l.prev[k] = PrevIn(R, k)
    <3>1. l.prev[k] = k - 1
      OBVIOUS
    <3>2. /\ k - 1 \in R \cup {headEntry} /\ k - 1 < k /\ k \in Nat \ {0}
          /\ \A m \in R \cup {headEntry} : m < k => m <= k - 1
      BY <1>1
    <3>. HIDE DEF R
    <3>3. PrevIn(R, k) = k - 1
      BY <1>1, <3>2, PrevIs
    <3>4. QED  BY <3>1, <3>3
  <2>3. QED  BY <2>1, <2>2 DEF Linked
<1>8. 1 \in R /\ Tried(h, n, want, lg, c, 1)
  <2>1. 1 \in R /\ \A x \in R : ~(x < 1)
    BY <1>1
  <2>. HIDE DEF R, c, lg
  <2>2. QED  BY <1>6, <2>1 DEF Tried
<1>. HIDE DEF N, R, lg, c
<1>9. PlaceInv(h, n, want, lg, l, 1, c)
  BY <1>6, <1>7, <1>8 DEF PlaceInv
<1>10. /\ CacheInv(h, n, want, lg, {}, <<>>, InitialState)
       /\ \A j \in 1 .. Len(<<>>) :
             Level(h, n, want, lg, l, At(h, <<>>, InitialState, j - 1), At(h, <<>>, InitialState, j),
                   <<>>[j].entry)
  BY <1>3 DEF CacheInv
<1>11. c = At(h, <<>>, InitialState, Len(<<>>)) /\ InitialState \in Seq(Values)
  BY <1>3 DEF c, InitialState
<1>12. SearchInv(h, n, want, lg, l, 1, {}, <<>>, InitialState)
  BY <1>2, <1>3, <1>4, <1>5, <1>9, <1>10, <1>11 DEF SearchInv, N
<1>13. QED  BY <1>12 DEF lg

\* The search skips a call that is not legal, or whose choice is in the cache: that one is
\* done with, since no configuration come through has the id of a call of the rest.
LEMMA SearchSkip ==
  ASSUME NEW n, NEW h, WellFormed(h, n), NEW want, NEW lg, NEW l, NEW e, NEW ca, NEW cs, NEW st,
         SearchInv(h, n, want, lg, l, e, ca, cs, st), Rest(h, n, Chosen(h, cs, Len(cs))) # {},
         Calls(h, e),
         IsLegal(st, OpAt(h, e)) => With(h, At(h, cs, st, Len(cs)), e) \in ca
  PROVE  SearchInv(h, n, want, lg, l, l.next[e], ca, cs, st)
<1>. DEFINE N == Len(cs)
            c == At(h, cs, st, N)
            R == Rest(h, n, c[1])
            d == With(h, c, e)
<1>1. N \in Nat /\ c[1] = Chosen(h, cs, N) /\ c[2] = st
  <2>1. N \in Nat
    BY LenProperties DEF SearchInv, Stacks
  <2>2. QED  BY <2>1 DEF At, StateAt
<1>2. R # {} /\ PlaceInv(h, n, want, lg, l, e, c) /\ CacheInv(h, n, want, lg, ca, cs, st)
  BY <1>1 DEF SearchInv
<1>. HIDE DEF N, c, R, d
<1>3. e \in R /\ Linked(l, R) /\ Tried(h, n, want, lg, c, e)
  BY <1>2 DEF PlaceInv, R
<1>4. e \in 1 .. 2 * n /\ Id(h, e) \notin c[1]
  BY <1>3 DEF Rest, R
<1>5. l.next[e] = NextIn(R, e)
  BY <1>3 DEF Linked
<1>. DEFINE x == NextIn(R, e)
<1>6. x \in R /\ \A y \in R : y < x => y < e \/ y = e
  BY <1>3, <1>4, AfterCall DEF R
<1>. HIDE DEF x
<1>7. IsLegal(c[2], OpAt(h, e)) => Settled(h, n, want, lg, d)
  <2>. SUFFICES ASSUME IsLegal(c[2], OpAt(h, e))
                PROVE  Settled(h, n, want, lg, d)
    OBVIOUS
  <2>1. d \in ca
    BY <1>1 DEF d, c, N
  <2>2. ASSUME NEW j \in 1 .. N, d = At(h, cs, st, j)
        PROVE  FALSE
    <3>1. Id(h, e) \in Chosen(h, cs, j)
      <4>1. Id(h, e) \in d[1]
        BY DEF d, With
      <4>2. QED  BY <2>2, <4>1 DEF At
    <3>2. Chosen(h, cs, j) \subseteq Chosen(h, cs, N)
      BY <1>1 DEF Chosen
    <3>3. QED  BY <1>1, <1>4, <3>1, <3>2
  <2>3. QED  BY <1>2, <2>1, <2>2 DEF CacheInv, N
<1>8. Tried(h, n, want, lg, c, x)
  <2>1. ASSUME NEW y \in R, y < x
        PROVE  Calls(h, y) /\ (IsLegal(c[2], OpAt(h, y)) => Settled(h, n, want, lg, With(h, c, y)))
    <3>1. CASE y < e
      BY <1>3, <3>1 DEF Tried, R
    <3>2. CASE y = e
      BY <1>7, <3>2 DEF d
    <3>3. QED  BY <1>6, <2>1, <3>1, <3>2
  <2>2. QED  BY <2>1 DEF Tried, R
<1>9. PlaceInv(h, n, want, lg, l, x, c)
  BY <1>3, <1>6, <1>8 DEF PlaceInv, R
<1>10. l.next[e] = x
  BY <1>5 DEF x
<1>11. QED  BY <1>9, <1>10 DEF SearchInv, c, N

\* The search chooses a legal call, e, that leads to d with the stack cn.
Chooses(h, n, want, lg, l, e, ca, cs, st, d, cn) ==
    /\ SearchInv(h, n, want, lg, Lifted(h, l, e), Lifted(h, l, e).next[headEntry], ca \cup {d},
                 cn, d[2])
    /\ Chosen(h, cn, Len(cn)) = d[1]

\* A call that is legal: its configuration is in the cache and given up or under way, or is
\* the new top.
LEMMA SearchChoose ==
  ASSUME NEW n, NEW h, WellFormed(h, n), NEW want, NEW lg, NEW l, NEW e, NEW ca, NEW cs, NEW st,
         SearchInv(h, n, want, lg, l, e, ca, cs, st), Rest(h, n, Chosen(h, cs, Len(cs))) # {},
         Calls(h, e), IsLegal(st, OpAt(h, e)), NEW d, d = With(h, At(h, cs, st, Len(cs)), e),
         NEW cn, cn = Append(cs, [entry |-> e, state |-> st])
  PROVE  Chooses(h, n, want, lg, l, e, ca, cs, st, d, cn)
<1>. DEFINE N == Len(cs)
            c == At(h, cs, st, N)
            S == c[1]
            R == Rest(h, n, S)
            l2 == Lifted(h, l, e)
            t == d[2]
<1>1. N \in Nat /\ S = Chosen(h, cs, N) /\ c[2] = st /\ c \in Configurations(n)
      /\ cs \in Stacks(n) /\ st \in Seq(Values) /\ l \in Links(2 * n)
  <2>1. cs \in Stacks(n) /\ st \in Seq(Values) /\ l \in Links(2 * n)
    BY DEF SearchInv
  <2>2. N \in Nat /\ N \in 0 .. N
    BY <2>1, LenProperties DEF Stacks
  <2>3. S = Chosen(h, cs, N) /\ c[2] = st
    BY <2>2 DEF At, StateAt
  <2>4. c \in Configurations(n)
    BY <2>1, <2>2, AtIs
  <2>5. QED  BY <2>1, <2>2, <2>3, <2>4
<1>2. R # {} /\ PlaceInv(h, n, want, lg, l, e, c) /\ CacheInv(h, n, want, lg, ca, cs, st)
  BY <1>1 DEF SearchInv
<1>3. e \in R /\ Linked(l, R) /\ Tried(h, n, want, lg, c, e)
  BY <1>2 DEF PlaceInv
<1>4. e \in 1 .. 2 * n
  BY <1>3 DEF Rest
<1>5. /\ l2 \in Links(2 * n) /\ Linked(l2, Rest(h, n, S \cup {Id(h, e)}))
      /\ Stale(h, l2, R, e) /\ SameOutside(2 * n, R, l, l2)
  <2>. HIDE DEF S, N, c
  <2>1. QED  BY <1>1, <1>3, <1>4, LiftKeeps
<1>6. d = <<S \cup {Id(h, e)}, t>> /\ d[1] = S \cup {Id(h, e)} /\ d = With(h, c, e) /\ d \in Configurations(n)
  <2>1. d = With(h, c, e)
    OBVIOUS
  <2>2. d \in Configurations(n)
    BY <1>1, <1>4, <2>1, WithIs
  <2>3. QED  BY <2>1, <2>2 DEF With
<1>7. /\ cn \in Stacks(n) /\ Len(cn) = N + 1 /\ cn[N + 1].entry = e
      /\ \A j \in 1 .. N : cn[j] = cs[j]
      /\ \A j \in 0 .. N : At(h, cn, t, j) = At(h, cs, st, j)
      /\ At(h, cn, t, N + 1) = <<Chosen(h, cs, N) \cup {Id(h, e)}, t>>
  <2>1. cs \in Stacks(n) /\ st \in Seq(Values) /\ e \in 1 .. 2 * n
        /\ cn = Append(cs, [entry |-> e, state |-> st])
    BY <1>1, <1>4
  <2>. HIDE DEF S, R, c, l2, t, N
  <2>2. Deeper(h, n, cs, st, e, cn, t)
    BY <2>1, AtAppend
  <2>3. QED  BY <2>2 DEF Deeper, N
<1>. HIDE DEF N, c, S, R, l2, t
<1>8. At(h, cn, t, N + 1) = d
  BY <1>1, <1>6, <1>7
<1>9. ASSUME NEW j \in 1 .. Len(cn)
      PROVE  Level(h, n, want, lg, l2, At(h, cn, t, j - 1), At(h, cn, t, j), cn[j].entry)
  <2>1. CASE j = N + 1
    <3>1. j - 1 = N /\ N \in 0 .. N
      BY <1>1, <2>1
    <3>2. At(h, cn, t, j - 1) = c /\ At(h, cn, t, j) = d /\ cn[j].entry = e
      BY <1>7, <1>8, <2>1, <3>1 DEF c
    <3>3. IsLegal(c[2], OpAt(h, e))
      BY <1>1
    <3>4. QED  BY <1>3, <1>5, <1>6, <3>2, <3>3 DEF Level, R, S
  <2>2. CASE j # N + 1
    <3>1. j \in 1 .. N /\ j - 1 \in 0 .. N /\ j \in 0 .. N
      BY <1>1, <1>7, <2>2
    <3>. DEFINE b == At(h, cs, st, j - 1)
                k == cs[j].entry
    <3>2. At(h, cn, t, j - 1) = b /\ At(h, cn, t, j) = At(h, cs, st, j) /\ cn[j] = cs[j]
      BY <1>7, <3>1
    <3>3. Level(h, n, want, lg, l, b, At(h, cs, st, j), k)
      BY <3>1 DEF SearchInv, N
    <3>4. Id(h, k) \in S
      BY <1>1, <3>1 DEF Chosen
    <3>. HIDE DEF b, k
    <3>5. k \in Rest(h, n, b[1]) /\ Calls(h, k) /\ Stale(h, l, Rest(h, n, b[1]), k)
      BY <3>3 DEF Level
    <3>6. k \in 1 .. 2 * n
      BY <3>5 DEF Rest
    <3>7. Stale(h, l2, Rest(h, n, b[1]), k)
      BY <1>5, <3>4, <3>5, <3>6, StaleStays DEF R
    <3>8. Level(h, n, want, lg, l2, b, At(h, cs, st, j), k)
      BY <3>3, <3>7 DEF Level
    <3>9. QED  BY <3>2, <3>8 DEF k
  <2>3. QED  BY <2>1, <2>2
<1>10. PlaceInv(h, n, want, lg, l2, l2.next[headEntry], d)
  <2>. DEFINE Q == Rest(h, n, d[1])
  <2>1. Linked(l2, Q) /\ Q \in SUBSET (1 .. 2 * n)
    BY <1>5, <1>6 DEF Rest
  <2>2. Q # {} => l2.next[headEntry] \in Q /\ \A x \in Q : l2.next[headEntry] <= x
    BY <2>1, HasRest
  <2>3. \A x, y \in Q : y <= x => ~(x < y)
    BY <2>1
  <2>. HIDE DEF Q
  <2>4. Q # {} => Tried(h, n, want, lg, d, l2.next[headEntry])
    BY <2>2, <2>3 DEF Tried, Q
  <2>5. QED  BY <2>1, <2>2, <2>4 DEF PlaceInv, Q
<1>11. CacheInv(h, n, want, lg, ca \cup {d}, cn, t)
  <2>1. ASSUME NEW x \in ca \cup {d}
        PROVE  Settled(h, n, want, lg, x) \/ \E j \in 1 .. Len(cn) : x = At(h, cn, t, j)
    <3>1. CASE x = d
      <4>1. N + 1 \in 1 .. Len(cn)
        BY <1>1, <1>7
      <4>2. QED  BY <1>8, <3>1, <4>1
    <3>2. CASE x \in ca
      <4>1. Settled(h, n, want, lg, x) \/ \E j \in 1 .. N : x = At(h, cs, st, j)
        BY <1>2, <3>2 DEF CacheInv, N
      <4>2. \A j \in 1 .. N : j \in 0 .. N /\ j \in 1 .. Len(cn)
        BY <1>1, <1>7
      <4>3. QED  BY <1>7, <4>1, <4>2
    <3>3. QED  BY <3>1, <3>2
  <2>2. QED  BY <2>1 DEF CacheInv
<1>12. StateAt(cn, t, 0) = InitialState
  <2>1. 0 \in 0 .. N
    BY <1>1
  <2>2. At(h, cn, t, 0) = At(h, cs, st, 0)
    BY <1>7, <2>1
  <2>3. StateAt(cn, t, 0) = StateAt(cs, st, 0)
    BY <2>2 DEF At
  <2>4. QED  BY <2>3 DEF SearchInv
<1>13. t \in Seq(Values) /\ lg \in [1 .. n -> Seq(1 .. n)]
  BY <1>6 DEF t, Configurations, SearchInv
<1>14. At(h, cn, t, Len(cn)) = d
  BY <1>7, <1>8
<1>15. SearchInv(h, n, want, lg, l2, l2.next[headEntry], ca \cup {d}, cn, t)
  BY <1>5, <1>7, <1>9, <1>10, <1>11, <1>12, <1>13, <1>14 DEF SearchInv
<1>16. Chosen(h, cn, Len(cn)) = d[1]
  BY <1>14 DEF At
<1>17. QED  BY <1>15, <1>16 DEF l2, t, Chooses

\* The search came to a return and takes its last choice k back: the configuration it
\* leaves is done with, if lm has the calls for every operation chosen.
Backtracks(h, n, want, lg, l, e, ca, cs, st, k, lm) ==
    /\ SearchInv(h, n, want, lm, Unlifted(h, l, k), Unlifted(h, l, k).next[k], ca, Front(cs),
                 cs[Len(cs)].state)
    /\ Chosen(h, Front(cs), Len(Front(cs))) = Chosen(h, cs, Len(cs)) \ {Id(h, k)}

\* A return entry: everything before it was tried, so the top is given up and its call
\* counts as tried below.
LEMMA SearchBacktrack ==
  ASSUME NEW n, NEW h, WellFormed(h, n), NEW want, NEW lg, NEW l, NEW e, NEW ca, NEW cs, NEW st,
         SearchInv(h, n, want, lg, l, e, ca, cs, st), Rest(h, n, Chosen(h, cs, Len(cs))) # {},
         ~Calls(h, e), cs # <<>>, NEW k, k = cs[Len(cs)].entry,
         NEW lm \in [1 .. n -> Seq(1 .. n)], want => Within(n, lg, lm),
         want => \A i \in Chosen(h, cs, Len(cs)) : Len(lm[i]) >= Cardinality(Chosen(h, cs, Len(cs)))
  PROVE  Backtracks(h, n, want, lg, l, e, ca, cs, st, k, lm)
<1>. DEFINE N == Len(cs)
            M == N - 1
            c == At(h, cs, st, N)
            b == At(h, cs, st, M)
            S == b[1]
            R == Rest(h, n, S)
            l2 == Unlifted(h, l, k)
            f == Front(cs)
            t == cs[Len(cs)].state
<1>1. cs \in Stacks(n) /\ st \in Seq(Values) /\ l \in Links(2 * n) /\ lg \in [1 .. n -> Seq(1 .. n)]
      /\ StateAt(cs, st, 0) = InitialState /\ n \in Nat
  BY DEF SearchInv, WellFormed
<1>2. Shallower(h, n, cs, st)
  BY <1>1, AtFront
<1>3. /\ f \in Stacks(n) /\ N \in Nat \ {0} /\ Len(f) = M
      /\ k \in 1 .. 2 * n /\ t \in Seq(Values)
      /\ \A j \in 1 .. M : f[j] = cs[j]
      /\ \A j \in 0 .. M : At(h, f, t, j) = At(h, cs, st, j)
  BY <1>2 DEF Shallower
<1>4. M \in Nat /\ M \in 0 .. M /\ N \in 1 .. N /\ N \in 0 .. N /\ M \in 0 .. N /\ M + 1 = N
  BY <1>3
<1>5. /\ PlaceInv(h, n, want, lg, l, e, c) /\ CacheInv(h, n, want, lg, ca, cs, st)
      /\ Level(h, n, want, lg, l, b, c, k)
  BY <1>4 DEF SearchInv
<1>6. c[1] = Chosen(h, cs, N) /\ c \in Configurations(n) /\ b \in Configurations(n)
  <2>1. c[1] = Chosen(h, cs, N)
    BY DEF At
  <2>2. c \in Configurations(n) /\ b \in Configurations(n)
    BY <1>1, <1>4, AtIs
  <2>3. QED  BY <2>1, <2>2
<1>7. Rest(h, n, c[1]) # {} /\ (want => \A i \in c[1] : Len(lm[i]) >= Cardinality(c[1]))
  BY <1>6
<1>. HIDE DEF N, M, c, b, S, R, l2, f, t
<1>8. e \in Rest(h, n, c[1]) /\ Tried(h, n, want, lg, c, e) /\ Linked(l, Rest(h, n, c[1]))
  BY <1>5, <1>7 DEF PlaceInv
<1>9. Tried(h, n, want, lm, c, e)
  BY <1>1, <1>8, TriedStays
<1>10. Settled(h, n, want, lm, c)
  BY <1>1, <1>6, <1>7, <1>8, <1>9, SettledWhenTried
<1>11. /\ k \in R /\ Calls(h, k) /\ c = With(h, b, k) /\ Tried(h, n, want, lg, b, k) /\ Stale(h, l, R, k)
  BY <1>5 DEF Level, R, S
<1>12. c[1] = S \cup {Id(h, k)}
  BY <1>11 DEF With, S
<1>13. l2 \in Links(2 * n) /\ Linked(l2, R) /\ SameOutside(2 * n, R, l, l2)
  BY <1>1, <1>3, <1>8, <1>11, <1>12, UnliftKeeps DEF l2, R
<1>14. Tried(h, n, want, lm, b, k)
  BY <1>1, <1>11, TriedStays
<1>. DEFINE x == NextIn(R, k)
<1>15. x \in R /\ \A y \in R : y < x => y < k \/ y = k
  BY <1>3, <1>11, AfterCall DEF R
<1>16. l2.next[k] = x
  BY <1>11, <1>13 DEF Linked
<1>. HIDE DEF x
<1>17. Tried(h, n, want, lm, b, x)
  <2>1. ASSUME NEW y \in R, y < x
        PROVE  Calls(h, y) /\ (IsLegal(b[2], OpAt(h, y)) => Settled(h, n, want, lm, With(h, b, y)))
    <3>1. CASE y < k
      BY <1>14, <3>1 DEF Tried, R, S
    <3>2. CASE y = k
      BY <1>10, <1>11, <3>2
    <3>3. QED  BY <1>15, <2>1, <3>1, <3>2
  <2>2. QED  BY <2>1 DEF Tried, R, S
<1>18. PlaceInv(h, n, want, lm, l2, x, b)
  BY <1>13, <1>15, <1>17 DEF PlaceInv, R, S
<1>19. At(h, f, t, Len(f)) = b
  BY <1>3, <1>4 DEF b
<1>20. ASSUME NEW j \in 1 .. Len(f)
       PROVE  Level(h, n, want, lm, l2, At(h, f, t, j - 1), At(h, f, t, j), f[j].entry)
  <2>1. j \in 1 .. M /\ j - 1 \in 0 .. M /\ j \in 0 .. M /\ j \in 1 .. N
    BY <1>3, <1>4
  <2>. DEFINE a == At(h, cs, st, j - 1)
              d == At(h, cs, st, j)
              m == cs[j].entry
  <2>2. At(h, f, t, j - 1) = a /\ At(h, f, t, j) = d /\ f[j] = cs[j]
    BY <1>3, <2>1
  <2>3. Level(h, n, want, lg, l, a, d, m)
    BY <2>1 DEF SearchInv, N
  <2>4. Id(h, m) \in S
    BY <1>4, <2>1 DEF Chosen, S, b, At
  <2>. HIDE DEF a, d, m
  <2>5. /\ m \in Rest(h, n, a[1]) /\ Calls(h, m) /\ Stale(h, l, Rest(h, n, a[1]), m)
        /\ Tried(h, n, want, lg, a, m)
    BY <2>3 DEF Level
  <2>6. m \in 1 .. 2 * n
    BY <2>5 DEF Rest
  <2>7. Stale(h, l2, Rest(h, n, a[1]), m)
    BY <1>13, <2>4, <2>5, <2>6, StaleStays DEF R
  <2>8. Tried(h, n, want, lm, a, m)
    BY <1>1, <2>5, TriedStays
  <2>9. Level(h, n, want, lm, l2, a, d, m)
    BY <2>3, <2>7, <2>8 DEF Level
  <2>10. QED  BY <2>2, <2>9 DEF m
<1>21. CacheInv(h, n, want, lm, ca, f, t)
  <2>1. ASSUME NEW y \in ca
        PROVE  Settled(h, n, want, lm, y) \/ \E j \in 1 .. Len(f) : y = At(h, f, t, j)
    <3>1. CASE Settled(h, n, want, lg, y)
      BY <1>1, <3>1, SettledStays
    <3>2. ASSUME NEW j \in 1 .. N, y = At(h, cs, st, j)
          PROVE  Settled(h, n, want, lm, y) \/ \E i \in 1 .. Len(f) : y = At(h, f, t, i)
      <4>1. CASE j = N
        BY <1>10, <3>2, <4>1 DEF c
      <4>2. CASE j # N
        <5>1. j \in 1 .. Len(f) /\ j \in 0 .. M
          BY <1>3, <1>4, <4>2
        <5>2. y = At(h, f, t, j)
          BY <1>3, <3>2, <5>1
        <5>3. QED  BY <5>1, <5>2
      <4>3. QED  BY <4>1, <4>2
    <3>3. QED  BY <1>5, <3>1, <3>2 DEF CacheInv, N
  <2>2. QED  BY <2>1 DEF CacheInv
<1>22. StateAt(f, t, 0) = InitialState
  <2>1. 0 \in 0 .. M
    BY <1>4
  <2>2. At(h, f, t, 0) = At(h, cs, st, 0)
    BY <1>3, <2>1
  <2>3. StateAt(f, t, 0) = StateAt(cs, st, 0)
    BY <2>2 DEF At
  <2>4. QED  BY <1>1, <2>3
<1>23. SearchInv(h, n, want, lm, l2, x, ca, f, t)
  BY <1>3, <1>13, <1>18, <1>19, <1>20, <1>21, <1>22 DEF SearchInv
<1>24. Chosen(h, f, Len(f)) = Chosen(h, cs, N) \ {Id(h, k)}
  <2>1. Chosen(h, f, Len(f)) = S
    BY <1>19 DEF At, S
  <2>2. Id(h, k) \notin S
    BY <1>11 DEF R, Rest
  <2>3. QED  BY <1>6, <1>12, <2>1, <2>2
<1>25. QED  BY <1>16, <1>23, <1>24 DEF l2, f, t, N, Backtracks

\* The search came to a return and has no choice left: nothing can be completed.
LEMMA SearchExhaust ==
  ASSUME NEW n, NEW h, WellFormed(h, n), NEW want, NEW lg, NEW l, NEW e, NEW ca, NEW st,
         SearchInv(h, n, want, lg, l, e, ca, <<>>, st), Rest(h, n, {}) # {}, ~Calls(h, e)
  PROVE  Settled(h, n, want, lg, Root)
<1>1. At(h, <<>>, st, 0) = Root /\ Len(<<>>) = 0
  <2>1. StateAt(<<>>, st, 0) = InitialState
    BY DEF SearchInv
  <2>2. Chosen(h, <<>>, 0) = {}
    BY DEF Chosen
  <2>3. QED  BY <2>1, <2>2 DEF At, Root
<1>2. PlaceInv(h, n, want, lg, l, e, Root)
  BY <1>1 DEF SearchInv
<1>3. Root[1] = {} /\ Root \in Configurations(n) /\ n \in Nat
  <2>1. <<>> \in Seq(Values) /\ {} \in SUBSET (1 .. n)
    OBVIOUS
  <2>2. QED  BY <2>1 DEF Root, InitialState, Configurations, WellFormed
<1>4. e \in Rest(h, n, Root[1]) /\ Tried(h, n, want, lg, Root, e)
  BY <1>2, <1>3 DEF PlaceInv
<1>5. QED  BY <1>3, <1>4, SettledWhenTried
-----------------------------------------------------------------------------
\* Linearizations, with the states that they lead through.

\* g are the states before and after the operations in s.
Trace(h, s, g) ==
    /\ g \in [0 .. Len(s) -> Seq(Values)] /\ g[0] = InitialState
    /\ \A j \in 1 .. Len(s) : g[j] = Step(g[j - 1], h.ops[s[j]])

\* Operation i returned before j was called.
Before(h, n, i, j) ==
    \E k, x \in 1 .. 2 * n :
        ~Calls(h, k) /\ Id(h, k) = i /\ Calls(h, x) /\ Id(h, x) = j /\ k < x

Injective(s) == \A a, b \in 1 .. Len(s) : s[a] = s[b] => a = b

LinearAlong(h, n, s, g) ==
    /\ s \in Seq(1 .. n) /\ Injective(s) /\ Trace(h, s, g)
    /\ \A j \in 1 .. Len(s) :
          /\ IsLegal(g[j - 1], h.ops[s[j]])
          /\ \A i \in 1 .. n : Before(h, n, i, s[j]) => \E x \in 1 .. (j - 1) : s[x] = i

Linear(h, n, s) == \E g : LinearAlong(h, n, s, g)

\* Every sequence has a trace.
LEMMA TraceExists ==
  ASSUME NEW n, NEW h, WellFormed(h, n), NEW s \in Seq(1 .. n)
  PROVE  \E g : Trace(h, s, g)
<1>. DEFINE L == Len(s)
            Up(k, g) == /\ g \in [0 .. k -> Seq(Values)] /\ g[0] = InitialState
                        /\ \A j \in 1 .. k : g[j] = Step(g[j - 1], h.ops[s[j]])
            Bad == {k \in 0 .. L : ~\E g : Up(k, g)}
<1>1. L \in Nat /\ \A j \in 1 .. L : s[j] \in 1 .. n
  <2>. DEFINE T == 1 .. n
  <2>1. s \in Seq(T)
    OBVIOUS
  <2>. HIDE DEF T
  <2>2. L \in Nat /\ \A j \in 1 .. L : s[j] \in T
    BY <2>1
  <2>3. QED  BY <2>2 DEF T
<1>2. \A j \in 1 .. L : \A v \in Seq(Values) : Step(v, h.ops[s[j]]) \in Seq(Values)
  <2>. TAKE j \in 1 .. L
  <2>. TAKE v \in Seq(Values)
  <2>. DEFINE op == h.ops[s[j]]
  <2>1. op \in Operation
    BY <1>1 DEF WellFormed
  <2>. HIDE DEF op
  <2>2. \/ op.task = "Get"
        \/ op.task \in {"Put", "Append"} /\ op.value \in Values
    BY <2>1 DEF Operation
  <2>3. op.task = "Get" \/ (<<op.value>> \in Seq(Values) /\ Append(v, op.value) \in Seq(Values))
    BY <2>2
  <2>4. Step(v, op) \in Seq(Values)
    BY <2>2, <2>3 DEF Step
  <2>5. QED  BY <2>4 DEF op
<1>3. Bad = {}
  <2>1. SUFFICES ASSUME Bad # {} PROVE FALSE
    OBVIOUS
  <2>2. PICK k \in Bad : \A m \in Bad : k <= m
    <3>1. Bad \in SUBSET Nat
      BY <1>1
    <3>. HIDE DEF Bad
    <3>2. QED  BY <2>1, <3>1, LeastExists
  <2>3. k \in 0 .. L /\ ~\E g : Up(k, g)
    OBVIOUS
  <2>4. k # 0
    <3>1. SUFFICES ASSUME k = 0 PROVE FALSE
      OBVIOUS
    <3>. DEFINE g0 == [j \in 0 .. 0 |-> <<>>]
    <3>2. <<>> \in Seq(Values)
      OBVIOUS
    <3>3. Up(0, g0)
      BY <3>2 DEF InitialState
    <3>4. QED  BY <2>3, <3>1, <3>3
  <2>5. k - 1 \in 0 .. L /\ k - 1 \notin Bad
    <3>1. k - 1 \in 0 .. L /\ ~(k <= k - 1)
      BY <1>1, <2>3, <2>4
    <3>. HIDE DEF Bad
    <3>2. QED  BY <2>2, <3>1
  <2>6. PICK g : Up(k - 1, g)
    BY <2>5
  <2>. DEFINE v == Step(g[k - 1], h.ops[s[k]])
              f == [j \in 0 .. k |-> IF j = k THEN v ELSE g[j]]
  <2>7. k - 1 \in 0 .. (k - 1) /\ k \in 1 .. L
    BY <1>1, <2>3, <2>4
  <2>8. v \in Seq(Values)
    BY <1>2, <2>6, <2>7
  <2>. HIDE DEF v
  <2>9. \A j \in 0 .. k : j = k \/ j \in 0 .. (k - 1)
    BY <2>7
  <2>10. f \in [0 .. k -> Seq(Values)]
    BY <2>6, <2>8, <2>9
  <2>11. f[0] = InitialState
    BY <2>4, <2>6, <2>7
  <2>12. ASSUME NEW j \in 1 .. k
         PROVE  f[j] = Step(f[j - 1], h.ops[s[j]])
    <3>1. j \in 0 .. k /\ j - 1 \in 0 .. k /\ j - 1 # k
      BY <2>7
    <3>2. f[j - 1] = g[j - 1]
      BY <3>1
    <3>3. CASE j = k
      BY <3>1, <3>2, <3>3 DEF v
    <3>4. CASE j # k
      <4>1. j \in 1 .. (k - 1)
        BY <2>7, <3>4
      <4>2. f[j] = g[j]
        BY <3>1, <3>4
      <4>3. g[j] = Step(g[j - 1], h.ops[s[j]])
        BY <2>6, <4>1
      <4>4. QED  BY <3>2, <4>2, <4>3
    <3>5. QED  BY <3>3, <3>4
  <2>. HIDE DEF f
  <2>13. Up(k, f)
    BY <2>10, <2>11, <2>12
  <2>14. QED  BY <2>3, <2>13
<1>4. L \in 0 .. L
  BY <1>1
<1>5. \E g : Up(L, g)
  BY <1>3, <1>4
<1>6. QED  BY <1>5 DEF Trace

\* It is the one that StateAfter follows.
LEMMA TraceIsStateAfter ==
  ASSUME NEW p, NEW s, Len(s) \in Nat, NEW g, Trace(history[p], s, g)
  PROVE  StateAfter(p, s) = g[Len(s)]
<1>. DEFINE L == Len(s)
            Rec(f) == f = [k \in 0 .. L |->
                              IF k = 0 THEN InitialState ELSE Step(f[k - 1], history[p].ops[s[k]])]
            a == CHOOSE f : Rec(f)
<1>1. /\ g \in [0 .. L -> Seq(Values)] /\ g[0] = InitialState
      /\ \A j \in 1 .. L : g[j] = Step(g[j - 1], history[p].ops[s[j]])
  BY DEF Trace
<1>2. Rec(g)
  <2>1. \A k \in 0 .. L :
           g[k] = IF k = 0 THEN InitialState ELSE Step(g[k - 1], history[p].ops[s[k]])
    BY <1>1
  <2>2. QED  BY <1>1, <2>1
<1>3. Rec(a)
  BY <1>2
<1>4. StateAfter(p, s) = a[L]
  BY DEF StateAfter
<1>5. \A k \in 0 .. L :
         a[k] = IF k = 0 THEN InitialState ELSE Step(a[k - 1], history[p].ops[s[k]])
  BY <1>3
<1>. HIDE DEF a, Rec
<1>. DEFINE Bad == {k \in 0 .. L : a[k] # g[k]}
<1>6. Bad = {}
  <2>1. SUFFICES ASSUME Bad # {} PROVE FALSE
    OBVIOUS
  <2>2. PICK k \in Bad : \A m \in Bad : k <= m
    <3>1. Bad \in SUBSET Nat
      OBVIOUS
    <3>. HIDE DEF Bad
    <3>2. QED  BY <2>1, <3>1, LeastExists
  <2>3. k \in 0 .. L /\ a[k] # g[k]
    OBVIOUS
  <2>4. k # 0
    BY <1>1, <1>5, <2>3
  <2>5. k - 1 \in 0 .. L /\ k \in 1 .. L
    BY <2>3, <2>4
  <2>6. a[k - 1] = g[k - 1]
    <3>1. ~(k <= k - 1)
      BY <2>3
    <3>2. k - 1 \notin Bad
      <4>. HIDE DEF Bad
      <4>1. QED  BY <2>2, <3>1
    <3>3. QED  BY <2>5, <3>2
  <2>7. QED  BY <1>1, <1>5, <2>3, <2>4, <2>5, <2>6
<1>7. L \in 0 .. L
  OBVIOUS
<1>8. QED  BY <1>4, <1>6, <1>7

\* What a sequence over T is.
LEMMA SeqIs ==
  ASSUME NEW T, NEW s \in Seq(T)
  PROVE  Len(s) \in Nat /\ DOMAIN s = 1 .. Len(s) /\ \A j \in 1 .. Len(s) : s[j] \in T
OBVIOUS

\* A prefix of a sequence.
LEMMA PrefixIs ==
  ASSUME NEW T, NEW s \in Seq(T), NEW m \in 0 .. Len(s)
  PROVE  /\ SubSeq(s, 1, m) \in Seq(T) /\ Len(SubSeq(s, 1, m)) = m
         /\ \A j \in 1 .. m : SubSeq(s, 1, m)[j] = s[j]
<1>1. m \in Int /\ 1 \in Int /\ m \in Nat /\ m - 1 + 1 = m
  BY SeqIs
<1>2. \A i \in 1 .. m : s[i] \in T
  <2>1. \A i \in 1 .. m : i \in 1 .. Len(s)
    BY <1>1, SeqIs
  <2>2. QED  BY <2>1, SeqIs
<1>3. /\ SubSeq(s, 1, m) \in Seq(T)
      /\ Len(SubSeq(s, 1, m)) = IF 1 <= m THEN m - 1 + 1 ELSE 0
      /\ \A i \in 1 .. m - 1 + 1 : SubSeq(s, 1, m)[i] = s[1 + i - 1]
  BY <1>1, <1>2, SubSeqProperties
<1>4. Len(SubSeq(s, 1, m)) = m
  BY <1>1, <1>3
<1>5. \A j \in 1 .. m : SubSeq(s, 1, m)[j] = s[j]
  BY <1>1, <1>3
<1>6. QED  BY <1>3, <1>4, <1>5

\* The states before and after a prefix.
LEMMA PrefixTrace ==
  ASSUME NEW T, NEW s \in Seq(T), NEW m \in 0 .. Len(s), NEW p, NEW g, Trace(history[p], s, g)
  PROVE  StateAfter(p, SubSeq(s, 1, m)) = g[m]
<1>. DEFINE b == SubSeq(s, 1, m)
            f == [j \in 0 .. m |-> g[j]]
<1>1. b \in Seq(T) /\ Len(b) = m /\ \A j \in 1 .. m : b[j] = s[j]
  BY PrefixIs
<1>2. m \in Nat /\ Len(s) \in Nat /\ m <= Len(s)
  BY SeqIs
<1>3. /\ g \in [0 .. Len(s) -> Seq(Values)] /\ g[0] = InitialState
      /\ \A j \in 1 .. Len(s) : g[j] = Step(g[j - 1], history[p].ops[s[j]])
  BY DEF Trace
<1>. HIDE DEF b
<1>4. f \in [0 .. m -> Seq(Values)] /\ f[0] = InitialState /\ f[m] = g[m]
  BY <1>2, <1>3
<1>5. ASSUME NEW j \in 1 .. m
      PROVE  f[j] = Step(f[j - 1], history[p].ops[b[j]])
  <2>1. j \in 1 .. Len(s) /\ j \in 0 .. m /\ j - 1 \in 0 .. m
    BY <1>2
  <2>2. f[j] = g[j] /\ f[j - 1] = g[j - 1] /\ b[j] = s[j]
    BY <1>1, <2>1
  <2>3. QED  BY <1>3, <2>1, <2>2
<1>. HIDE DEF f
<1>6. Trace(history[p], b, f)
  BY <1>1, <1>4, <1>5 DEF Trace
<1>7. StateAfter(p, b) = f[Len(b)]
  BY <1>1, <1>2, <1>6, TraceIsStateAfter
<1>8. QED  BY <1>1, <1>4, <1>7 DEF b

\* Operations of a sequence that is injective are as many as it is long.
LEMMA InjectiveCounts ==
  ASSUME NEW n \in Nat, NEW s \in Seq(1 .. n), Injective(s)
  PROVE  /\ IsFiniteSet(ToSet(s)) /\ Cardinality(ToSet(s)) = Len(s) /\ Len(s) <= n
         /\ Len(s) \in Nat /\ Cardinality(1 .. n) = n
<1>. DEFINE L == Len(s)
            I == 1 .. Len(s)
            N == 1 .. n
<1>1. L \in Nat /\ DOMAIN s = I /\ \A j \in I : s[j] \in N
  BY SeqIs
<1>2. IsFiniteSet(I) /\ Cardinality(I) = L /\ IsFiniteSet(N) /\ Cardinality(N) = n
  <2>1. L \in Int /\ n \in Int /\ 1 \in Int
    BY <1>1
  <2>2. /\ IsFiniteSet(1 .. L) /\ Cardinality(1 .. L) = IF 1 > L THEN 0 ELSE L - 1 + 1
        /\ IsFiniteSet(1 .. n) /\ Cardinality(1 .. n) = IF 1 > n THEN 0 ELSE n - 1 + 1
    BY <2>1, FS_Interval
  <2>3. QED  BY <1>1, <2>2
<1>3. ToSet(s) = {s[j] : j \in I}
  BY <1>1 DEF ToSet
<1>4. s \in [I -> N] /\ s \in [I -> ToSet(s)]
  <2>1. s = [j \in I |-> s[j]]
    BY <1>1
  <2>2. \A j \in I : s[j] \in ToSet(s)
    BY <1>3
  <2>. HIDE DEF I, N
  <2>3. QED  BY <1>1, <2>1, <2>2
<1>5. \A a, b \in I : s[a] = s[b] => a = b
  BY DEF Injective
<1>. HIDE DEF I, N, L
<1>6. s \in Injection(I, N)
  BY <1>1, <1>4, <1>5 DEF Injection, IsInjective
<1>7. Cardinality(I) <= Cardinality(N)
  BY <1>2, <1>6, FS_Injection
<1>8. s \in Bijection(I, ToSet(s))
  BY <1>1, <1>3, <1>4, <1>5 DEF Bijection, Injection, Surjection, IsInjective
<1>9. IsFiniteSet(ToSet(s)) /\ Cardinality(ToSet(s)) = Cardinality(I)
  BY <1>2, <1>8, FS_Bijection DEF ExistsBijection
<1>10. QED  BY <1>1, <1>2, <1>7, <1>9 DEF L, N

\* Entries as CheckerProps writes them.
LEMMA PrecedesIsBefore ==
  ASSUME NEW p, NEW n, WellFormed(history[p], n), NEW i \in 1 .. n, NEW j \in 1 .. n
  PROVE  Precedes(p, i, j) <=> Before(history[p], n, i, j)
<1>. DEFINE h == history[p]
<1>1. DOMAIN h.entries = 1 .. 2 * n
      /\ \A k \in 1 .. 2 * n : h.entries[k] \in [kind : {"call", "return"}, id : 1 .. n]
  BY DEF WellFormed
<1>. HIDE DEF h
<1>2. ASSUME NEW k \in 1 .. 2 * n, NEW a
      PROVE  /\ h.entries[k] = [kind |-> "return", id |-> a] <=> ~Calls(h, k) /\ Id(h, k) = a
             /\ h.entries[k] = [kind |-> "call", id |-> a] <=> Calls(h, k) /\ Id(h, k) = a
  <2>1. h.entries[k] \in [kind : {"call", "return"}, id : 1 .. n]
    BY <1>1
  <2>2. QED  BY <2>1 DEF Calls, Id
<1>3. Node(p) = 1 .. 2 * n
  BY <1>1 DEF Node, h
<1>4. QED  BY <1>2, <1>3 DEF Precedes, Before, h

\* The two definitions of a linearization agree.
LEMMA LinearIsLinearization ==
  ASSUME NEW p, NEW n \in Nat, WellFormed(history[p], n), NEW s
  PROVE  s \in Linearizations(p) <=> Linear(history[p], n, s)
<1>. DEFINE h == history[p]
<1>1. Ops(p) = 1 .. n /\ IsFiniteSet(1 .. n) /\ Cardinality(1 .. n) = n
  <2>1. n \in Int /\ 1 \in Int
    OBVIOUS
  <2>2. IsFiniteSet(1 .. n) /\ Cardinality(1 .. n) = IF 1 > n THEN 0 ELSE n - 1 + 1
    BY <2>1, FS_Interval
  <2>3. QED  BY <2>2 DEF WellFormed, Ops
<1>2. ASSUME s \in Orders(p)
      PROVE  s \in Seq(1 .. n) /\ Injective(s)
  <2>1. PICK m \in 0 .. n : s \in [1 .. m -> 1 .. n]
    BY <1>1, <1>2 DEF Orders, BoundedSeq, SeqOf
  <2>2. s \in Seq(1 .. n)
    BY <2>1
  <2>3. IsInjective(s) /\ DOMAIN s = 1 .. Len(s)
    BY <1>2, <2>2, SeqIs DEF Orders
  <2>4. QED  BY <2>2, <2>3 DEF IsInjective, Injective
<1>3. ASSUME s \in Seq(1 .. n), Injective(s)
      PROVE  s \in Orders(p)
  <2>1. Len(s) \in 0 .. n
    BY <1>3, InjectiveCounts
  <2>2. s \in [1 .. Len(s) -> 1 .. n]
    BY <1>3, LenProperties
  <2>3. IsInjective(s)
    BY <1>3, SeqIs DEF IsInjective, Injective
  <2>4. QED  BY <1>1, <2>1, <2>2, <2>3 DEF Orders, BoundedSeq, SeqOf
<1>4. ASSUME s \in Seq(1 .. n), NEW g, Trace(h, s, g)
      PROVE  IsLinearization(p, s) <=>
             \A j \in 1 .. Len(s) :
                /\ IsLegal(g[j - 1], h.ops[s[j]])
                /\ \A i \in 1 .. n : Before(h, n, i, s[j]) => \E x \in 1 .. (j - 1) : s[x] = i
  <2>1. Len(s) \in Nat /\ DOMAIN s = 1 .. Len(s) /\ \A j \in 1 .. Len(s) : s[j] \in 1 .. n
    BY <1>4, SeqIs
  <2>. DEFINE b(j) == SubSeq(s, 1, j - 1)
  <2>2. ASSUME NEW j \in 1 .. Len(s)
        PROVE  /\ StateAfter(p, b(j)) = g[j - 1]
               /\ \A i \in 1 .. n : Precedes(p, i, s[j]) <=> Before(h, n, i, s[j])
               /\ \A i : i \in ToSet(b(j)) <=> \E x \in 1 .. (j - 1) : s[x] = i
    <3>. DEFINE m == j - 1
    <3>1. m \in 0 .. Len(s) /\ s[j] \in 1 .. n
      BY <2>1
    <3>. HIDE DEF m
    <3>2. StateAfter(p, SubSeq(s, 1, m)) = g[m]
      <4>. DEFINE T == 1 .. n
      <4>1. s \in Seq(T) /\ Trace(history[p], s, g)
        BY <1>4
      <4>. HIDE DEF T
      <4>2. QED  BY <3>1, <4>1, PrefixTrace
    <3>3. SubSeq(s, 1, m) \in Seq(1 .. n) /\ Len(SubSeq(s, 1, m)) = m
          /\ \A i \in 1 .. m : SubSeq(s, 1, m)[i] = s[i]
      BY <1>4, <3>1, PrefixIs
    <3>4. DOMAIN SubSeq(s, 1, m) = 1 .. m
      BY <3>3, SeqIs
    <3>5. \A i : i \in ToSet(SubSeq(s, 1, m)) <=> \E x \in 1 .. m : s[x] = i
      BY <3>3, <3>4 DEF ToSet
    <3>6. \A i \in 1 .. n : Precedes(p, i, s[j]) <=> Before(h, n, i, s[j])
      BY <3>1, PrecedesIsBefore
    <3>7. QED  BY <3>2, <3>5, <3>6 DEF m
  <2>. HIDE DEF b, h
  <2>3. IsLinearization(p, s) <=>
        \A j \in 1 .. Len(s) :
           /\ IsLegal(StateAfter(p, b(j)), h.ops[s[j]])
           /\ \A i \in 1 .. n : Precedes(p, i, s[j]) => i \in ToSet(b(j))
    BY <1>1, <2>1 DEF IsLinearization, b, h
  <2>4. QED  BY <2>2, <2>3
<1>5. ASSUME s \in Linearizations(p)
      PROVE  Linear(h, n, s)
  <2>1. s \in Orders(p) /\ IsLinearization(p, s)
    BY <1>5 DEF Linearizations
  <2>2. s \in Seq(1 .. n) /\ Injective(s)
    BY <1>2, <2>1
  <2>3. PICK g : Trace(h, s, g)
    BY <2>2, TraceExists
  <2>. HIDE DEF h
  <2>4. LinearAlong(h, n, s, g)
    BY <1>4, <2>1, <2>2, <2>3 DEF LinearAlong
  <2>5. QED  BY <2>4 DEF Linear
<1>6. ASSUME Linear(h, n, s)
      PROVE  s \in Linearizations(p)
  <2>1. PICK g : LinearAlong(h, n, s, g)
    BY <1>6 DEF Linear
  <2>. HIDE DEF h
  <2>2. s \in Seq(1 .. n) /\ Injective(s) /\ Trace(h, s, g)
    BY <2>1 DEF LinearAlong
  <2>3. IsLinearization(p, s)
    BY <1>4, <2>1, <2>2 DEF LinearAlong
  <2>4. QED  BY <1>3, <2>2, <2>3 DEF Linearizations
<1>7. QED  BY <1>5, <1>6

\* The calls of the search are a linearization.
CallsOf(h, cs) == [k \in DOMAIN cs |-> Id(h, cs[k].entry)]

\* They are, and lead to the state of the search.
LEMMA CallsLinear ==
  ASSUME NEW n, NEW h, WellFormed(h, n), NEW want, NEW lg, NEW l, NEW e, NEW ca, NEW cs, NEW st,
         SearchInv(h, n, want, lg, l, e, ca, cs, st)
  PROVE  /\ LinearAlong(h, n, CallsOf(h, cs), [j \in 0 .. Len(cs) |-> StateAt(cs, st, j)])
         /\ Len(CallsOf(h, cs)) = Len(cs) /\ ToSet(CallsOf(h, cs)) = Chosen(h, cs, Len(cs))
<1>. DEFINE N == Len(cs)
            s == CallsOf(h, cs)
            g == [j \in 0 .. N |-> StateAt(cs, st, j)]
<1>1. cs \in Stacks(n) /\ st \in Seq(Values) /\ StateAt(cs, st, 0) = InitialState
  BY DEF SearchInv
<1>2. N \in Nat /\ DOMAIN cs = 1 .. N
  BY <1>1, SeqIs DEF Stacks
<1>3. \A j \in 0 .. N : At(h, cs, st, j) \in Configurations(n)
  BY <1>1, AtIs
<1>4. ASSUME NEW j \in 1 .. N
      PROVE  /\ s[j] = Id(h, cs[j].entry) /\ s[j] \in 1 .. n
             /\ s[j] \notin Chosen(h, cs, j - 1)
             /\ IsLegal(StateAt(cs, st, j - 1), h.ops[s[j]])
             /\ StateAt(cs, st, j) = Step(StateAt(cs, st, j - 1), h.ops[s[j]])
             /\ \A i : Before(h, n, i, s[j]) => i \in Chosen(h, cs, j - 1)
  <2>. DEFINE k == cs[j].entry
              c == At(h, cs, st, j - 1)
              d == At(h, cs, st, j)
  <2>1. Level(h, n, want, lg, l, c, d, k)
    BY DEF SearchInv
  <2>2. s[j] = Id(h, k)
    BY <1>2 DEF CallsOf
  <2>3. c[1] = Chosen(h, cs, j - 1) /\ c[2] = StateAt(cs, st, j - 1) /\ d[2] = StateAt(cs, st, j)
    BY DEF At
  <2>4. c \in Configurations(n)
    BY <1>2, <1>3
  <2>. HIDE DEF k, c, d, s
  <2>5. /\ k \in Rest(h, n, c[1]) /\ Calls(h, k) /\ IsLegal(c[2], OpAt(h, k)) /\ d = With(h, c, k)
        /\ Tried(h, n, want, lg, c, k)
    BY <2>1 DEF Level
  <2>6. k \in 1 .. 2 * n /\ Id(h, k) \notin c[1]
    BY <2>5 DEF Rest
  <2>7. Id(h, k) \in 1 .. n
    BY <2>4, <2>6, WithIs
  <2>8. d[2] = Step(c[2], h.ops[s[j]]) /\ IsLegal(c[2], h.ops[s[j]])
    BY <2>2, <2>5 DEF With, OpAt
  <2>9. ASSUME NEW i, Before(h, n, i, s[j])
        PROVE  i \in c[1]
    <3>1. PICK y, x \in 1 .. 2 * n :
             ~Calls(h, y) /\ Id(h, y) = i /\ Calls(h, x) /\ Id(h, x) = s[j] /\ y < x
      BY <2>9 DEF Before
    <3>2. x = k
      BY <2>2, <2>5, <2>6, <3>1 DEF WellFormed
    <3>3. i \notin c[1] => y \in Rest(h, n, c[1])
      BY <3>1 DEF Rest
    <3>4. QED  BY <2>5, <3>1, <3>2, <3>3 DEF Tried
  <2>10. QED  BY <2>2, <2>3, <2>6, <2>7, <2>8, <2>9 DEF k
<1>5. \A a \in 1 .. N : \A b \in 1 .. N : a < b => s[a] \in Chosen(h, cs, b - 1)
  <2>. TAKE a \in 1 .. N
  <2>. TAKE b \in 1 .. N
  <2>. HAVE a < b
  <2>1. a \in 1 .. (b - 1)
    BY <1>2
  <2>2. s[a] = Id(h, cs[a].entry)
    BY <1>4
  <2>3. QED  BY <2>1, <2>2 DEF Chosen
<1>6. s \in Seq(1 .. n) /\ Len(s) = N /\ DOMAIN s = 1 .. N
  <2>1. DOMAIN s = 1 .. N /\ s = [j \in 1 .. N |-> s[j]]
    BY <1>2 DEF CallsOf
  <2>. DEFINE T == 1 .. n
  <2>2. \A j \in 1 .. N : s[j] \in T
    BY <1>4
  <2>. HIDE DEF T, s, N
  <2>3. s \in [1 .. N -> T]
    BY <2>1, <2>2
  <2>4. s \in Seq(T) /\ Len(s) = N
    BY <1>2, <2>3
  <2>5. QED  BY <2>1, <2>4 DEF T
<1>7. Injective(s)
  <2>1. ASSUME NEW a \in 1 .. N, NEW b \in 1 .. N, a < b, s[a] = s[b]
        PROVE  FALSE
    BY <1>4, <1>5, <2>1
  <2>2. \A a, b \in 1 .. N : a = b \/ a < b \/ b < a
    BY <1>2
  <2>. HIDE DEF s
  <2>3. QED  BY <1>6, <2>1, <2>2 DEF Injective
<1>. HIDE DEF s
<1>8. \A j \in 0 .. N : StateAt(cs, st, j) \in Seq(Values)
  <2>. TAKE j \in 0 .. N
  <2>1. At(h, cs, st, j)[2] \in Seq(Values)
    BY <1>3 DEF Configurations
  <2>2. QED  BY <2>1 DEF At
<1>9. g \in [0 .. N -> Seq(Values)] /\ \A j \in 0 .. N : g[j] = StateAt(cs, st, j)
  BY <1>8
<1>. HIDE DEF g
<1>10. Trace(h, s, g)
  <2>1. g[0] = InitialState
    BY <1>1, <1>2, <1>9
  <2>2. ASSUME NEW j \in 1 .. N
        PROVE  g[j] = Step(g[j - 1], h.ops[s[j]])
    <3>1. j \in 0 .. N /\ j - 1 \in 0 .. N
      BY <1>2
    <3>2. QED  BY <1>4, <1>9, <3>1
  <2>3. QED  BY <1>6, <1>9, <2>1, <2>2 DEF Trace
<1>11. ASSUME NEW j \in 1 .. Len(s)
       PROVE  /\ IsLegal(g[j - 1], h.ops[s[j]])
              /\ \A i \in 1 .. n : Before(h, n, i, s[j]) => \E x \in 1 .. (j - 1) : s[x] = i
  <2>1. j \in 1 .. N /\ j - 1 \in 0 .. N
    BY <1>2, <1>6
  <2>2. IsLegal(g[j - 1], h.ops[s[j]])
    BY <1>4, <1>9, <2>1
  <2>3. ASSUME NEW i \in 1 .. n, Before(h, n, i, s[j])
        PROVE  \E x \in 1 .. (j - 1) : s[x] = i
    <3>1. i \in Chosen(h, cs, j - 1)
      BY <1>4, <2>1, <2>3
    <3>2. PICK x \in 1 .. (j - 1) : i = Id(h, cs[x].entry)
      BY <3>1 DEF Chosen
    <3>3. x \in 1 .. N
      BY <1>2, <2>1
    <3>4. QED  BY <1>4, <3>2, <3>3
  <2>4. QED  BY <2>2, <2>3
<1>12. LinearAlong(h, n, s, g)
  BY <1>6, <1>7, <1>10, <1>11 DEF LinearAlong
<1>13. ToSet(s) = Chosen(h, cs, N)
  BY <1>4, <1>6 DEF ToSet, Chosen
<1>14. QED  BY <1>6, <1>12, <1>13 DEF s, g

\* A linearization is a path of the search.
LEMMA LinearPath ==
  ASSUME NEW n, NEW h, WellFormed(h, n), NEW s, Linear(h, n, s)
  PROVE  \E f : Path(h, n, Root, Len(s), f) /\ f[Len(s)][1] = ToSet(s)
<1>1. PICK g : LinearAlong(h, n, s, g)
  BY DEF Linear
<1>. DEFINE L == Len(s)
            S(j) == {s[x] : x \in 1 .. j}
            f == [j \in 0 .. L |-> <<S(j), g[j]>>]
<1>2. /\ s \in Seq(1 .. n) /\ Injective(s) /\ Trace(h, s, g)
      /\ \A j \in 1 .. L :
            /\ IsLegal(g[j - 1], h.ops[s[j]])
            /\ \A i \in 1 .. n : Before(h, n, i, s[j]) => \E x \in 1 .. (j - 1) : s[x] = i
  BY <1>1 DEF LinearAlong
<1>3. L \in Nat /\ DOMAIN s = 1 .. L /\ \A j \in 1 .. L : s[j] \in 1 .. n
  BY <1>2, SeqIs
<1>4. g \in [0 .. L -> Seq(Values)] /\ g[0] = InitialState
      /\ \A j \in 1 .. L : g[j] = Step(g[j - 1], h.ops[s[j]])
  BY <1>2 DEF Trace
<1>5. f \in [0 .. L -> Configurations(n)]
  <2>1. ASSUME NEW j \in 0 .. L
        PROVE  <<S(j), g[j]>> \in Configurations(n)
    <3>1. \A x \in 1 .. j : x \in 1 .. L
      BY <1>3
    <3>2. S(j) \in SUBSET (1 .. n)
      BY <1>3, <3>1
    <3>. HIDE DEF S
    <3>3. QED  BY <1>4, <3>2 DEF Configurations
  <2>. HIDE DEF S
  <2>2. QED  BY <2>1
<1>6. f[0] = Root
  <2>1. 0 \in 0 .. L /\ S(0) = {}
    BY <1>3
  <2>. HIDE DEF S
  <2>2. QED  BY <1>4, <2>1 DEF Root
<1>7. f[L][1] = ToSet(s)
  BY <1>3 DEF ToSet
<1>8. ASSUME NEW j \in 1 .. L
      PROVE  \E k \in 1 .. 2 * n : May(h, n, f[j - 1], k) /\ f[j] = With(h, f[j - 1], k)
  <2>. DEFINE c == <<S(j - 1), g[j - 1]>>
  <2>1. f[j - 1] = c /\ f[j] = <<S(j), g[j]>>
    <3>1. j \in 0 .. L /\ j - 1 \in 0 .. L
      BY <1>3
    <3>. HIDE DEF S
    <3>2. QED  BY <3>1
  <2>2. PICK k, m \in 1 .. 2 * n :
           k < m /\ Calls(h, k) /\ ~Calls(h, m) /\ Id(h, k) = s[j] /\ Id(h, m) = s[j]
    BY <1>3 DEF WellFormed
  <2>3. s[j] \notin S(j - 1)
    BY <1>2, <1>3 DEF Injective
  <2>4. S(j) = S(j - 1) \cup {s[j]}
    <3>1. 1 .. j = (1 .. (j - 1)) \cup {j}
      BY <1>3
    <3>2. QED  BY <3>1
  <2>5. \A i \in 1 .. n : Before(h, n, i, s[j]) => i \in S(j - 1)
    BY <1>2
  <2>. HIDE DEF S, f
  <2>6. k \in Rest(h, n, c[1])
    BY <2>2, <2>3 DEF Rest
  <2>7. OpAt(h, k) = h.ops[s[j]] /\ c[2] = g[j - 1]
    BY <2>2 DEF OpAt
  <2>8. ASSUME NEW x \in Rest(h, n, c[1]), ~Calls(h, x)
        PROVE  k < x
    <3>1. x \in 1 .. 2 * n /\ Id(h, x) \notin S(j - 1) /\ x # k
      BY <2>2, <2>8 DEF Rest
    <3>2. Id(h, x) \in 1 .. n
      <4>1. h.entries[x] \in [kind : {"call", "return"}, id : 1 .. n]
        BY <3>1 DEF WellFormed
      <4>2. QED  BY <4>1 DEF Id
    <3>3. ~(x < k)
      BY <2>2, <2>5, <2>8, <3>1, <3>2 DEF Before
    <3>4. QED  BY <2>2, <3>1, <3>3
  <2>9. May(h, n, c, k)
    <3>1. IsLegal(c[2], OpAt(h, k))
      BY <1>2, <2>7
    <3>2. QED  BY <2>2, <2>6, <2>8, <3>1 DEF May
  <2>10. <<S(j), g[j]>> = With(h, c, k)
    BY <1>4, <2>2, <2>4, <2>7 DEF With
  <2>11. QED  BY <2>1, <2>9, <2>10
<1>. HIDE DEF f, L
<1>9. Path(h, n, Root, L, f)
  BY <1>5, <1>6, <1>8 DEF Path
<1>10. QED  BY <1>7, <1>9 DEF L

\* No linearization of h has all operations.
Hopeless(h, n) == \A s : Linear(h, n, s) => ToSet(s) # 1 .. n

\* If the first configuration is given up, no linearization is complete, and the partial
\* ones found are as long as any.
LEMMA SettledRoot ==
  ASSUME NEW n, NEW h, WellFormed(h, n), NEW want, NEW lg, Settled(h, n, want, lg, Root)
  PROVE  /\ Hopeless(h, n)
         /\ want => \A s : Linear(h, n, s) => \A i \in ToSet(s) : Len(lg[i]) >= Len(s)
<1>1. ASSUME NEW s, Linear(h, n, s)
      PROVE  /\ ToSet(s) # 1 .. n
             /\ want => \A i \in ToSet(s) : Len(lg[i]) >= Len(s)
  <2>1. PICK f : Path(h, n, Root, Len(s), f) /\ f[Len(s)][1] = ToSet(s)
    BY <1>1, LinearPath
  <2>2. s \in Seq(1 .. n) /\ Injective(s) /\ n \in Nat
    BY <1>1 DEF Linear, LinearAlong, WellFormed
  <2>3. Len(s) \in Nat /\ Cardinality(ToSet(s)) = Len(s)
    BY <2>2, InjectiveCounts
  <2>4. QED  BY <2>1, <2>3 DEF Settled
<1>2. QED  BY <1>1 DEF Hopeless

\* Longer sequences in lm do not disturb the search.
LEMMA SearchStays ==
  ASSUME NEW n, NEW h, WellFormed(h, n), NEW want, NEW lg, NEW l, NEW e, NEW ca, NEW cs, NEW st,
         SearchInv(h, n, want, lg, l, e, ca, cs, st),
         NEW lm \in [1 .. n -> Seq(1 .. n)], want => Within(n, lg, lm)
  PROVE  SearchInv(h, n, want, lm, l, e, ca, cs, st)
<1>1. n \in Nat /\ lg \in [1 .. n -> Seq(1 .. n)]
  BY DEF WellFormed, SearchInv
<1>2. \A c : Settled(h, n, want, lg, c) => Settled(h, n, want, lm, c)
  BY <1>1, SettledStays
<1>3. \A c, x : Tried(h, n, want, lg, c, x) => Tried(h, n, want, lm, c, x)
  BY <1>1, TriedStays
<1>4. \A c, d, k : Level(h, n, want, lg, l, c, d, k) => Level(h, n, want, lm, l, c, d, k)
  BY <1>3 DEF Level
<1>5. \A c : PlaceInv(h, n, want, lg, l, e, c) => PlaceInv(h, n, want, lm, l, e, c)
  BY <1>3 DEF PlaceInv
<1>6. CacheInv(h, n, want, lg, ca, cs, st) => CacheInv(h, n, want, lm, ca, cs, st)
  BY <1>2 DEF CacheInv
<1>7. QED  BY <1>4, <1>5, <1>6 DEF SearchInv
-----------------------------------------------------------------------------
\* The invariant of the checker.

Size(p) == Len(history[p].ops)

\* What is known of one partition: its search; the sequences in longest are linearizations
\* with their operation; "true" was answered with all operations chosen, and "false"
\* when nothing can be completed, unless the search was killed.
PartitionInv(p) ==
    /\ WellFormed(history[p], Size(p))
    /\ SearchInv(history[p], Size(p), computeInfo, longest[p], list[p], entry[p], cache[p],
                 calls[p], state[p])
    /\ linearized[p] = Chosen(history[p], calls[p], Len(calls[p]))
    /\ \A i \in 1 .. Size(p) : longest[p][i] # <<>> =>
          Linear(history[p], Size(p), longest[p][i]) /\ i \in ToSet(longest[p][i])
    /\ verdict[p] \in {"running", "true", "false"}
    /\ verdict[p] = "true" =>
          /\ Rest(history[p], Size(p), linearized[p]) = {}
          /\ \A i \in 1 .. Size(p) : Len(longest[p][i]) = Size(p)
    /\ verdict[p] = "false" /\ ~kill =>
          Settled(history[p], Size(p), computeInfo, longest[p], Root)

\* The variables that have a value for every partition.
ShapeInv ==
    /\ Len(history) \in Nat /\ Partition = 1 .. Len(history)
    /\ DOMAIN list = Partition /\ DOMAIN entry = Partition /\ DOMAIN linearized = Partition
    /\ DOMAIN cache = Partition /\ DOMAIN calls = Partition /\ DOMAIN state = Partition
    /\ DOMAIN longest = Partition /\ DOMAIN verdict = Partition

\* The model's operators in terms of the partition's history.
LEMMA Bridge ==
  ASSUME NEW p, PartitionInv(p)
  PROVE  /\ Size(p) \in Nat \ {0}
         /\ Ops(p) = 1 .. Size(p) /\ Node(p) = 1 .. 2 * Size(p)
         /\ \A k : IdOf(p, k) = Id(history[p], k)
         /\ \A k : IsCall(p, k) <=> Calls(history[p], k)
         /\ \A k : OpOf(p, k) = OpAt(history[p], k)
         /\ \A k : lift(p, k) = Lifted(history[p], list[p], k)
         /\ \A k : unlift(p, k) = Unlifted(history[p], list[p], k)
         /\ CallIds(p) = CallsOf(history[p], calls[p])
         /\ HasEntries(p) <=> Rest(history[p], Size(p), linearized[p]) # {}
         /\ At(history[p], calls[p], state[p], Len(calls[p])) = <<linearized[p], state[p]>>
         /\ \A k : Choice(p, k) =
               With(history[p], At(history[p], calls[p], state[p], Len(calls[p])), k)
<1>. DEFINE h == history[p]
            n == Size(p)
<1>1. n \in Nat \ {0} /\ Ops(p) = 1 .. n /\ Node(p) = 1 .. 2 * n
  BY DEF PartitionInv, WellFormed, Ops, Node
<1>2. \A k : IdOf(p, k) = Id(h, k)
  BY DEF IdOf, Id
<1>3. \A k : IsCall(p, k) <=> Calls(h, k)
  BY DEF IsCall, Calls
<1>4. \A k : OpOf(p, k) = OpAt(h, k)
  BY <1>2 DEF OpOf, OpAt
<1>5. \A k : Match(p, k) = MatchIn(h, k)
  BY DEF Match, MatchIn, IsCall, Calls, IdOf, Id, Node
<1>6. \A k : lift(p, k) = Lifted(h, list[p], k) /\ unlift(p, k) = Unlifted(h, list[p], k)
  BY <1>5 DEF lift, unlift, Lifted, Unlifted
<1>7. CallIds(p) = CallsOf(h, calls[p])
  BY DEF CallIds, CallsOf, IdOf, Id
<1>8. At(h, calls[p], state[p], Len(calls[p])) = <<linearized[p], state[p]>>
  BY DEF PartitionInv, At, StateAt
<1>9. \A k : Choice(p, k) = With(h, <<linearized[p], state[p]>>, k)
  BY <1>2, <1>4 DEF Choice, With
<1>10. HasEntries(p) <=> Rest(h, n, linearized[p]) # {}
  <2>. DEFINE R == Rest(h, n, linearized[p])
              N == 2 * n
  <2>1. PlaceInv(h, n, computeInfo, longest[p], list[p], entry[p], <<linearized[p], state[p]>>)
    BY <1>8 DEF PartitionInv, SearchInv
  <2>2. Linked(list[p], R) /\ R \in SUBSET (1 .. N)
    BY <2>1 DEF PlaceInv, Rest
  <2>. HIDE DEF R, N
  <2>3. list[p].next[headEntry] # Nil <=> R # {}
    BY <2>2, HasRest
  <2>4. QED  BY <2>3 DEF HasEntries, R
<1>11. QED  BY <1>1, <1>2, <1>3, <1>4, <1>6, <1>7, <1>8, <1>9, <1>10

\* A partition that no step is about stays as it is; kill is never reset.
LEMMA PartitionStays ==
  ASSUME NEW q, PartitionInv(q), UNCHANGED <<history, computeInfo>>, kill => kill',
         list'[q] = list[q], entry'[q] = entry[q], linearized'[q] = linearized[q],
         cache'[q] = cache[q], calls'[q] = calls[q], state'[q] = state[q],
         longest'[q] = longest[q], verdict'[q] = verdict[q]
  PROVE  PartitionInv(q)'
<1>1. Size(q)' = Size(q)
  BY DEF Size
<1>2. QED  BY <1>1 DEF PartitionInv

\* The calls of the search, counted.
LEMMA CallsCount ==
  ASSUME NEW p, PartitionInv(p)
  PROVE  /\ Linear(history[p], Size(p), CallIds(p)) /\ CallIds(p) \in Seq(1 .. Size(p))
         /\ ToSet(CallIds(p)) = linearized[p]
         /\ Len(CallIds(p)) = Len(calls[p]) /\ Cardinality(linearized[p]) = Len(calls[p])
         /\ Len(calls[p]) \in Nat
         /\ state[p] = StateAfter(p, CallIds(p))
<1>. DEFINE h == history[p]
            n == Size(p)
            cs == calls[p]
            s == CallIds(p)
            g == [j \in 0 .. Len(cs) |-> StateAt(cs, state[p], j)]
<1>1. n \in Nat /\ WellFormed(h, n) /\ s = CallsOf(h, cs)
  BY Bridge DEF PartitionInv
<1>2. LinearAlong(h, n, s, g) /\ Len(s) = Len(cs) /\ ToSet(s) = Chosen(h, cs, Len(cs))
  <2>1. SearchInv(h, n, computeInfo, longest[p], list[p], entry[p], cache[p], cs, state[p])
    BY DEF PartitionInv
  <2>. HIDE DEF h, n, cs, s
  <2>2. QED  BY <1>1, <2>1, CallsLinear
<1>3. linearized[p] = Chosen(h, cs, Len(cs))
  BY DEF PartitionInv
<1>. HIDE DEF h, n, cs, s
<1>4. s \in Seq(1 .. n) /\ Injective(s) /\ Trace(h, s, g)
  BY <1>2 DEF LinearAlong
<1>5. Len(s) \in Nat /\ Cardinality(ToSet(s)) = Len(s)
  BY <1>1, <1>4, InjectiveCounts
<1>6. Linear(h, n, s)
  BY <1>2 DEF Linear
<1>7. g[Len(s)] = state[p]
  BY <1>2, <1>5 DEF StateAt
<1>. HIDE DEF g
<1>8. StateAfter(p, s) = g[Len(s)]
  BY <1>4, <1>5, TraceIsStateAfter DEF h
<1>9. QED  BY <1>2, <1>3, <1>4, <1>5, <1>6, <1>7, <1>8 DEF h, n, s, cs

\* The variables of p may change, the others' may not.
OthersStay(p) ==
    /\ UNCHANGED <<history, computeInfo, mainVars>>
    /\ \A q \in Partition : q # p =>
          /\ list'[q] = list[q] /\ entry'[q] = entry[q] /\ linearized'[q] = linearized[q]
          /\ cache'[q] = cache[q] /\ calls'[q] = calls[q] /\ state'[q] = state[q]
          /\ longest'[q] = longest[q] /\ verdict'[q] = verdict[q]

\* The invariant of the other searches is kept.
LEMMA OthersKeep ==
  ASSUME NEW p, OthersStay(p), ShapeInv, \A q \in Partition : PartitionInv(q), PartitionInv(p)'
  PROVE  \A q \in Partition : PartitionInv(q)'
<1>. TAKE q \in Partition
<1>1. CASE q = p
  BY <1>1
<1>2. CASE q # p
  <2>1. /\ UNCHANGED <<history, computeInfo>> /\ (kill => kill')
        /\ list'[q] = list[q] /\ entry'[q] = entry[q] /\ linearized'[q] = linearized[q]
        /\ cache'[q] = cache[q] /\ calls'[q] = calls[q] /\ state'[q] = state[q]
        /\ longest'[q] = longest[q] /\ verdict'[q] = verdict[q]
    BY <1>2 DEF OthersStay, mainVars
  <2>2. QED  BY <2>1, PartitionStays
<1>3. QED  BY <1>1, <1>2
-----------------------------------------------------------------------------
\* The steps of checkSingle.

\* A call is chosen.
LEMMA ChooseKeeps ==
  ASSUME NEW p \in Partition, ShapeInv, PartitionInv(p), Choose(p)
  PROVE  OthersStay(p) /\ ShapeInv' /\ PartitionInv(p)'
<1>. DEFINE h == history[p]
            n == Size(p)
            k == entry[p]
            c == Choice(p, k)
            cn == Append(calls[p], [entry |-> k, state |-> state[p]])
<1>1. /\ cache' = [cache EXCEPT ![p] = @ \cup {c}] /\ calls' = [calls EXCEPT ![p] = cn]
      /\ linearized' = [linearized EXCEPT ![p] = c[1]] /\ state' = [state EXCEPT ![p] = c[2]]
      /\ list' = [list EXCEPT ![p] = lift(p, k)]
      /\ entry' = [entry EXCEPT ![p] = list'[p].next[headEntry]]
      /\ UNCHANGED <<history, computeInfo, longest, verdict, mainVars>>
      /\ verdict[p] = "running" /\ HasEntries(p) /\ IsCall(p, k) /\ IsLegal(state[p], OpOf(p, k))
  BY DEF Choose, FirstEntry, Iterates, IsChosen, inputVars
<1>. HIDE DEF k, c, cn
<1>2. OthersStay(p) /\ ShapeInv'
  <2>1. OthersStay(p)
    BY <1>1 DEF OthersStay, ShapeInv
  <2>2. ShapeInv'
    BY <1>1 DEF ShapeInv, Partition
  <2>3. QED  BY <2>1, <2>2
<1>3. /\ cache'[p] = cache[p] \cup {c} /\ calls'[p] = cn /\ linearized'[p] = c[1] /\ state'[p] = c[2]
      /\ list'[p] = lift(p, k) /\ entry'[p] = list'[p].next[headEntry]
  BY <1>1 DEF ShapeInv
<1>4. /\ lift(p, k) = Lifted(h, list[p], k) /\ Calls(h, k) /\ IsLegal(state[p], OpAt(h, k))
      /\ Rest(h, n, Chosen(h, calls[p], Len(calls[p]))) # {}
      /\ c = With(h, At(h, calls[p], state[p], Len(calls[p])), k)
      /\ WellFormed(h, n)
      /\ SearchInv(h, n, computeInfo, longest[p], list[p], k, cache[p], calls[p], state[p])
  BY <1>1, Bridge DEF PartitionInv, k, c
<1>5. cn = Append(calls[p], [entry |-> k, state |-> state[p]])
  BY DEF cn
<1>6. Size(p)' = n /\ history'[p] = h /\ computeInfo' = computeInfo /\ longest' = longest
      /\ verdict' = verdict
  BY <1>1 DEF Size
<1>. HIDE DEF h, n
<1>7. /\ SearchInv(h, n, computeInfo, longest[p], Lifted(h, list[p], k),
                   Lifted(h, list[p], k).next[headEntry], cache[p] \cup {c}, cn, c[2])
      /\ Chosen(h, cn, Len(cn)) = c[1]
  <2>1. Chooses(h, n, computeInfo, longest[p], list[p], k, cache[p], calls[p], state[p], c, cn)
    BY <1>4, <1>5, SearchChoose
  <2>2. QED  BY <2>1 DEF Chooses
<1>8. SearchInv(h, n, computeInfo, longest[p], list'[p], entry'[p], cache'[p], calls'[p], state'[p])
  BY <1>3, <1>4, <1>7
<1>9. PartitionInv(p)'
  BY <1>1, <1>3, <1>4, <1>6, <1>7, <1>8 DEF PartitionInv, h, n
<1>10. QED  BY <1>2, <1>9

\* A call is passed over: it is not legal, or the cache knows where it leads.
LEMMA SkipKeeps ==
  ASSUME NEW p \in Partition, ShapeInv, PartitionInv(p), Skip(p)
  PROVE  OthersStay(p) /\ ShapeInv' /\ PartitionInv(p)'
<1>. DEFINE h == history[p]
            n == Size(p)
            k == entry[p]
<1>1. /\ entry' = [entry EXCEPT ![p] = list[p].next[k]]
      /\ UNCHANGED <<history, computeInfo, list, linearized, cache, calls, state, longest, verdict,
                     mainVars>>
      /\ verdict[p] = "running" /\ HasEntries(p) /\ IsCall(p, k)
      /\ IsLegal(state[p], OpOf(p, k)) => Choice(p, k) \in cache[p]
  BY DEF Skip, Iterates, IsChosen, CacheContains, inputVars
<1>. HIDE DEF k
<1>2. OthersStay(p) /\ ShapeInv'
  <2>1. OthersStay(p)
    BY <1>1 DEF OthersStay, ShapeInv
  <2>2. ShapeInv'
    BY <1>1 DEF ShapeInv, Partition
  <2>3. QED  BY <2>1, <2>2
<1>3. entry'[p] = list[p].next[k]
  BY <1>1 DEF ShapeInv
<1>4. /\ Calls(h, k) /\ Rest(h, n, Chosen(h, calls[p], Len(calls[p]))) # {}
      /\ IsLegal(state[p], OpAt(h, k)) =>
            With(h, At(h, calls[p], state[p], Len(calls[p])), k) \in cache[p]
      /\ WellFormed(h, n)
      /\ SearchInv(h, n, computeInfo, longest[p], list[p], k, cache[p], calls[p], state[p])
  BY <1>1, Bridge DEF PartitionInv, k
<1>5. Size(p)' = n /\ history'[p] = h
  BY <1>1 DEF Size
<1>. HIDE DEF h, n
<1>6. SearchInv(h, n, computeInfo, longest[p], list[p], list[p].next[k], cache[p], calls[p], state[p])
  BY <1>4, SearchSkip
<1>7. PartitionInv(p)'
  BY <1>1, <1>3, <1>4, <1>5, <1>6 DEF PartitionInv, h, n
<1>8. QED  BY <1>2, <1>7

\* What Backtrack makes of longest: the operations chosen have at least the calls.
LEMMA LengthenedKeeps ==
  ASSUME NEW p, PartitionInv(p), NEW lm, lm = Lengthened(p)
  PROVE  /\ lm \in [1 .. Size(p) -> Seq(1 .. Size(p))] /\ Within(Size(p), longest[p], lm)
         /\ \A i \in linearized[p] : Len(lm[i]) >= Cardinality(linearized[p])
         /\ \A i \in 1 .. Size(p) : lm[i] # <<>> =>
               Linear(history[p], Size(p), lm[i]) /\ i \in ToSet(lm[i])
<1>. DEFINE n == Size(p)
            lg == longest[p]
            s == CallIds(p)
            N == Len(calls[p])
            T == Seq(1 .. n)
<1>1. n \in Nat /\ Ops(p) = 1 .. n
  BY Bridge
<1>2. /\ Linear(history[p], n, s) /\ s \in T /\ ToSet(s) = linearized[p]
      /\ Len(s) = N /\ Cardinality(linearized[p]) = N /\ N \in Nat
  BY CallsCount
<1>3. lg \in [1 .. n -> T] /\ \A i \in 1 .. n : lg[i] # <<>> =>
            Linear(history[p], n, lg[i]) /\ i \in ToSet(lg[i])
  BY DEF PartitionInv, SearchInv
<1>4. linearized[p] \subseteq 1 .. n
  <2>1. DOMAIN s = 1 .. N /\ \A j \in 1 .. N : s[j] \in 1 .. n
    BY <1>2, SeqIs
  <2>2. QED  BY <1>2, <2>1 DEF ToSet
<1>5. lm = [i \in 1 .. n |-> IF i \in linearized[p] /\ N > Len(lg[i]) THEN s ELSE lg[i]]
  BY <1>1 DEF Lengthened
<1>6. \A v \in T : Len(v) \in Nat
  OBVIOUS
<1>. HIDE DEF n, lg, s, N, T
<1>7. ASSUME NEW i \in 1 .. n
      PROVE  /\ lm[i] = IF i \in linearized[p] /\ N > Len(lg[i]) THEN s ELSE lg[i]
             /\ lm[i] \in T /\ Len(lg[i]) \in Nat
             /\ Len(lg[i]) <= Len(lm[i])
             /\ i \in linearized[p] => Len(lm[i]) >= N
             /\ lm[i] # <<>> => Linear(history[p], n, lm[i]) /\ i \in ToSet(lm[i])
  <2>1. lm[i] = IF i \in linearized[p] /\ N > Len(lg[i]) THEN s ELSE lg[i]
    BY <1>5
  <2>2. lg[i] \in T /\ Len(lg[i]) \in Nat
    BY <1>3, <1>6
  <2>3. QED  BY <1>2, <1>3, <2>1, <2>2
<1>8. lm \in [1 .. n -> T]
  BY <1>5, <1>7
<1>9. Within(n, lg, lm)
  BY <1>7 DEF Within
<1>10. \A i \in linearized[p] : Len(lm[i]) >= Cardinality(linearized[p])
  BY <1>2, <1>4, <1>7
<1>11. QED  BY <1>7, <1>8, <1>9, <1>10 DEF n, lg, T

\* The last call is put back.
LEMMA BacktrackKeeps ==
  ASSUME NEW p \in Partition, ShapeInv, PartitionInv(p), Backtrack(p), computeInfo \in BOOLEAN
  PROVE  OthersStay(p) /\ ShapeInv' /\ PartitionInv(p)'
<1>. DEFINE h == history[p]
            n == Size(p)
            cs == calls[p]
            k == cs[Len(cs)].entry
            lm == IF computeInfo THEN Lengthened(p) ELSE longest[p]
<1>1. /\ longest' = IF computeInfo THEN [longest EXCEPT ![p] = Lengthened(p)] ELSE longest
      /\ state' = [state EXCEPT ![p] = cs[Len(cs)].state]
      /\ linearized' = [linearized EXCEPT ![p] = @ \ {IdOf(p, k)}]
      /\ calls' = [calls EXCEPT ![p] = Front(@)]
      /\ list' = [list EXCEPT ![p] = unlift(p, k)]
      /\ entry' = [entry EXCEPT ![p] = list'[p].next[k]]
      /\ UNCHANGED <<history, computeInfo, cache, verdict, mainVars>>
      /\ verdict[p] = "running" /\ HasEntries(p) /\ ~IsCall(p, entry[p]) /\ cs # <<>>
  BY DEF Backtrack, Last, Iterates, inputVars
<1>. HIDE DEF k
<1>2. OthersStay(p) /\ ShapeInv'
  <2>1. OthersStay(p)
    BY <1>1 DEF OthersStay, ShapeInv
  <2>2. ShapeInv'
    BY <1>1 DEF ShapeInv, Partition
  <2>3. QED  BY <2>1, <2>2
<1>3. /\ state'[p] = cs[Len(cs)].state /\ linearized'[p] = linearized[p] \ {IdOf(p, k)}
      /\ calls'[p] = Front(cs) /\ list'[p] = unlift(p, k) /\ entry'[p] = list'[p].next[k]
  BY <1>1 DEF ShapeInv
<1>4. longest'[p] = lm
  BY <1>1 DEF ShapeInv
<1>5. /\ unlift(p, k) = Unlifted(h, list[p], k) /\ ~Calls(h, entry[p])
      /\ linearized[p] = Chosen(h, cs, Len(cs))
      /\ Rest(h, n, Chosen(h, cs, Len(cs))) # {} /\ IdOf(p, k) = Id(h, k) /\ WellFormed(h, n)
      /\ SearchInv(h, n, computeInfo, longest[p], list[p], entry[p], cache[p], cs, state[p])
  BY <1>1, Bridge DEF PartitionInv
<1>6. /\ lm \in [1 .. n -> Seq(1 .. n)]
      /\ computeInfo => Within(n, longest[p], lm)
      /\ computeInfo => \A i \in linearized[p] : Len(lm[i]) >= Cardinality(linearized[p])
      /\ \A i \in 1 .. n : lm[i] # <<>> => Linear(h, n, lm[i]) /\ i \in ToSet(lm[i])
  <2>1. CASE computeInfo
    <3>1. lm = Lengthened(p)
      BY <2>1
    <3>. HIDE DEF lm
    <3>2. QED  BY <3>1, LengthenedKeeps
  <2>2. CASE ~computeInfo
    <3>1. lm = longest[p]
      BY <2>2
    <3>. HIDE DEF lm
    <3>2. QED  BY <2>2, <3>1 DEF PartitionInv, SearchInv
  <2>3. QED  BY <2>1, <2>2
<1>7. Size(p)' = n /\ history'[p] = h /\ computeInfo' = computeInfo /\ cache' = cache
      /\ verdict' = verdict
  BY <1>1 DEF Size
<1>8. k = cs[Len(cs)].entry /\ cs # <<>>
  BY <1>1 DEF k
<1>. HIDE DEF h, n, cs, lm
<1>9. /\ SearchInv(h, n, computeInfo, lm, Unlifted(h, list[p], k), Unlifted(h, list[p], k).next[k],
                   cache[p], Front(cs), cs[Len(cs)].state)
      /\ Chosen(h, Front(cs), Len(Front(cs))) = Chosen(h, cs, Len(cs)) \ {Id(h, k)}
  <2>1. computeInfo => \A i \in Chosen(h, cs, Len(cs)) : Len(lm[i]) >= Cardinality(Chosen(h, cs, Len(cs)))
    BY <1>5, <1>6
  <2>2. Backtracks(h, n, computeInfo, longest[p], list[p], entry[p], cache[p], cs, state[p], k, lm)
    BY <1>5, <1>6, <1>8, <2>1, SearchBacktrack
  <2>3. QED  BY <2>2 DEF Backtracks
<1>10. SearchInv(h, n, computeInfo, longest'[p], list'[p], entry'[p], cache[p], calls'[p], state'[p])
  BY <1>3, <1>4, <1>5, <1>9
<1>11. linearized'[p] = Chosen(h, calls'[p], Len(calls'[p]))
  BY <1>3, <1>5, <1>9
<1>12. \A i \in 1 .. n : longest'[p][i] # <<>> => Linear(h, n, longest'[p][i]) /\ i \in ToSet(longest'[p][i])
  BY <1>4, <1>6
<1>13. PartitionInv(p)'
  BY <1>1, <1>5, <1>7, <1>10, <1>11, <1>12 DEF PartitionInv, h, n
<1>14. QED  BY <1>2, <1>13

\* A search that answers false changes nothing else.
LEMMA AnswersStay ==
  ASSUME NEW p \in Partition, ShapeInv, PartitionInv(p), Answers(p, "false"), UNCHANGED longest,
         kill \/ Settled(history[p], Size(p), computeInfo, longest[p], Root)
  PROVE  OthersStay(p) /\ ShapeInv' /\ PartitionInv(p)'
<1>1. /\ verdict' = [verdict EXCEPT ![p] = "false"]
      /\ UNCHANGED <<history, computeInfo, list, entry, linearized, cache, calls, state, longest,
                     mainVars, kill>>
  BY DEF Answers, inputVars, mainVars
<1>2. verdict'[p] = "false" /\ Size(p)' = Size(p)
  BY <1>1 DEF ShapeInv, Size
<1>3. OthersStay(p)
  BY <1>1 DEF OthersStay, ShapeInv
<1>4. ShapeInv'
  BY <1>1 DEF ShapeInv, Partition
<1>5. PartitionInv(p)'
  BY <1>1, <1>2 DEF PartitionInv
<1>6. QED  BY <1>3, <1>4, <1>5

\* False is answered of the first configuration when everything was tried there.
LEMMA ExhaustKeeps ==
  ASSUME NEW p \in Partition, ShapeInv, PartitionInv(p), Exhaust(p)
  PROVE  OthersStay(p) /\ ShapeInv' /\ PartitionInv(p)'
<1>. DEFINE h == history[p]
            n == Size(p)
<1>1. HasEntries(p) /\ ~IsCall(p, entry[p]) /\ calls[p] = <<>>
      /\ Answers(p, "false") /\ UNCHANGED longest
  BY DEF Exhaust, Iterates
<1>2. linearized[p] = {}
  <2>1. linearized[p] = Chosen(h, <<>>, 0)
    BY <1>1 DEF PartitionInv
  <2>2. QED  BY <2>1 DEF Chosen
<1>3. /\ WellFormed(h, n) /\ Rest(h, n, {}) # {} /\ ~Calls(h, entry[p])
      /\ SearchInv(h, n, computeInfo, longest[p], list[p], entry[p], cache[p], <<>>, state[p])
  BY <1>1, <1>2, Bridge DEF PartitionInv
<1>. HIDE DEF h, n
<1>4. Settled(h, n, computeInfo, longest[p], Root)
  BY <1>3, SearchExhaust
<1>5. QED  BY <1>1, <1>4, AnswersStay DEF h, n

\* A search that was killed answers false without having tried everything.
LEMMA KilledKeeps ==
  ASSUME NEW p \in Partition, ShapeInv, PartitionInv(p), Killed(p)
  PROVE  OthersStay(p) /\ ShapeInv' /\ PartitionInv(p)'
BY AnswersStay DEF Killed

\* When nothing is left in the list, every operation is chosen.
LEMMA AllChosen ==
  ASSUME NEW p, PartitionInv(p), Rest(history[p], Size(p), linearized[p]) = {}
  PROVE  linearized[p] = 1 .. Size(p) /\ Len(calls[p]) = Size(p)
<1>. DEFINE h == history[p]
            n == Size(p)
<1>1. n \in Nat /\ WellFormed(h, n)
  BY Bridge DEF PartitionInv
<1>2. /\ CallIds(p) \in Seq(1 .. n) /\ ToSet(CallIds(p)) = linearized[p]
      /\ Cardinality(linearized[p]) = Len(calls[p])
  BY CallsCount
<1>3. linearized[p] \subseteq 1 .. n
  <2>. DEFINE s == CallIds(p)
  <2>. HIDE DEF s
  <2>1. DOMAIN s = 1 .. Len(s) /\ \A j \in 1 .. Len(s) : s[j] \in 1 .. n
    BY <1>2, SeqIs DEF s
  <2>2. QED  BY <1>2, <2>1 DEF ToSet, s
<1>4. ASSUME NEW i \in 1 .. n
      PROVE  i \in linearized[p]
  <2>1. PICK k \in 1 .. 2 * n : Id(h, k) = i
    BY <1>1 DEF WellFormed
  <2>2. k \notin Rest(h, n, linearized[p])
    OBVIOUS
  <2>3. QED  BY <2>1, <2>2 DEF Rest
<1>5. linearized[p] = 1 .. n
  BY <1>3, <1>4
<1>6. Cardinality(1 .. n) = n
  <2>1. n \in Int /\ 1 \in Int
    BY <1>1
  <2>2. Cardinality(1 .. n) = IF 1 > n THEN 0 ELSE n - 1 + 1
    BY <2>1, FS_Interval
  <2>3. QED  BY <1>1, <2>2
<1>7. QED  BY <1>2, <1>5, <1>6

\* A linearization is at most as long as there are operations.
LEMMA LinearBound ==
  ASSUME NEW n, NEW h, WellFormed(h, n), NEW s, Linear(h, n, s)
  PROVE  Len(s) \in Nat /\ Len(s) <= n /\ ToSet(s) \subseteq 1 .. n
<1>1. s \in Seq(1 .. n) /\ Injective(s) /\ n \in Nat
  BY DEF Linear, LinearAlong, WellFormed
<1>2. Len(s) \in Nat /\ Len(s) <= n
  BY <1>1, InjectiveCounts
<1>3. DOMAIN s = 1 .. Len(s) /\ \A j \in 1 .. Len(s) : s[j] \in 1 .. n
  BY <1>1, SeqIs
<1>4. QED  BY <1>2, <1>3 DEF ToSet

\* True is answered when nothing is left; the calls are then a complete linearization.
LEMMA CompleteKeeps ==
  ASSUME NEW p \in Partition, ShapeInv, PartitionInv(p), Complete(p)
  PROVE  OthersStay(p) /\ ShapeInv' /\ PartitionInv(p)'
<1>. DEFINE h == history[p]
            n == Size(p)
            s == CallIds(p)
            lg == longest[p]
            lm == [i \in Ops(p) |-> s]
<1>1. /\ longest' = [longest EXCEPT ![p] = lm] /\ verdict' = [verdict EXCEPT ![p] = "true"]
      /\ UNCHANGED <<history, computeInfo, list, entry, linearized, cache, calls, state, mainVars>>
      /\ ~HasEntries(p)
  BY DEF Complete, Answers, inputVars
<1>2. n \in Nat /\ Ops(p) = 1 .. n /\ WellFormed(h, n) /\ Rest(h, n, linearized[p]) = {}
  BY <1>1, Bridge DEF PartitionInv
<1>3. linearized[p] = 1 .. n /\ Len(calls[p]) = n
  BY <1>2, AllChosen
<1>4. Linear(h, n, s) /\ s \in Seq(1 .. n) /\ ToSet(s) = 1 .. n /\ Len(s) = n
  BY <1>3, CallsCount
<1>5. longest'[p] = lm /\ verdict'[p] = "true" /\ Size(p)' = n /\ history'[p] = h
  BY <1>1 DEF ShapeInv, Size
<1>6. OthersStay(p) /\ ShapeInv'
  <2>. HIDE DEF lm
  <2>1. OthersStay(p)
    BY <1>1 DEF OthersStay, ShapeInv
  <2>2. ShapeInv'
    BY <1>1 DEF ShapeInv, Partition
  <2>3. QED  BY <2>1, <2>2
<1>7. /\ SearchInv(h, n, computeInfo, lg, list[p], entry[p], cache[p], calls[p], state[p])
      /\ lg \in [1 .. n -> Seq(1 .. n)]
      /\ \A i \in 1 .. n : lg[i] # <<>> => Linear(h, n, lg[i])
  BY DEF PartitionInv, SearchInv
<1>. HIDE DEF h, n, s, lg
<1>8. lm \in [1 .. n -> Seq(1 .. n)] /\ \A i \in 1 .. n : lm[i] = s
  BY <1>2, <1>4
<1>. HIDE DEF lm
<1>9. Within(n, lg, lm)
  <2>1. ASSUME NEW i \in 1 .. n
        PROVE  Len(lg[i]) <= Len(lm[i])
    <3>1. CASE lg[i] = <<>>
      <4>1. Len(<<>>) = 0
        OBVIOUS
      <4>2. QED  BY <1>2, <1>4, <1>8, <3>1, <4>1
    <3>2. CASE lg[i] # <<>>
      <4>1. Len(lg[i]) <= n
        BY <1>2, <1>7, <3>2, LinearBound
      <4>2. QED  BY <1>4, <1>8, <4>1
    <3>3. QED  BY <3>1, <3>2
  <2>2. QED  BY <2>1 DEF Within
<1>10. SearchInv(h, n, computeInfo, lm, list[p], entry[p], cache[p], calls[p], state[p])
  BY <1>2, <1>7, <1>8, <1>9, SearchStays
<1>11. \A i \in 1 .. n : Linear(h, n, lm[i]) /\ i \in ToSet(lm[i]) /\ Len(lm[i]) = n
  BY <1>4, <1>8
<1>12. linearized[p] = Chosen(h, calls[p], Len(calls[p]))
  BY DEF PartitionInv, h
<1>13. PartitionInv(p)'
  BY <1>1, <1>2, <1>5, <1>10, <1>11, <1>12 DEF PartitionInv, h, n
<1>14. QED  BY <1>6, <1>13

\* A step of one goroutine.
LEMMA SearchKeeps ==
  ASSUME NEW p \in Partition, ShapeInv, \A q \in Partition : PartitionInv(q), Search(p),
         computeInfo \in BOOLEAN
  PROVE  OthersStay(p) /\ ShapeInv' /\ \A q \in Partition : PartitionInv(q)'
<1>0. PartitionInv(p)
  OBVIOUS
<1>1. OthersStay(p) /\ ShapeInv' /\ PartitionInv(p)'
  BY <1>0, ChooseKeeps, SkipKeeps, BacktrackKeeps, ExhaustKeeps, KilledKeeps, CompleteKeeps
     DEF Search
<1>2. QED  BY <1>1, OthersKeep
-----------------------------------------------------------------------------
\* checkParallel.

\* Main has received answers only; it has not seen all of them only after a "false", a
\* timeout or a kill, and who wants the partial linearizations is never killed without one.
MainInv ==
    /\ received \subseteq Partition /\ \A p \in received : verdict[p] # "running"
    /\ computeInfo \in BOOLEAN /\ ok \in BOOLEAN /\ timedOut \in BOOLEAN /\ kill \in BOOLEAN
    /\ main \in {"loop", "drain", "done"}
    /\ main = "loop" => ~kill
    /\ computeInfo /\ kill => timedOut
    /\ ok /\ main = "loop" => \A p \in received : verdict[p] = "true"
    /\ ok /\ main # "loop" /\ ~timedOut => \A p \in Partition : verdict[p] = "true"
    /\ ~ok => \E p \in Partition : Hopeless(history[p], Size(p))
    /\ main = "done" /\ computeInfo => received = Partition
    /\ result = IF main = "done" THEN Verdict ELSE "none"

CheckerInv == ShapeInv /\ MainInv /\ \A p \in Partition : PartitionInv(p)

\* All results are in when there are as many as partitions.
LEMMA CountedIsAll ==
  ASSUME ShapeInv, NEW rs \in SUBSET Partition, IsCounted(rs)
  PROVE  rs = Partition
<1>. DEFINE L == Len(history)
<1>1. L \in Nat /\ Partition = 1 .. L
  BY DEF ShapeInv
<1>2. IsFiniteSet(1 .. L) /\ Cardinality(1 .. L) = L
  <2>1. L \in Int /\ 1 \in Int
    BY <1>1
  <2>2. IsFiniteSet(1 .. L) /\ Cardinality(1 .. L) = IF 1 > L THEN 0 ELSE L - 1 + 1
    BY <2>1, FS_Interval
  <2>3. QED  BY <1>1, <2>2
<1>3. Cardinality(rs) >= L
  BY DEF IsCounted
<1>. HIDE DEF L
<1>4. IsFiniteSet(rs) /\ Cardinality(rs) <= Cardinality(1 .. L)
      /\ (Cardinality(1 .. L) = Cardinality(rs) => 1 .. L = rs)
  BY <1>1, <1>2, FS_Subset
<1>5. Cardinality(rs) \in Nat
  BY <1>4, FS_CardinalityType
<1>6. QED  BY <1>1, <1>2, <1>3, <1>4, <1>5

\* The histories have the shape that makeEntries gives them.
LEMMA HistoriesAre ==
  ASSUME history \in Histories
  PROVE  /\ Len(history) \in Nat /\ Partition = 1 .. Len(history)
         /\ \A p \in Partition : WellFormed(history[p], Size(p))
<1>1. CASE history = <<>>
  <2>1. Len(<<>>) = 0 /\ DOMAIN <<>> = {} /\ 1 .. 0 = {}
    OBVIOUS
  <2>2. QED  BY <1>1, <2>1 DEF Partition
<1>2. ASSUME NEW k \in 1 .. MaxPartitions, history \in [1 .. k -> Subhistories(MaxOps + 1 - k)]
      PROVE  /\ Len(history) \in Nat /\ Partition = 1 .. Len(history)
             /\ \A p \in Partition : WellFormed(history[p], Size(p))
  <2>. DEFINE T == Subhistories(MaxOps + 1 - k)
  <2>1. k \in Nat
    OBVIOUS
  <2>. HIDE DEF T
  <2>2. history \in [1 .. k -> T]
    BY <1>2 DEF T
  <2>3. history \in Seq(T) /\ Len(history) = k /\ Partition = 1 .. k
    BY <2>1, <2>2 DEF Partition
  <2>4. ASSUME NEW p \in 1 .. k
        PROVE  WellFormed(history[p], Size(p))
    <3>. DEFINE h == history[p]
                m == MaxOps + 1 - k
    <3>1. h \in T
      BY <2>2
    <3>2. m \in Int
      BY LimitsAssumption
    <3>. HIDE DEF h, m
    <3>3. PICK n \in 1 .. m : h \in [ops : [1 .. n -> Operation], entries : Entries(n)]
      BY <3>1 DEF T, Subhistories, m
    <3>4. n \in Nat \ {0}
      BY <3>2
    <3>5. h.ops \in [1 .. n -> Operation] /\ h.entries \in Entries(n)
      <4>. DEFINE A == [1 .. n -> Operation]
                  B == Entries(n)
      <4>1. h \in [ops : A, entries : B]
        BY <3>3
      <4>. HIDE DEF A, B
      <4>2. h.ops \in A /\ h.entries \in B
        BY <4>1
      <4>3. QED  BY <4>2 DEF A, B
    <3>6. Len(h.ops) = n
      <4>. DEFINE o == h.ops
      <4>. HIDE DEF o
      <4>1. o \in [1 .. n -> Operation]
        BY <3>5 DEF o
      <4>2. o \in Seq(Operation) /\ Len(o) = n
        BY <3>4, <4>1
      <4>3. QED  BY <4>2 DEF o
    <3>7. WellFormed(h, n)
      BY <3>4, <3>5, EntriesWellFormed
    <3>8. QED  BY <3>6, <3>7 DEF Size, h
  <2>5. QED  BY <2>1, <2>3, <2>4
<1>3. QED
  <2>1. history = <<>> \/ \E k \in 1 .. MaxPartitions : history \in [1 .. k -> Subhistories(MaxOps + 1 - k)]
    BY DEF Histories
  <2>2. QED  BY <1>1, <1>2, <2>1

\* The invariant holds at first, for every history.
LEMMA CheckerInit ==
  ASSUME Init
  PROVE  CheckerInv
<1>1. /\ Len(history) \in Nat /\ Partition = 1 .. Len(history)
      /\ \A p \in Partition : WellFormed(history[p], Size(p))
  BY HistoriesAre DEF Init
<1>2. ShapeInv
  BY <1>1 DEF Init, ShapeInv
<1>3. MainInv
  BY DEF Init, MainInv
<1>4. ASSUME NEW p \in Partition
      PROVE  PartitionInv(p)
  <2>. DEFINE h == history[p]
              n == Size(p)
              lg == [i \in 1 .. n |-> <<>>]
              l == [next |-> [k \in (1 .. 2 * n) \cup {headEntry} |->
                                IF k + 1 \in 1 .. 2 * n THEN k + 1 ELSE Nil],
                    prev |-> [k \in (1 .. 2 * n) \cup {headEntry} |-> k - 1]]
  <2>1. WellFormed(h, n) /\ Ops(p) = 1 .. n /\ Node(p) = 1 .. 2 * n
    BY <1>1 DEF WellFormed, Ops, Node
  <2>2. /\ list[p] = MakeLinkedEntries(p) /\ entry[p] = 1 /\ linearized[p] = {} /\ cache[p] = {}
        /\ calls[p] = <<>> /\ state[p] = InitialState /\ longest[p] = [i \in Ops(p) |-> <<>>]
        /\ verdict[p] = "running"
    BY DEF Init
  <2>3. list[p] = l
    BY <2>1, <2>2 DEF MakeLinkedEntries
  <2>4. longest[p] = lg
    BY <2>1, <2>2
  <2>. HIDE DEF h, l
  <2>5. SearchInv(h, n, computeInfo, lg, list[p], 1, {}, <<>>, InitialState)
    BY <2>1, <2>3, SearchInit DEF l
  <2>6. Chosen(h, <<>>, Len(<<>>)) = {}
    BY DEF Chosen
  <2>7. \A i \in 1 .. n : longest[p][i] = <<>>
    BY <2>4
  <2>. HIDE DEF lg
  <2>8. QED  BY <2>1, <2>2, <2>4, <2>5, <2>6, <2>7 DEF PartitionInv, h
<1>5. QED  BY <1>2, <1>3, <1>4 DEF CheckerInv

\* The steps of a goroutine do not touch what main knows: a verdict once given stays.
LEMMA MainKept ==
  ASSUME CheckerInv, NEW p \in Partition, Search(p), OthersStay(p)
  PROVE  MainInv'
<1>1. verdict[p] = "running" /\ UNCHANGED <<history, computeInfo, mainVars>>
  BY DEF Search, Choose, Skip, Backtrack, Exhaust, Killed, Complete, Iterates, OthersStay
<1>2. \A q \in Partition : verdict[q] # "running" => verdict'[q] = verdict[q]
  BY <1>1 DEF OthersStay
<1>3. Partition' = Partition /\ \A q : Size(q)' = Size(q)
  BY <1>1 DEF Partition, Size
<1>4. MainInv
  BY DEF CheckerInv
<1>5. UNCHANGED <<received, ok, timedOut, kill, main, result, history, computeInfo>>
  BY <1>1 DEF mainVars
<1>6. Verdict' = Verdict
  BY <1>5 DEF Verdict
<1>7. /\ received' \subseteq Partition' /\ \A q \in received' : verdict'[q] # "running"
      /\ ok' /\ main' = "loop" => \A q \in received' : verdict'[q] = "true"
      /\ ok' /\ main' # "loop" /\ ~timedOut' => \A q \in Partition' : verdict'[q] = "true"
  BY <1>2, <1>3, <1>4, <1>5 DEF MainInv
<1>8. ~ok' => \E q \in Partition' : Hopeless(history'[q], Size(q)')
  BY <1>3, <1>4, <1>5 DEF MainInv
<1>9. QED  BY <1>3, <1>4, <1>5, <1>6, <1>7, <1>8 DEF MainInv

\* The steps of checkParallel.
LEMMA MainKeeps ==
  ASSUME CheckerInv, Main
  PROVE  CheckerInv'
<1>0. /\ ShapeInv /\ MainInv /\ \A p \in Partition : PartitionInv(p)
  BY DEF CheckerInv
<1>1. UNCHANGED <<inputVars, searchVars>>
  BY DEF Main, Timeout, Finish, TakeResult, Drain
<1>2. UNCHANGED <<history, computeInfo, list, entry, linearized, cache, calls, state, longest, verdict>>
      /\ Partition' = Partition /\ \A q : Size(q)' = Size(q)
  BY <1>1 DEF inputVars, searchVars, Partition, Size
<1>3. kill => kill'
  <2>1. CASE Timeout
    BY <2>1 DEF Timeout
  <2>2. CASE Finish
    BY <2>2 DEF Finish
  <2>3. ASSUME NEW p \in Partition, TakeResult(p) PROVE kill => kill'
    BY <2>3 DEF TakeResult
  <2>4. ASSUME NEW p \in Partition, Drain(p) PROVE kill => kill'
    BY <2>4 DEF Drain
  <2>5. QED  BY <2>1, <2>2, <2>3, <2>4 DEF Main
<1>4. ShapeInv'
  BY <1>0, <1>2 DEF ShapeInv
<1>5. \A p \in Partition' : PartitionInv(p)'
  BY <1>0, <1>2, <1>3, PartitionStays
<1>6. MainInv'
  <2>1. CASE Timeout
    BY <1>0, <1>2, <2>1 DEF Timeout, MainInv
  <2>2. CASE Finish
    <3>1. /\ main = "drain" /\ HasWaited /\ result' = Verdict /\ main' = "done"
          /\ UNCHANGED <<received, ok, timedOut, kill>>
      BY <2>2 DEF Finish
    <3>2. Verdict' = Verdict
      BY <3>1 DEF Verdict
    <3>3. computeInfo => received = Partition
      BY <1>0, <3>1, CountedIsAll DEF HasWaited, MainInv
    <3>4. QED  BY <1>0, <1>2, <3>1, <3>2, <3>3 DEF MainInv
  <2>3. ASSUME NEW p \in Partition, TakeResult(p)
        PROVE  MainInv'
    <3>1. /\ main = "loop" /\ p \in Partition \ received /\ verdict[p] # "running"
          /\ received' = received \cup {p} /\ ok' = (ok /\ verdict[p] = "true")
          /\ kill' = (kill \/ (~ok' /\ ~computeInfo))
          /\ main' = (IF kill' \/ IsCounted(received') THEN "drain" ELSE "loop")
          /\ UNCHANGED <<timedOut, result>>
      BY <2>3 DEF TakeResult, Results
    <3>2. ~kill /\ ok \in BOOLEAN /\ computeInfo \in BOOLEAN
      BY <1>0, <3>1 DEF MainInv
    <3>3. received' \in SUBSET Partition /\ \A q \in received' : verdict[q] # "running"
      BY <1>0, <3>1 DEF MainInv
    <3>4. ok' => \A q \in received' : verdict[q] = "true"
      BY <1>0, <3>1 DEF MainInv
    <3>5. ASSUME ok', main' # "loop"
          PROVE  received' = Partition
      <4>1. ~kill'
        BY <3>1, <3>2, <3>5
      <4>2. IsCounted(received')
        BY <3>1, <3>5, <4>1
      <4>3. QED  BY <1>0, <3>3, <4>2, CountedIsAll
    <3>6. ASSUME ~ok'
          PROVE  \E q \in Partition : Hopeless(history[q], Size(q))
      <4>1. CASE ~ok
        BY <1>0, <4>1 DEF MainInv
      <4>2. CASE ok
        <5>1. verdict[p] = "false" /\ PartitionInv(p)
          BY <1>0, <3>1, <3>6, <4>2 DEF PartitionInv
        <5>2. WellFormed(history[p], Size(p))
              /\ Settled(history[p], Size(p), computeInfo, longest[p], Root)
          BY <3>2, <5>1 DEF PartitionInv
        <5>3. Hopeless(history[p], Size(p))
          BY <5>2, SettledRoot
        <5>4. QED  BY <5>3
      <4>3. QED  BY <3>2, <4>1, <4>2
    <3>7. ok' \in BOOLEAN /\ kill' \in BOOLEAN /\ main' \in {"loop", "drain"}
          /\ (main' = "loop" => ~kill')
          /\ (computeInfo => ~kill')
      BY <3>1, <3>2
    <3>8. result' = "none"
      BY <1>0, <3>1 DEF MainInv
    <3>9. timedOut' \in BOOLEAN
      BY <1>0, <3>1 DEF MainInv
    <3>10. /\ received' \subseteq Partition' /\ \A q \in received' : verdict'[q] # "running"
           /\ ok' /\ main' = "loop" => \A q \in received' : verdict'[q] = "true"
           /\ ok' /\ main' # "loop" /\ ~timedOut' => \A q \in Partition' : verdict'[q] = "true"
      BY <1>2, <3>3, <3>4, <3>5
    <3>11. ~ok' => \E q \in Partition' : Hopeless(history'[q], Size(q)')
      BY <1>2, <3>6
    <3>12. QED  BY <1>2, <3>2, <3>7, <3>8, <3>9, <3>10, <3>11 DEF MainInv
  <2>4. ASSUME NEW p \in Partition, Drain(p)
        PROVE  MainInv'
    <3>1. /\ main = "drain" /\ p \in Partition /\ verdict[p] # "running"
          /\ received' = received \cup {p}
          /\ UNCHANGED <<ok, timedOut, kill, main, result>>
      BY <2>4 DEF Drain, Results
    <3>2. QED  BY <1>0, <1>2, <3>1 DEF MainInv
  <2>5. QED  BY <2>1, <2>2, <2>3, <2>4 DEF Main
<1>7. QED  BY <1>4, <1>5, <1>6 DEF CheckerInv

\* Every step keeps it.
LEMMA CheckerStep ==
  ASSUME CheckerInv, [Next]_vars
  PROVE  CheckerInv'
<1>0. /\ ShapeInv /\ MainInv /\ \A p \in Partition : PartitionInv(p)
  BY DEF CheckerInv
<1>1. CASE Main
  BY <1>1, MainKeeps
<1>2. ASSUME NEW p \in Partition, Search(p)
      PROVE  CheckerInv'
  <2>1. OthersStay(p) /\ ShapeInv' /\ \A q \in Partition : PartitionInv(q)'
    BY <1>0, <1>2, SearchKeeps DEF MainInv
  <2>2. MainInv'
    BY <1>2, <2>1, MainKept
  <2>3. Partition' = Partition
    BY <2>1 DEF OthersStay, Partition
  <2>4. QED  BY <2>1, <2>2, <2>3 DEF CheckerInv
<1>3. CASE UNCHANGED vars
  <2>1. UNCHANGED <<history, computeInfo, list, entry, linearized, cache, calls, state, longest, verdict,
                    received, ok, timedOut, kill, main, result>>
    BY <1>3 DEF vars, inputVars, searchVars, mainVars
  <2>2. Partition' = Partition /\ \A q : Size(q)' = Size(q)
    BY <2>1 DEF Partition, Size
  <2>3. ShapeInv'
    BY <1>0, <2>1, <2>2 DEF ShapeInv
  <2>4. \A p \in Partition' : PartitionInv(p)'
    BY <1>0, <2>1, <2>2, PartitionStays
  <2>5. Verdict' = Verdict
    BY <2>1 DEF Verdict
  <2>6. MainInv'
    BY <1>0, <2>1, <2>2, <2>5 DEF MainInv
  <2>7. QED  BY <2>3, <2>4, <2>6 DEF CheckerInv
<1>4. QED  BY <1>1, <1>2, <1>3 DEF Next

\* CheckerInv holds in every reachable state.
LEMMA CheckerCorrect == Spec => []CheckerInv
<1>1. Init => CheckerInv
  BY CheckerInit
<1>2. CheckerInv /\ [Next]_vars => CheckerInv'
  BY CheckerStep
<1>3. QED  BY <1>1, <1>2, PTL DEF Spec
-----------------------------------------------------------------------------
\* What the invariant means.

\* Positions are of entries left in the list, operations of the partition.
LEMMA InvTypes ==
  ASSUME CheckerInv
  PROVE  TypeOK
<1>0. /\ ShapeInv /\ MainInv /\ \A p \in Partition : PartitionInv(p)
  BY DEF CheckerInv
<1>1. ASSUME NEW p \in Partition
      PROVE  /\ HasEntries(p) => /\ entry[p] \in Node(p)
                                 /\ IdOf(p, entry[p]) \notin linearized[p]
             /\ linearized[p] \subseteq Ops(p)
             /\ state[p] \in Seq(Values)
             /\ \A k \in DOMAIN calls[p] :
                   calls[p][k].entry \in Node(p) /\ calls[p][k].state \in Seq(Values)
             /\ \A i \in Ops(p) : longest[p][i] \in Seq(Ops(p))
             /\ verdict[p] \in {"running", "true", "false"}
  <2>. DEFINE h == history[p]
              n == Size(p)
              c == <<linearized[p], state[p]>>
  <2>0. PartitionInv(p)
    BY <1>0
  <2>1. /\ Ops(p) = 1 .. n /\ Node(p) = 1 .. 2 * n /\ \A k : IdOf(p, k) = Id(h, k)
        /\ HasEntries(p) <=> Rest(h, n, linearized[p]) # {}
        /\ At(h, calls[p], state[p], Len(calls[p])) = c
    BY <2>0, Bridge
  <2>2. /\ WellFormed(h, n) /\ calls[p] \in Stacks(n) /\ state[p] \in Seq(Values)
        /\ longest[p] \in [1 .. n -> Seq(1 .. n)] /\ verdict[p] \in {"running", "true", "false"}
        /\ PlaceInv(h, n, computeInfo, longest[p], list[p], entry[p], c)
    BY <2>0, <2>1 DEF PartitionInv, SearchInv
  <2>. DEFINE T == [entry : 1 .. 2 * n, state : Seq(Values)]
              cs == calls[p]
  <2>3. cs \in Seq(T)
    BY <2>2 DEF Stacks
  <2>4. \A k \in DOMAIN cs : cs[k] \in T
    <3>. HIDE DEF T, cs
    <3>1. QED  BY <2>3, SeqIs
  <2>5. \A k \in DOMAIN cs : cs[k].entry \in Node(p) /\ cs[k].state \in Seq(Values)
    BY <2>1, <2>4
  <2>6. linearized[p] \subseteq Ops(p)
    <3>1. Len(calls[p]) \in 0 .. Len(calls[p])
      BY <2>2, SeqIs DEF Stacks
    <3>2. c \in Configurations(n)
      BY <2>1, <2>2, <3>1, AtIs
    <3>3. QED  BY <2>1, <3>2 DEF Configurations
  <2>7. HasEntries(p) => entry[p] \in Node(p) /\ IdOf(p, entry[p]) \notin linearized[p]
    <3>1. HasEntries(p) => entry[p] \in Rest(h, n, linearized[p])
      BY <2>1, <2>2 DEF PlaceInv
    <3>2. QED  BY <2>1, <3>1 DEF Rest
  <2>8. \A i \in Ops(p) : longest[p][i] \in Seq(Ops(p))
    BY <2>1, <2>2
  <2>9. QED  BY <2>2, <2>5, <2>6, <2>7, <2>8
<1>2. /\ received \subseteq Partition /\ {ok, timedOut, kill} \subseteq BOOLEAN
      /\ main \in {"loop", "drain", "done"}
      /\ result \in {"none", "Ok", "Illegal", "Unknown"}
  BY <1>0 DEF MainInv, Verdict
<1>3. QED  BY <1>1, <1>2 DEF TypeOK

\* The list and the calls are as SearchSound says.
LEMMA InvSearchSound ==
  ASSUME CheckerInv
  PROVE  SearchSound
<1>. DEFINE rest(p) == {k \in Node(p) : IdOf(p, k) \notin linearized[p]}
<1>1. ASSUME NEW p \in Partition
      PROVE  /\ \A k \in rest(p) \cup {headEntry} :
                   list[p].next[k] = IF \E m \in rest(p) : m > k
                                     THEN Min({m \in rest(p) : m > k}) ELSE Nil
             /\ \A k \in rest(p) :
                   list[p].prev[k] = Max({m \in rest(p) \cup {headEntry} : m < k})
             /\ linearized[p] = ToSet(CallIds(p))
             /\ CallIds(p) \in Linearizations(p)
             /\ state[p] = StateAfter(p, CallIds(p))
  <2>. DEFINE h == history[p]
              n == Size(p)
              c == <<linearized[p], state[p]>>
              R == rest(p)
  <2>0. PartitionInv(p)
    BY DEF CheckerInv
  <2>1. /\ Node(p) = 1 .. 2 * n /\ (\A k : IdOf(p, k) = Id(h, k)) /\ n \in Nat
        /\ At(h, calls[p], state[p], Len(calls[p])) = c
    BY <2>0, Bridge
  <2>2. R = Rest(h, n, c[1])
    BY <2>1 DEF Rest
  <2>3. PlaceInv(h, n, computeInfo, longest[p], list[p], entry[p], c) /\ WellFormed(h, n)
    BY <2>0, <2>1 DEF PartitionInv, SearchInv
  <2>. HIDE DEF R
  <2>4. Linked(list[p], R)
    BY <2>2, <2>3 DEF PlaceInv
  <2>5. /\ \A k \in R \cup {headEntry} :
              list[p].next[k] = IF \E m \in R : m > k THEN Min({m \in R : m > k}) ELSE Nil
        /\ \A k \in R : list[p].prev[k] = Max({m \in R \cup {headEntry} : m < k})
    BY <2>4 DEF Linked, NextIn, PrevIn
  <2>6. /\ Linear(h, n, CallIds(p)) /\ linearized[p] = ToSet(CallIds(p))
        /\ state[p] = StateAfter(p, CallIds(p))
    BY <2>0, CallsCount
  <2>7. CallIds(p) \in Linearizations(p)
    BY <2>1, <2>3, <2>6, LinearIsLinearization
  <2>8. QED  BY <2>5, <2>6, <2>7 DEF R
<1>2. QED  BY <1>1 DEF SearchSound

\* The verdict is Ok if all searches answered true, and Illegal only if one gave up its
\* first configuration.
LEMMA InvVerdictRight ==
  ASSUME CheckerInv
  PROVE  VerdictRight
<1>0. /\ MainInv /\ \A p \in Partition : PartitionInv(p)
  BY DEF CheckerInv
<1>1. /\ result = "Ok" => main = "done" /\ ok /\ ~timedOut
      /\ result = "Illegal" => ~ok
      /\ result = "Unknown" => timedOut
  BY <1>0 DEF MainInv, Verdict
<1>2. ASSUME result = "Ok", NEW p \in Partition
      PROVE  IsLinearizable(p)
  <2>1. verdict[p] = "true"
    BY <1>0, <1>1, <1>2 DEF MainInv
  <2>2. PartitionInv(p) /\ Rest(history[p], Size(p), linearized[p]) = {}
    BY <1>0, <2>1 DEF PartitionInv
  <2>3. linearized[p] = 1 .. Size(p)
    BY <2>2, AllChosen
  <2>4. Size(p) \in Nat /\ Ops(p) = 1 .. Size(p) /\ WellFormed(history[p], Size(p))
    BY <2>2, Bridge DEF PartitionInv
  <2>5. Linear(history[p], Size(p), CallIds(p)) /\ ToSet(CallIds(p)) = linearized[p]
    BY <2>2, CallsCount
  <2>6. CallIds(p) \in Linearizations(p)
    BY <2>4, <2>5, LinearIsLinearization
  <2>7. QED  BY <2>3, <2>4, <2>5, <2>6 DEF IsLinearizable
<1>3. ASSUME result = "Illegal"
      PROVE  \E p \in Partition : ~IsLinearizable(p)
  <2>1. PICK p \in Partition : Hopeless(history[p], Size(p))
    BY <1>0, <1>1, <1>3 DEF MainInv
  <2>2. PartitionInv(p)
    BY <1>0
  <2>3. Size(p) \in Nat /\ Ops(p) = 1 .. Size(p) /\ WellFormed(history[p], Size(p))
    BY <2>2, Bridge DEF PartitionInv
  <2>4. \A s : s \in Linearizations(p) => Linear(history[p], Size(p), s)
    BY <2>3, LinearIsLinearization
  <2>5. ~IsLinearizable(p)
    BY <2>1, <2>3, <2>4 DEF IsLinearizable, Hopeless
  <2>6. QED  BY <2>5
<1>4. QED  BY <1>1, <1>2, <1>3 DEF VerdictRight

\* The partial linearizations are linearizations, and without a timeout the longest there
\* are.
LEMMA InvPartialsRight ==
  ASSUME CheckerInv
  PROVE  PartialsRight
<1>0. /\ ShapeInv /\ MainInv /\ \A p \in Partition : PartitionInv(p)
  BY DEF CheckerInv
<1>. SUFFICES ASSUME main = "done", computeInfo, NEW p \in Partition, NEW i \in Ops(p)
              PROVE  /\ longest[p][i] # <<>> =>
                          longest[p][i] \in Linearizations(p) /\ i \in ToSet(longest[p][i])
                     /\ ~timedOut =>
                          \A s \in Linearizations(p) :
                             i \in ToSet(s) => Len(longest[p][i]) >= Len(s)
  BY DEF PartialsRight
<1>. DEFINE h == history[p]
            n == Size(p)
<1>1. PartitionInv(p)
  BY <1>0
<1>2. n \in Nat /\ Ops(p) = 1 .. n /\ WellFormed(h, n)
  BY <1>1, Bridge DEF PartitionInv
<1>3. \A s : s \in Linearizations(p) <=> Linear(h, n, s)
  BY <1>2, LinearIsLinearization
<1>4. longest[p][i] # <<>> => longest[p][i] \in Linearizations(p) /\ i \in ToSet(longest[p][i])
  <2>1. longest[p][i] # <<>> => Linear(h, n, longest[p][i]) /\ i \in ToSet(longest[p][i])
    BY <1>1, <1>2 DEF PartitionInv
  <2>2. QED  BY <1>3, <2>1
<1>5. ASSUME ~timedOut, NEW s \in Linearizations(p), i \in ToSet(s)
      PROVE  Len(longest[p][i]) >= Len(s)
  <2>1. Linear(h, n, s)
    BY <1>3
  <2>2. ~kill /\ verdict[p] # "running"
    BY <1>0, <1>5 DEF MainInv
  <2>3. CASE verdict[p] = "true"
    <3>1. Len(longest[p][i]) = n
      BY <1>1, <1>2, <2>3 DEF PartitionInv
    <3>2. Len(s) \in Nat /\ Len(s) <= n
      BY <1>2, <2>1, LinearBound
    <3>3. QED  BY <1>2, <3>1, <3>2
  <2>4. CASE verdict[p] = "false"
    <3>1. Settled(h, n, computeInfo, longest[p], Root)
      BY <1>1, <2>2, <2>4 DEF PartitionInv
    <3>2. QED  BY <1>2, <1>5, <2>1, <3>1, SettledRoot
  <2>5. QED  BY <1>1, <2>2, <2>3, <2>4 DEF PartitionInv
<1>6. QED  BY <1>4, <1>5
-----------------------------------------------------------------------------
\* The types of the checker's variables, for histories of any size: while there are entries
\* left, checkSingle looks at an entry of the list (checker.go:185) and never at nil.
THEOREM CheckerTypes == Spec => []TypeOK
<1>1. CheckerInv => TypeOK
  BY InvTypes
<1>2. QED  BY <1>1, CheckerCorrect, PTL

\* checkSingle's linked list is always the history without the calls taken out and their
\* returns, whatever lift and unlift went before, and its stack is a linearization of what
\* was taken out that leads to its state (checker.go:174-248).
THEOREM SearchIsSound == Spec => []SearchSound
<1>1. CheckerInv => SearchSound
  BY InvSearchSound
<1>2. QED  BY <1>1, CheckerCorrect, PTL

\* checkParallel's answer is right for every history (checker.go:337-347): Ok only if each
\* partition is linearizable and Illegal only if one is not, although the search prunes by
\* its cache and goroutines are killed; Unknown only after a timeout.
THEOREM VerdictIsRight == Spec => []VerdictRight
<1>1. CheckerInv => VerdictRight
  BY InvVerdictRight
<1>2. QED  BY <1>1, CheckerCorrect, PTL

\* The partial linearizations that CheckOperationsVerbose returns are linearizations with
\* their operation, and without a timeout none that has it is longer (checker.go:180).
THEOREM PartialsAreRight == Spec => []PartialsRight
<1>1. CheckerInv => PartialsRight
  BY InvPartialsRight
<1>2. QED  BY <1>1, CheckerCorrect, PTL

\* No goroutine writes longest once checkParallel has returned it (checker.go:308).
THEOREM InfoStaysSettled == Spec => InfoSettled
<1>1. ASSUME CheckerInv, [Next]_vars
      PROVE  [main = "done" /\ computeInfo => UNCHANGED longest]_vars
  <2>. SUFFICES ASSUME main = "done", computeInfo
                PROVE  UNCHANGED longest
    OBVIOUS
  <2>1. \A p \in Partition : verdict[p] # "running"
    BY <1>1 DEF CheckerInv, MainInv
  <2>2. CASE Main
    BY <2>2 DEF Main, Timeout, Finish, TakeResult, Drain, searchVars
  <2>3. ASSUME NEW p \in Partition, Search(p)
        PROVE  FALSE
    BY <2>1, <2>3 DEF Search, Choose, Skip, Backtrack, Exhaust, Killed, Complete, Iterates
  <2>4. CASE UNCHANGED vars
    BY <2>4 DEF vars, searchVars
  <2>5. QED  BY <1>1, <2>2, <2>3, <2>4 DEF Next
<1>2. QED  BY <1>1, CheckerCorrect, PTL DEF Spec, InfoSettled
=============================================================================
