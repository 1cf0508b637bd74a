------------------------------ MODULE Lru2Proofs ------------------------------
(* Proofs about Lru2, and about LinkedLevel, which implements one level of  *)
(* one bucket of it: see their headers for the models.                      *)
EXTENDS Lru2, LinkedLevel, FiniteSetTheorems, SequenceTheorems, TLAPS

Node == [k : Keys, exp : Nat, v : 1..MaxSets]

(* A level of nodes of N: every key has one at most, dead or live.          *)
Level(N, cap) ==
  {s \in Seq(N) : /\ Len(s) <= cap
                  /\ \A i, j \in 1..Len(s) : s[i].k = s[j].k => i = j}

-----------------------------------------------------------------------------
(* What the operators of Lru2Level do to a level and to its live entries.   *)
LEMMA IndexInLevel ==
  ASSUME NEW N, NEW cap, NEW s \in Level(N, cap), NEW k \in KeysIn(s)
  PROVE  /\ IndexOf(s, k) \in 1..Len(s) /\ s[IndexOf(s, k)].k = k
         /\ Entry(s, k) \in N /\ Entry(s, k).k = k
         /\ \A i \in 1..Len(s) : s[i].k = k => s[i] = Entry(s, k)
<1>1. DOMAIN s = 1..Len(s) /\ \A i \in 1..Len(s) : s[i] \in N BY DEF Level
<1>2. \E i \in DOMAIN s : s[i].k = k BY DEF KeysIn
<1>3. IndexOf(s, k) \in 1..Len(s) /\ s[IndexOf(s, k)].k = k BY <1>1, <1>2 DEF IndexOf
<1> QED BY <1>1, <1>3 DEF Entry, Level

(* The level without the node of k, position by position.                   *)
LEMMA DropInLevel ==
  ASSUME NEW N, NEW cap \in Nat, NEW s \in Level(N, cap), NEW k \in KeysIn(s)
  PROVE  /\ Drop(s, k) \in Seq(N) /\ Len(Drop(s, k)) = Len(s) - 1
         /\ \A j \in 1..(Len(s) - 1) :
              Drop(s, k)[j] = IF j < IndexOf(s, k) THEN s[j] ELSE s[j + 1]
<1> DEFINE i == IndexOf(s, k)
           n == Len(s)
           head == SubSeq(s, 1, i - 1)
           tail == SubSeq(s, i + 1, n)
<1>1. i \in 1..n /\ n \in Nat /\ s \in Seq(N) BY IndexInLevel DEF Level
<1> HIDE DEF i
<1>2. head \in Seq(N) /\ Len(head) = i - 1 /\ \A j \in 1..(i - 1) : head[j] = s[j]
  BY <1>1
<1>3. tail \in Seq(N) /\ Len(tail) = n - i /\ \A j \in 1..(n - i) : tail[j] = s[i + j]
  BY <1>1
<1>4. Drop(s, k) = head \o tail BY DEF Drop, RemoveAt, i
<1> HIDE DEF n, head, tail
<1>5. head \o tail \in Seq(N) /\ Len(head \o tail) = n - 1
  <2>1. /\ head \o tail \in Seq(N) /\ Len(head \o tail) = Len(head) + Len(tail)
    BY <1>2, <1>3, ConcatProperties
  <2>2. (i - 1) + (n - i) = n - 1 BY <1>1
  <2> QED BY <1>2, <1>3, <2>1, <2>2
<1>6. ASSUME NEW j \in 1..(n - 1)
      PROVE  (head \o tail)[j] = IF j < i THEN s[j] ELSE s[j + 1]
  <2>1. CASE j < i BY <1>1, <1>2, <1>3, <2>1
  <2>2. CASE j >= i
    <3>1. (head \o tail)[j] = tail[j - (i - 1)] BY <1>1, <1>2, <1>3, <2>2
    <3>2. j - (i - 1) \in 1..(n - i) /\ i + (j - (i - 1)) = j + 1 BY <1>1, <2>2
    <3> QED BY <1>1, <1>3, <2>2, <3>1, <3>2
  <2>3. j < i \/ j >= i BY <1>1
  <2> QED BY <1>1, <2>1, <2>2, <2>3
<1> QED BY <1>4, <1>5, <1>6 DEF i, n

(* Live entries of a level: one for a key at most, found by Entry.          *)
LEMMA LiveInLevel ==
  ASSUME NEW cap, NEW s \in Level(Node, cap)
  PROVE  /\ \A e \in LiveEntries(s) : e \in Node /\ e.exp > 0
         /\ \A e, f \in LiveEntries(s) : e.k = f.k => e = f
         /\ \A k : LiveIn(s, k) => Entry(s, k) \in LiveEntries(s) /\ Entry(s, k).k = k
         /\ \A e \in LiveEntries(s) : LiveIn(s, e.k) /\ Entry(s, e.k) = e
<1>1. DOMAIN s = 1..Len(s) /\ \A i \in 1..Len(s) : s[i] \in Node BY DEF Level
<1>2. \A e \in LiveEntries(s) : e \in Node /\ e.exp > 0 BY <1>1 DEF LiveEntries
<1>3. \A e, f \in LiveEntries(s) : e.k = f.k => e = f BY <1>1 DEF LiveEntries, Level
<1>4. ASSUME NEW k, LiveIn(s, k) PROVE Entry(s, k) \in LiveEntries(s) /\ Entry(s, k).k = k
  <2>1. IndexOf(s, k) \in 1..Len(s) /\ Entry(s, k).k = k BY <1>4, IndexInLevel DEF LiveIn
  <2> QED BY <1>1, <1>4, <2>1 DEF LiveIn, Entry, LiveEntries
<1>5. ASSUME NEW e \in LiveEntries(s) PROVE LiveIn(s, e.k) /\ Entry(s, e.k) = e
  <2>1. PICK i \in 1..Len(s) : s[i] = e /\ e.exp > 0 BY <1>1 DEF LiveEntries
  <2>2. e.k \in KeysIn(s) BY <1>1, <2>1 DEF KeysIn
  <2>3. s[i] = Entry(s, e.k) BY <2>1, <2>2, IndexInLevel
  <2> QED BY <2>1, <2>2, <2>3 DEF LiveIn
<1> QED BY <1>2, <1>3, <1>4, <1>5

(* The nodes of s have changed places in t as f says; e has taken the place *)
(* of the node at i.                                                        *)
Renewed(s, t, i, e, f) ==
  /\ i \in 1..Len(s) /\ e \in Node /\ e.k = s[i].k
  /\ t \in Seq(Node) /\ Len(t) = Len(s)
  /\ f \in [1..Len(s) -> 1..Len(s)]
  /\ \A j, l \in 1..Len(s) : f[j] = f[l] => j = l
  /\ \A l \in 1..Len(s) : \E j \in 1..Len(s) : f[j] = l
  /\ \A j \in 1..Len(s) : t[j] = IF f[j] = i THEN e ELSE s[f[j]]

(* A level whose nodes change places, one of them with a new content.       *)
LEMMA Rearranged ==
  ASSUME NEW cap \in Nat, NEW s \in Level(Node, cap), NEW t, NEW i, NEW e, NEW f,
         Renewed(s, t, i, e, f)
  PROVE  /\ t \in Level(Node, cap)
         /\ LiveEntries(t) = {x \in LiveEntries(s) : x.k # e.k}
                             \cup (IF e.exp > 0 THEN {e} ELSE {})
<1>1. DOMAIN s = 1..Len(s) /\ DOMAIN t = 1..Len(s) BY DEF Renewed, Level
<1>2. \A j \in 1..Len(s) : t[j].k = s[f[j]].k BY DEF Renewed
<1>3. \A j, l \in 1..Len(s) : s[j].k = s[l].k => j = l BY DEF Level
<1>4. t \in Level(Node, cap)
  <2>1. ASSUME NEW j \in 1..Len(s), NEW l \in 1..Len(s), t[j].k = t[l].k PROVE j = l
    <3>1. f[j] \in 1..Len(s) /\ f[l] \in 1..Len(s) BY DEF Renewed
    <3>2. s[f[j]].k = s[f[l]].k BY <1>2, <2>1
    <3>3. f[j] = f[l]
      <4> DEFINE a == f[j]
                 c == f[l]
      <4> HIDE DEF a, c
      <4>1. a \in 1..Len(s) /\ c \in 1..Len(s) /\ s[a].k = s[c].k BY <3>1, <3>2 DEF a, c
      <4>2. a = c BY <1>3, <4>1
      <4> QED BY <4>2 DEF a, c
    <3> QED BY <3>3 DEF Renewed
  <2> QED BY <2>1 DEF Level, Renewed
<1>5. ASSUME NEW x \in LiveEntries(t)
      PROVE  (x \in LiveEntries(s) /\ x.k # e.k) \/ (x = e /\ e.exp > 0)
  <2>1. PICK j \in 1..Len(s) : t[j] = x /\ x.exp > 0 BY <1>1, <1>5 DEF LiveEntries
  <2>2. CASE f[j] = i BY <2>1, <2>2 DEF Renewed
  <2>3. CASE f[j] # i
    <3>1. x = s[f[j]] /\ f[j] \in DOMAIN s BY <1>1, <2>1, <2>3 DEF Renewed
    <3>2. x.k # e.k
      <4>1. i \in 1..Len(s) /\ e.k = s[i].k /\ f[j] \in 1..Len(s) BY DEF Renewed
      <4> DEFINE a == f[j]
      <4> HIDE DEF a
      <4>2. a \in 1..Len(s) /\ a # i /\ x = s[a] BY <2>3, <3>1, <4>1 DEF a
      <4>3. s[a].k # s[i].k BY <1>3, <4>1, <4>2
      <4> QED BY <4>1, <4>2, <4>3
    <3>3. x \in LiveEntries(s) BY <2>1, <3>1 DEF LiveEntries
    <3> QED BY <3>2, <3>3
  <2> QED BY <2>2, <2>3
<1>6. ASSUME NEW x \in LiveEntries(s), x.k # e.k PROVE x \in LiveEntries(t)
  <2>1. PICK l \in 1..Len(s) : s[l] = x /\ x.exp > 0 BY <1>1, <1>6 DEF LiveEntries
  <2>2. PICK j \in 1..Len(s) : f[j] = l BY DEF Renewed
  <2>3. t[j] = x BY <1>6, <2>1, <2>2 DEF Renewed
  <2> QED BY <1>1, <2>1, <2>3 DEF LiveEntries
<1>7. ASSUME e.exp > 0 PROVE e \in LiveEntries(t)
  <2>1. PICK j \in 1..Len(s) : f[j] = i BY DEF Renewed
  <2>2. t[j] = e BY <2>1 DEF Renewed
  <2> QED BY <1>1, <1>7, <2>2 DEF LiveEntries
<1>8. \A x \in {x \in LiveEntries(s) : x.k # e.k} \cup (IF e.exp > 0 THEN {e} ELSE {}) :
        x \in LiveEntries(t)
  BY <1>6, <1>7
<1>9. \A x \in LiveEntries(t) :
        x \in {y \in LiveEntries(s) : y.k # e.k} \cup (IF e.exp > 0 THEN {e} ELSE {})
  BY <1>5
<1> QED BY <1>4, <1>8, <1>9

(* Position by position: a node comes to the head, goes to the tail.        *)
LEMMA HeadPositions ==
  ASSUME NEW N, NEW cap \in Nat, NEW s \in Level(N, cap), NEW k \in KeysIn(s), NEW e \in N
  PROVE  /\ <<e>> \o Drop(s, k) \in Seq(N) /\ Len(<<e>> \o Drop(s, k)) = Len(s)
         /\ \A j \in 1..Len(s) :
              (<<e>> \o Drop(s, k))[j]
                = IF j = 1 THEN e ELSE IF j <= IndexOf(s, k) THEN s[j - 1] ELSE s[j]
<1> DEFINE i == IndexOf(s, k)
           n == Len(s)
           h == <<e>>
           d == Drop(s, k)
<1>1. i \in 1..n /\ n \in Nat BY IndexInLevel DEF Level
<1>2. h \in Seq(N) /\ Len(h) = 1 /\ h[1] = e OBVIOUS
<1>3. /\ d \in Seq(N) /\ Len(d) = n - 1
      /\ \A j \in 1..(n - 1) : d[j] = IF j < i THEN s[j] ELSE s[j + 1]
  BY DropInLevel
<1> HIDE DEF i, n, h, d
<1>4. /\ h \o d \in Seq(N) /\ Len(h \o d) = 1 + (n - 1)
      /\ \A j \in 1..(1 + (n - 1)) : (h \o d)[j] = IF j <= 1 THEN h[j] ELSE d[j - 1]
  <2>1. h \in Seq(N) /\ d \in Seq(N) BY <1>2, <1>3
  <2>2. /\ h \o d \in Seq(N) /\ Len(h \o d) = Len(h) + Len(d)
        /\ \A j \in 1..(Len(h) + Len(d)) :
             (h \o d)[j] = IF j <= Len(h) THEN h[j] ELSE d[j - Len(h)]
    BY <2>1, ConcatProperties
  <2>3. Len(h) = 1 /\ Len(d) = n - 1 BY <1>2, <1>3
  <2> QED BY <2>2, <2>3
<1>5. ASSUME NEW j \in 1..n
      PROVE  (h \o d)[j] = IF j = 1 THEN e ELSE IF j <= i THEN s[j - 1] ELSE s[j]
  <2>1. j \in 1..(1 + (n - 1)) /\ (j <= 1 <=> j = 1) BY <1>1
  <2>2. CASE j = 1 BY <1>2, <1>4, <2>1, <2>2
  <2>3. CASE j # 1
    <3>1. j - 1 \in 1..(n - 1) /\ (j - 1) + 1 = j /\ (j - 1 < i <=> j <= i) BY <1>1, <2>3
    <3> QED BY <1>3, <1>4, <2>1, <2>3, <3>1
  <2> QED BY <2>2, <2>3
<1>6. 1 + (n - 1) = n BY <1>1
<1> QED BY <1>4, <1>5, <1>6 DEF h, d, n, i

LEMMA TailPositions ==
  ASSUME NEW N, NEW cap \in Nat, NEW s \in Level(N, cap), NEW k \in KeysIn(s), NEW e \in N
  PROVE  /\ Drop(s, k) \o <<e>> \in Seq(N) /\ Len(Drop(s, k) \o <<e>>) = Len(s)
         /\ \A j \in 1..Len(s) :
              (Drop(s, k) \o <<e>>)[j]
                = IF j = Len(s) THEN e ELSE IF j < IndexOf(s, k) THEN s[j] ELSE s[j + 1]
<1> DEFINE i == IndexOf(s, k)
           n == Len(s)
           h == <<e>>
           d == Drop(s, k)
<1>1. i \in 1..n /\ n \in Nat BY IndexInLevel DEF Level
<1>2. h \in Seq(N) /\ Len(h) = 1 /\ h[1] = e OBVIOUS
<1>3. /\ d \in Seq(N) /\ Len(d) = n - 1
      /\ \A j \in 1..(n - 1) : d[j] = IF j < i THEN s[j] ELSE s[j + 1]
  BY DropInLevel
<1> HIDE DEF i, n, h, d
<1>4. /\ d \o h \in Seq(N) /\ Len(d \o h) = (n - 1) + 1
      /\ \A j \in 1..((n - 1) + 1) : (d \o h)[j] = IF j <= n - 1 THEN d[j] ELSE h[j - (n - 1)]
  <2>1. h \in Seq(N) /\ d \in Seq(N) BY <1>2, <1>3
  <2>2. /\ d \o h \in Seq(N) /\ Len(d \o h) = Len(d) + Len(h)
        /\ \A j \in 1..(Len(d) + Len(h)) :
             (d \o h)[j] = IF j <= Len(d) THEN d[j] ELSE h[j - Len(d)]
    BY <2>1, ConcatProperties
  <2>3. Len(h) = 1 /\ Len(d) = n - 1 BY <1>2, <1>3
  <2> QED BY <2>2, <2>3
<1>5. ASSUME NEW j \in 1..n
      PROVE  (d \o h)[j] = IF j = n THEN e ELSE IF j < i THEN s[j] ELSE s[j + 1]
  <2>1. j \in 1..((n - 1) + 1) /\ (j <= n - 1 <=> j # n) /\ n - (n - 1) = 1 BY <1>1
  <2>2. CASE j = n BY <1>2, <1>4, <2>1, <2>2
  <2>3. CASE j # n
    <3>1. j \in 1..(n - 1) BY <1>1, <2>3
    <3> QED BY <1>3, <1>4, <2>1, <2>3, <3>1
  <2> QED BY <2>2, <2>3
<1>6. (n - 1) + 1 = n BY <1>1
<1> QED BY <1>4, <1>5, <1>6 DEF h, d, n, i

(* put of a key that is there, and get.                                     *)
LEMMA ToHead ==
  ASSUME NEW cap \in Nat, NEW s \in Level(Node, cap), NEW k \in KeysIn(s), NEW e \in Node, e.k = k
  PROVE  /\ <<e>> \o Drop(s, k) \in Level(Node, cap)
         /\ LiveEntries(<<e>> \o Drop(s, k)) = {x \in LiveEntries(s) : x.k # k}
                                               \cup (IF e.exp > 0 THEN {e} ELSE {})
<1> DEFINE i == IndexOf(s, k)
           n == Len(s)
           t == <<e>> \o Drop(s, k)
           f == [j \in 1..n |-> IF j = 1 THEN i ELSE IF j - 1 < i THEN j - 1 ELSE j]
<1>1. i \in 1..n /\ s[i].k = k /\ n \in Nat BY IndexInLevel DEF Level
<1>2. /\ t \in Seq(Node) /\ Len(t) = n
      /\ \A j \in 1..n : t[j] = IF j = 1 THEN e ELSE IF j <= i THEN s[j - 1] ELSE s[j]
  BY HeadPositions
<1> HIDE DEF i, n, t
<1>3. f \in [1..n -> 1..n] BY <1>1
<1>4. \A j, l \in 1..n : f[j] = f[l] => j = l BY <1>1
<1>5. ASSUME NEW l \in 1..n PROVE \E j \in 1..n : f[j] = l
  <2>1. CASE l = i BY <1>1, <2>1
  <2>2. CASE l < i
    <3>1. l + 1 \in 1..n /\ f[l + 1] = l BY <1>1, <2>2
    <3> QED BY <3>1
  <2>3. CASE l > i
    <3>1. f[l] = l BY <1>1, <2>3
    <3> QED BY <3>1
  <2> QED BY <1>1, <2>1, <2>2, <2>3
<1>6. \A j \in 1..n : t[j] = IF f[j] = i THEN e ELSE s[f[j]]
  <2> SUFFICES ASSUME NEW j \in 1..n PROVE t[j] = IF f[j] = i THEN e ELSE s[f[j]] OBVIOUS
  <2>1. CASE j = 1 BY <1>1, <1>2, <2>1
  <2>2. CASE j # 1
    <3>1. t[j] = IF j <= i THEN s[j - 1] ELSE s[j] BY <1>2, <2>2
    <3>2. f[j] = (IF j <= i THEN j - 1 ELSE j) /\ f[j] # i BY <1>1, <2>2
    <3> QED BY <3>1, <3>2
  <2> QED BY <2>1, <2>2
<1> HIDE DEF f
<1>7. Len(t) = Len(s) BY <1>2 DEF n
<1>8. e.k = s[i].k BY <1>1
<1>9. Renewed(s, t, i, e, f)
  BY <1>1, <1>2, <1>3, <1>4, <1>5, <1>6, <1>7, <1>8 DEF Renewed, n
<1>10. /\ t \in Level(Node, cap)
       /\ LiveEntries(t) = {x \in LiveEntries(s) : x.k # e.k}
                           \cup (IF e.exp > 0 THEN {e} ELSE {})
  BY <1>9, Rearranged
<1> QED BY <1>10 DEF t

(* del.                                                                     *)
LEMMA ToTail ==
  ASSUME NEW cap \in Nat, NEW s \in Level(Node, cap), NEW k \in KeysIn(s), NEW e \in Node, e.k = k
  PROVE  /\ Drop(s, k) \o <<e>> \in Level(Node, cap)
         /\ LiveEntries(Drop(s, k) \o <<e>>) = {x \in LiveEntries(s) : x.k # k}
                                               \cup (IF e.exp > 0 THEN {e} ELSE {})
<1> DEFINE i == IndexOf(s, k)
           n == Len(s)
           t == Drop(s, k) \o <<e>>
           f == [j \in 1..n |-> IF j = n THEN i ELSE IF j < i THEN j ELSE j + 1]
<1>1. i \in 1..n /\ s[i].k = k /\ n \in Nat BY IndexInLevel DEF Level
<1>2. /\ t \in Seq(Node) /\ Len(t) = n
      /\ \A j \in 1..n : t[j] = IF j = n THEN e ELSE IF j < i THEN s[j] ELSE s[j + 1]
  BY TailPositions
<1> HIDE DEF i, n, t
<1>3. f \in [1..n -> 1..n] BY <1>1
<1>4. \A j, l \in 1..n : f[j] = f[l] => j = l BY <1>1
<1>5. ASSUME NEW l \in 1..n PROVE \E j \in 1..n : f[j] = l
  <2>1. CASE l = i
    <3>1. n \in 1..n /\ f[n] = l BY <1>1, <2>1
    <3> QED BY <3>1
  <2>2. CASE l < i
    <3>1. f[l] = l BY <1>1, <2>2
    <3> QED BY <3>1
  <2>3. CASE l > i
    <3>1. l - 1 \in 1..n /\ f[l - 1] = l BY <1>1, <2>3
    <3> QED BY <3>1
  <2> QED BY <1>1, <2>1, <2>2, <2>3
<1>6. \A j \in 1..n : t[j] = IF f[j] = i THEN e ELSE s[f[j]]
  <2> SUFFICES ASSUME NEW j \in 1..n PROVE t[j] = IF f[j] = i THEN e ELSE s[f[j]] OBVIOUS
  <2>1. CASE j = n BY <1>1, <1>2, <2>1
  <2>2. CASE j # n
    <3>1. t[j] = IF j < i THEN s[j] ELSE s[j + 1] BY <1>2, <2>2
    <3>2. f[j] = (IF j < i THEN j ELSE j + 1) /\ f[j] # i BY <1>1, <2>2
    <3> QED BY <3>1, <3>2
  <2> QED BY <2>1, <2>2
<1> HIDE DEF f
<1>7. Len(t) = Len(s) BY <1>2 DEF n
<1>8. e.k = s[i].k BY <1>1
<1>9. Renewed(s, t, i, e, f)
  BY <1>1, <1>2, <1>3, <1>4, <1>5, <1>6, <1>7, <1>8 DEF Renewed, n
<1>10. /\ t \in Level(Node, cap)
       /\ LiveEntries(t) = {x \in LiveEntries(s) : x.k # e.k}
                           \cup (IF e.exp > 0 THEN {e} ELSE {})
  BY <1>9, Rearranged
<1> QED BY <1>10 DEF t

(* put of a key that is not there: a node of level s comes in front, of the *)
(* level without its last node if it is full.                               *)
LEMMA InFront ==
  ASSUME NEW cap \in Nat \ {0}, NEW s \in Level(Node, cap), NEW e \in Node, e.k \notin KeysIn(s),
         NEW m \in 0..Len(s), m < cap, NEW r \in Seq(Node), Len(r) = m,
         \A j \in 1..m : r[j] = s[j]
  PROVE  /\ <<e>> \o r \in Level(Node, cap)
         /\ LiveEntries(<<e>> \o r)
              = {s[j] : j \in {l \in 1..m : s[l].exp > 0}}
                \cup (IF e.exp > 0 THEN {e} ELSE {})
<1> DEFINE t == <<e>> \o r
<1>1. s \in Seq(Node) /\ DOMAIN s = 1..Len(s) /\ Len(s) \in Nat BY DEF Level
<1>2. <<e>> \in Seq(Node) /\ Len(<<e>>) = 1 /\ <<e>>[1] = e OBVIOUS
<1>3. t \in Seq(Node) /\ Len(t) = 1 + m BY <1>2, ConcatProperties
<1>4. \A j \in 1..(1 + m) : t[j] = IF j = 1 THEN e ELSE s[j - 1]
  <2> DEFINE h == <<e>>
  <2>1. \A j \in 1..(1 + m) : (h \o r)[j] = IF j <= 1 THEN h[j] ELSE r[j - 1]
    BY <1>2, ConcatProperties
  <2>2. h[1] = e BY <1>2
  <2>3. t = h \o r OBVIOUS
  <2> HIDE DEF h, t
  <2>4. \A j \in 1..(1 + m) : (j <= 1 <=> j = 1) /\ (j # 1 => j - 1 \in 1..m) BY <1>1
  <2> QED BY <2>1, <2>2, <2>3, <2>4
<1> HIDE DEF t
<1>5. t \in Level(Node, cap)
  <2>1. \A l \in 1..Len(s) : s[l].k # e.k BY <1>1 DEF KeysIn
  <2>2. \A j, l \in 1..Len(s) : s[j].k = s[l].k => j = l BY DEF Level
  <2>3. ASSUME NEW j \in 1..(1 + m), NEW l \in 1..(1 + m), t[j].k = t[l].k PROVE j = l
    <3>1. CASE j = 1 /\ l = 1 BY <3>1
    <3>2. CASE j = 1 /\ l # 1
      <4>1. l - 1 \in 1..Len(s) BY <1>1, <3>2
      <4> QED BY <1>4, <2>1, <2>3, <3>2, <4>1
    <3>3. CASE j # 1 /\ l = 1
      <4>1. j - 1 \in 1..Len(s) BY <1>1, <3>3
      <4> QED BY <1>4, <2>1, <2>3, <3>3, <4>1
    <3>4. CASE j # 1 /\ l # 1
      <4>1. j - 1 \in 1..Len(s) /\ l - 1 \in 1..Len(s) BY <1>1, <3>4
      <4>2. s[j - 1].k = s[l - 1].k BY <1>4, <2>3, <3>4
      <4>3. j - 1 = l - 1 BY <2>2, <4>1, <4>2
      <4> QED BY <1>1, <4>3
    <3> QED BY <3>1, <3>2, <3>3, <3>4
  <2>4. Len(t) <= cap BY <1>1, <1>3
  <2> QED BY <1>3, <2>3, <2>4 DEF Level
<1>6. DOMAIN t = 1..(1 + m) BY <1>3
<1>7. ASSUME NEW x \in LiveEntries(t)
      PROVE  x \in {s[j] : j \in {l \in 1..m : s[l].exp > 0}} \/ (x = e /\ e.exp > 0)
  <2>1. PICK j \in 1..(1 + m) : t[j] = x /\ x.exp > 0 BY <1>6, <1>7 DEF LiveEntries
  <2>2. CASE j = 1 BY <1>4, <2>1, <2>2
  <2>3. CASE j # 1
    <3>1. j - 1 \in 1..m /\ x = s[j - 1] BY <1>1, <1>4, <2>1, <2>3
    <3> QED BY <2>1, <3>1
  <2> QED BY <2>2, <2>3
<1>8. ASSUME NEW j \in 1..m, s[j].exp > 0 PROVE s[j] \in LiveEntries(t)
  <2>1. j + 1 \in 1..(1 + m) /\ (j + 1) - 1 = j /\ j + 1 # 1 BY <1>1
  <2>2. t[j + 1] = s[j] BY <1>4, <2>1
  <2> QED BY <1>6, <1>8, <2>1, <2>2 DEF LiveEntries
<1>9. ASSUME e.exp > 0 PROVE e \in LiveEntries(t)
  <2>1. 1 \in 1..(1 + m) /\ t[1] = e BY <1>1, <1>4
  <2> QED BY <1>6, <1>9, <2>1 DEF LiveEntries
<1>10. LiveEntries(t) = {s[j] : j \in {l \in 1..m : s[l].exp > 0}}
                        \cup (IF e.exp > 0 THEN {e} ELSE {})
  <2>1. \A x \in LiveEntries(t) : x \in {s[j] : j \in {l \in 1..m : s[l].exp > 0}}
                                        \cup (IF e.exp > 0 THEN {e} ELSE {})
    BY <1>7
  <2>2. \A x \in {s[j] : j \in {l \in 1..m : s[l].exp > 0}} : x \in LiveEntries(t) BY <1>8
  <2>3. \A x \in (IF e.exp > 0 THEN {e} ELSE {}) : x \in LiveEntries(t) BY <1>9
  <2> QED BY <2>1, <2>2, <2>3
<1> QED BY <1>5, <1>10 DEF t

(* What a put does: the nodes of other keys stay, but for the one it evicts. *)
LEMMA PutLevel ==
  ASSUME NEW cap \in Nat \ {0}, NEW s \in Level(Node, cap), NEW e \in Node, e.exp > 0
  PROVE  /\ PutIn(s, e, cap) \in Level(Node, cap)
         /\ EvictedBy(s, e, cap) \subseteq {x \in LiveEntries(s) : x.k # e.k}
         /\ LiveEntries(PutIn(s, e, cap))
              = ({x \in LiveEntries(s) : x.k # e.k} \ EvictedBy(s, e, cap)) \cup {e}
<1>1. s \in Seq(Node) /\ DOMAIN s = 1..Len(s) /\ Len(s) \in Nat /\ Len(s) <= cap BY DEF Level
<1>2. CASE e.k \in KeysIn(s)
  <2>1. PutIn(s, e, cap) = <<e>> \o Drop(s, e.k) /\ EvictedBy(s, e, cap) = {}
    BY <1>2 DEF PutIn, EvictedBy
  <2>2. /\ <<e>> \o Drop(s, e.k) \in Level(Node, cap)
        /\ LiveEntries(<<e>> \o Drop(s, e.k)) = {x \in LiveEntries(s) : x.k # e.k} \cup {e}
    BY <1>2, ToHead
  <2> QED BY <2>1, <2>2
<1>3. CASE e.k \notin KeysIn(s)
  <2> DEFINE Upto(m) == {s[j] : j \in {l \in 1..m : s[l].exp > 0}}
  <2>1. \A j \in 1..Len(s) : s[j].k # e.k BY <1>1, <1>3 DEF KeysIn
  <2>2. LiveEntries(s) = Upto(Len(s)) BY <1>1 DEF LiveEntries
  <2>3. {x \in LiveEntries(s) : x.k # e.k} = Upto(Len(s)) BY <2>1, <2>2
  <2>4. CASE Len(s) # cap
    <3>1. PutIn(s, e, cap) = <<e>> \o s /\ EvictedBy(s, e, cap) = {}
      BY <1>3, <2>4 DEF PutIn, EvictedBy
    <3>2. Len(s) < cap /\ Len(s) \in 0..Len(s)
      <4> DEFINE n == Len(s)
      <4>1. n \in Nat /\ n <= cap /\ n # cap BY <1>1, <2>4
      <4> HIDE DEF n
      <4>2. n < cap /\ n \in 0..n BY <4>1
      <4> QED BY <4>2 DEF n
    <3>3. <<e>> \o s \in Level(Node, cap) /\ LiveEntries(<<e>> \o s) = Upto(Len(s)) \cup {e}
      BY <1>1, <1>3, <3>2, InFront
    <3> QED BY <2>3, <3>1, <3>3
  <2>5. CASE Len(s) = cap
    <3> DEFINE n == Len(s)
               r == Front(s)
    <3>1. PutIn(s, e, cap) = <<e>> \o r BY <1>3, <2>5 DEF PutIn
    <3>2. r \in Seq(Node) /\ Len(r) = n - 1 /\ \A j \in 1..(n - 1) : r[j] = s[j]
      BY <1>1, <2>5 DEF Front
    <3>3. n - 1 \in 0..n /\ n - 1 < cap /\ n \in 1..n BY <1>1, <2>5
    <3>4. <<e>> \o r \in Level(Node, cap) /\ LiveEntries(<<e>> \o r) = Upto(n - 1) \cup {e}
      <4> DEFINE m == n - 1
      <4>1. /\ m \in 0..Len(s) /\ m < cap /\ Len(r) = m
            /\ r \in Seq(Node) /\ \A j \in 1..m : r[j] = s[j]
        BY <3>2, <3>3
      <4> HIDE DEF m, n, r
      <4>2. <<e>> \o r \in Level(Node, cap) /\ LiveEntries(<<e>> \o r) = Upto(m) \cup {e}
        BY <1>3, <4>1, InFront
      <4> QED BY <4>2 DEF m
    <3>5. EvictedBy(s, e, cap) = IF s[n].exp > 0 THEN {s[n]} ELSE {}
      BY <1>3, <2>5 DEF EvictedBy, Last
    <3>6. \A j \in 1..n : s[j] = s[n] => j = n BY <3>3 DEF Level
    <3>7. Upto(n - 1) = Upto(n) \ EvictedBy(s, e, cap)
      <4>1. n \in Nat BY <1>1
      <4> HIDE DEF n
      <4>2. \A j \in 1..n : j \in 1..(n - 1) <=> j # n BY <4>1
      <4>3. 1..(n - 1) \subseteq 1..n BY <4>1
      <4> QED BY <3>3, <3>5, <3>6, <4>2, <4>3
    <3>8. EvictedBy(s, e, cap) \subseteq Upto(n) BY <3>3, <3>5
    <3> QED BY <2>3, <3>1, <3>4, <3>7, <3>8
  <2> QED BY <2>4, <2>5
<1> QED BY <1>2, <1>3

(* What a get does: the same nodes in another order.                        *)
LEMMA TouchLevel ==
  ASSUME NEW cap \in Nat \ {0}, NEW s \in Level(Node, cap), NEW k \in KeysIn(s)
  PROVE  TouchIn(s, k) \in Level(Node, cap) /\ LiveEntries(TouchIn(s, k)) = LiveEntries(s)
<1> DEFINE e == Entry(s, k)
           t == <<e>> \o Drop(s, k)
<1>1. e \in Node /\ e.k = k /\ \A i \in 1..Len(s) : s[i].k = k => s[i] = e BY IndexInLevel
<1>2. TouchIn(s, k) = t BY DEF TouchIn
<1>3. t \in Level(Node, cap)
      /\ LiveEntries(t) = {x \in LiveEntries(s) : x.k # k} \cup (IF e.exp > 0 THEN {e} ELSE {})
  BY <1>1, ToHead
<1>4. \A x \in LiveEntries(s) : x.k = k => x = e /\ e.exp > 0
  BY <1>1 DEF LiveEntries, Level
<1>5. e.exp > 0 => e \in LiveEntries(s) BY LiveInLevel DEF LiveIn
<1> HIDE DEF t, e
<1> QED BY <1>2, <1>3, <1>4, <1>5

(* What a del does: no live node of the key is left.                        *)
LEMMA DelLevel ==
  ASSUME NEW cap \in Nat \ {0}, NEW s \in Level(Node, cap), NEW k
  PROVE  /\ DelIn(s, k) \in Level(Node, cap)
         /\ LiveEntries(DelIn(s, k)) = {x \in LiveEntries(s) : x.k # k}
<1>1. CASE LiveIn(s, k)
  <2> DEFINE e == [Entry(s, k) EXCEPT !.exp = 0]
  <2>1. k \in KeysIn(s) BY <1>1 DEF LiveIn
  <2>2. Entry(s, k) \in Node /\ Entry(s, k).k = k BY <2>1, IndexInLevel
  <2>3. e \in Node /\ e.k = k /\ ~(e.exp > 0) BY <2>2 DEF Node
  <2>4. DelIn(s, k) = Drop(s, k) \o <<e>> BY <1>1 DEF DelIn
  <2> HIDE DEF e
  <2>5. /\ Drop(s, k) \o <<e>> \in Level(Node, cap)
        /\ LiveEntries(Drop(s, k) \o <<e>>) = {x \in LiveEntries(s) : x.k # k} \cup {}
    BY <2>1, <2>3, ToTail
  <2> QED BY <2>4, <2>5
<1>2. CASE ~LiveIn(s, k)
  <2>1. DelIn(s, k) = s BY <1>2 DEF DelIn
  <2>2. \A x \in LiveEntries(s) : x.k # k BY <1>2, LiveInLevel
  <2> QED BY <2>1, <2>2
<1> QED BY <1>1, <1>2

(* Such a level is what TypeOK asks of one.                                 *)
LEMMA LevelIsOK ==
  ASSUME NEW cap \in Nat, NEW s \in Level(Node, cap)
  PROVE  LevelOK(s, cap)
<1> DEFINE f == [i \in 1..Len(s) |-> s[i].k]
<1>1. s \in Seq(Node) /\ DOMAIN s = 1..Len(s) /\ Len(s) \in Nat BY DEF Level
<1>2. f \in Bijection(1..Len(s), KeysIn(s))
  <2>1. f \in Surjection(1..Len(s), KeysIn(s)) BY <1>1 DEF KeysIn, Surjection
  <2>2. f \in Injection(1..Len(s), KeysIn(s)) BY <2>1 DEF Injection, IsInjective, Level, Surjection
  <2> QED BY <2>1, <2>2 DEF Bijection
<1>3. Cardinality(KeysIn(s)) = Len(s)
  BY <1>1, <1>2, FS_CountingElements DEF ExistsBijection
<1>4. \A i \in DOMAIN s : s[i].k \in Keys /\ s[i].exp \in Nat /\ s[i].v \in 1..MaxSets
  <2>1. \A i \in DOMAIN s : s[i] \in Node BY <1>1
  <2> QED BY <2>1 DEF Node
<1> QED BY <1>1, <1>3, <1>4 DEF LevelOK, Level

-----------------------------------------------------------------------------
(* The live entries of all the buckets of one level, each in the bucket of  *)
(* its key.                                                                 *)
All(l) == UNION {LiveEntries(l[b]) : b \in Buckets}
Placed(l) == \A b \in Buckets : \A e \in LiveEntries(l[b]) : BucketOf[e.k] = b

Top == All(l1)
Low == All(l2)

Levels ==
  /\ l1 \in [Buckets -> Level(Node, Cap1)] /\ Placed(l1)
  /\ l2 \in [Buckets -> Level(Node, Cap2)] /\ Placed(l2)

Others(S, k) == {x \in S : x.k # k}

(* What a critical section does to these sets and to the callbacks: nothing, *)
(* no entry of k is left, e is new in level 1, e goes down to level 2.       *)
Keeps == Levels' /\ Top' = Top /\ Low' = Low /\ called' = called

Removes(k) ==
  /\ Levels'
  /\ Top' = Others(Top, k) /\ Low' = Others(Low, k)
  /\ \E G \in SUBSET {x \in Top \cup Low : x.k = k} : called' = called \cup {x.v : x \in G}

Inserts(e) ==
  /\ Levels'
  /\ Low' = Low
  /\ \E E \in SUBSET Others(Top, e.k) :
       Top' = (Others(Top, e.k) \ E) \cup {e} /\ called' = called \cup {x.v : x \in E}

Promotes(e) ==
  /\ Levels'
  /\ e \in Top /\ Top' = Others(Top, e.k)
  /\ \E E \in SUBSET Others(Low, e.k) :
       Low' = (Others(Low, e.k) \ E) \cup {e} /\ called' = called \cup {x.v : x \in E}

LEMMA BucketOfKey ==
  ASSUME NEW k \in Keys PROVE BucketOf[k] \in Buckets
BY Lru2Assumption DEF Buckets

LEMMA LiveIsAll == Live = Top \cup Low
BY DEF Live, Top, Low, All

(* Of the level l only the bucket of k has changed: its entries of k are    *)
(* those of F now, and those of E are gone.                                 *)
Changes(l, m, k, E, F) ==
  LET b == BucketOf[k]
  IN  /\ \A c \in Buckets \ {b} : m[c] = l[c]
      /\ E \subseteq LiveEntries(l[b]) /\ \A x \in F : x.k = k
      /\ LiveEntries(m[b]) = (Others(LiveEntries(l[b]), k) \ E) \cup F

LEMMA OneBucket ==
  ASSUME NEW l, Placed(l), NEW m, NEW k \in Keys, NEW E, NEW F, Changes(l, m, k, E, F)
  PROVE  Placed(m) /\ All(m) = (Others(All(l), k) \ E) \cup F
<1> DEFINE b == BucketOf[k]
<1>1. b \in Buckets BY BucketOfKey
<1>2. \A c \in Buckets \ {b} : m[c] = l[c] BY DEF Changes
<1>3. /\ LiveEntries(m[b]) = (Others(LiveEntries(l[b]), k) \ E) \cup F
      /\ E \subseteq LiveEntries(l[b]) /\ BucketOf[k] = b /\ \A x \in F : x.k = k
  BY DEF Changes
<1> HIDE DEF b
<1>4. \A c \in Buckets : \A e \in LiveEntries(l[c]) : BucketOf[e.k] = c BY DEF Placed
<1>5. Placed(m)
  <2> SUFFICES ASSUME NEW c \in Buckets, NEW e \in LiveEntries(m[c]) PROVE BucketOf[e.k] = c
    BY DEF Placed
  <2>1. CASE c = b BY <1>2, <1>3, <1>4, <2>1 DEF Others
  <2>2. CASE c # b BY <1>2, <1>4, <2>2
  <2> QED BY <2>1, <2>2
<1>6. ASSUME NEW x \in All(m) PROVE x \in (Others(All(l), k) \ E) \cup F
  <2>1. PICK c \in Buckets : x \in LiveEntries(m[c]) BY <1>6 DEF All
  <2>2. CASE c = b BY <1>1, <1>2, <1>3, <2>1, <2>2 DEF Others, All
  <2>3. CASE c # b
    <3>1. x \in LiveEntries(l[c]) /\ BucketOf[x.k] = c BY <1>2, <1>4, <2>1, <2>3
    <3>2. x.k # k /\ x \notin E BY <1>1, <1>3, <1>4, <2>3, <3>1
    <3> QED BY <3>1, <3>2 DEF Others, All
  <2> QED BY <2>2, <2>3
<1>7. ASSUME NEW x \in (Others(All(l), k) \ E) \cup F PROVE x \in All(m)
  <2>1. CASE x \in F BY <1>1, <1>2, <1>3, <2>1 DEF All
  <2>2. CASE x \notin F
    <3>1. PICK c \in Buckets : x \in LiveEntries(l[c]) /\ x.k # k /\ x \notin E
      BY <2>2 DEF Others, All
    <3>2. CASE c = b BY <1>1, <1>2, <1>3, <3>1, <3>2 DEF Others, All
    <3>3. CASE c # b BY <1>2, <3>1, <3>3 DEF All
    <3> QED BY <3>2, <3>3
  <2> QED BY <2>1, <2>2
<1>8. All(m) = (Others(All(l), k) \ E) \cup F BY <1>6, <1>7
<1> QED BY <1>5, <1>8

LEMMA DelBucket ==
  ASSUME NEW cap \in Nat \ {0}, NEW l \in [Buckets -> Level(Node, cap)], Placed(l), NEW k \in Keys
  PROVE  LET m == [l EXCEPT ![BucketOf[k]] = DelIn(@, k)]
         IN  m \in [Buckets -> Level(Node, cap)] /\ Placed(m) /\ All(m) = Others(All(l), k)
<1> DEFINE s == l[BucketOf[k]]
           t == DelIn(s, k)
           m == [l EXCEPT ![BucketOf[k]] = t]
<1>1. s \in Level(Node, cap) BY BucketOfKey
<1>2. t \in Level(Node, cap) /\ LiveEntries(t) = {x \in LiveEntries(s) : x.k # k} BY <1>1, DelLevel
<1> HIDE DEF t
<1>3. /\ m \in [Buckets -> Level(Node, cap)] /\ m[BucketOf[k]] = t
      /\ \A c \in Buckets \ {BucketOf[k]} : m[c] = l[c]
  BY <1>2, BucketOfKey
<1> HIDE DEF m
<1>4. Changes(l, m, k, {}, {}) BY <1>2, <1>3 DEF Others, Changes
<1>5. Placed(m) /\ All(m) = (Others(All(l), k) \ {}) \cup {} BY <1>4, OneBucket
<1> QED BY <1>3, <1>5 DEF t, m

LEMMA PutBucket ==
  ASSUME NEW cap \in Nat \ {0}, NEW l \in [Buckets -> Level(Node, cap)], Placed(l),
         NEW e \in Node, e.exp > 0
  PROVE  LET m == [l EXCEPT ![BucketOf[e.k]] = PutIn(@, e, cap)]
             E == EvictedBy(l[BucketOf[e.k]], e, cap)
         IN  /\ m \in [Buckets -> Level(Node, cap)] /\ Placed(m)
             /\ E \subseteq Others(All(l), e.k)
             /\ All(m) = (Others(All(l), e.k) \ E) \cup {e}
<1> DEFINE k == e.k
           s == l[BucketOf[k]]
           t == PutIn(s, e, cap)
           E == EvictedBy(s, e, cap)
           m == [l EXCEPT ![BucketOf[k]] = t]
<1>1. k \in Keys BY DEF Node
<1>2. s \in Level(Node, cap) BY <1>1, BucketOfKey
<1>3. /\ t \in Level(Node, cap) /\ E \subseteq {x \in LiveEntries(s) : x.k # k}
      /\ LiveEntries(t) = ({x \in LiveEntries(s) : x.k # k} \ E) \cup {e}
  BY <1>2, PutLevel
<1>4. E \subseteq Others(All(l), k) BY <1>1, <1>3, BucketOfKey DEF Others, All
<1> HIDE DEF t, E
<1>5. /\ m \in [Buckets -> Level(Node, cap)] /\ m[BucketOf[k]] = t
      /\ \A c \in Buckets \ {BucketOf[k]} : m[c] = l[c]
  BY <1>1, <1>3, BucketOfKey
<1> HIDE DEF m
<1>6. Changes(l, m, k, E, {e}) BY <1>3, <1>5 DEF Others, Changes
<1> HIDE DEF k
<1>7. Placed(m) /\ All(m) = (Others(All(l), k) \ E) \cup {e} BY <1>1, <1>6, OneBucket
<1> QED BY <1>4, <1>5, <1>7 DEF t, E, m, k

(* The operations on the store have these effects.                          *)
LEMMA LiveOfKey ==
  ASSUME NEW cap, NEW l \in [Buckets -> Level(Node, cap)], NEW k \in Keys,
         LiveIn(l[BucketOf[k]], k)
  PROVE  /\ Entry(l[BucketOf[k]], k) \in LiveEntries(l[BucketOf[k]])
         /\ Entry(l[BucketOf[k]], k) \in All(l)
         /\ Entry(l[BucketOf[k]], k) \in Node
         /\ Entry(l[BucketOf[k]], k).k = k /\ Entry(l[BucketOf[k]], k).exp > 0
<1>1. BucketOf[k] \in Buckets /\ l[BucketOf[k]] \in Level(Node, cap) BY BucketOfKey
<1>2. /\ Entry(l[BucketOf[k]], k) \in LiveEntries(l[BucketOf[k]])
      /\ Entry(l[BucketOf[k]], k).k = k
  BY <1>1, LiveInLevel
<1> QED BY <1>1, <1>2, LiveInLevel DEF All

LEMMA DeleteBothRemoves ==
  ASSUME Levels, NEW k \in Keys, DeleteBoth(k)
  PROVE  Removes(k)
<1> DEFINE b == BucketOf[k]
           gone == IF LiveIn(l1[b], k) THEN {Entry(l1[b], k)}
                   ELSE IF LiveIn(l2[b], k) THEN {Entry(l2[b], k)} ELSE {}
<1>1. Cap1 \in Nat \ {0} /\ Cap2 \in Nat \ {0} BY Lru2Assumption
<1>2. /\ l1' = [l1 EXCEPT ![b] = DelIn(@, k)] /\ l2' = [l2 EXCEPT ![b] = DelIn(@, k)]
      /\ called' = called \cup {x.v : x \in gone}
  BY DEF DeleteBoth
<1>3. l1' \in [Buckets -> Level(Node, Cap1)] /\ Placed(l1') /\ All(l1') = Others(Top, k)
  BY <1>1, <1>2, DelBucket DEF Levels, Top
<1>4. l2' \in [Buckets -> Level(Node, Cap2)] /\ Placed(l2') /\ All(l2') = Others(Low, k)
  BY <1>1, <1>2, DelBucket DEF Levels, Low
<1>5. gone \in SUBSET {x \in Top \cup Low : x.k = k} BY LiveOfKey DEF Levels, Top, Low
<1> HIDE DEF gone
<1>6. Levels' BY <1>3, <1>4 DEF Levels, Placed, Buckets
<1>7. Top' = Others(Top, k) /\ Low' = Others(Low, k) BY <1>3, <1>4 DEF Top, Low, All, Buckets
<1> QED BY <1>2, <1>5, <1>6, <1>7 DEF Removes

LEMMA GetExpiredRemoves ==
  ASSUME Levels, NEW k \in Keys, GetExpired(k)
  PROVE  Removes(k)
<1> DEFINE b == BucketOf[k]
           gone == IF LiveIn(l2[b], k) THEN {Entry(l2[b], k)} ELSE {}
<1>1. Cap1 \in Nat \ {0} /\ Cap2 \in Nat \ {0} BY Lru2Assumption
<1>2. /\ l1' = [l1 EXCEPT ![b] = DelIn(@, k)] /\ l2' = [l2 EXCEPT ![b] = DelIn(@, k)]
      /\ called' = called \cup {x.v : x \in gone}
  BY DEF GetExpired
<1>3. l1' \in [Buckets -> Level(Node, Cap1)] /\ Placed(l1') /\ All(l1') = Others(Top, k)
  BY <1>1, <1>2, DelBucket DEF Levels, Top
<1>4. l2' \in [Buckets -> Level(Node, Cap2)] /\ Placed(l2') /\ All(l2') = Others(Low, k)
  BY <1>1, <1>2, DelBucket DEF Levels, Low
<1>5. gone \in SUBSET {x \in Top \cup Low : x.k = k} BY LiveOfKey DEF Levels, Top, Low
<1> HIDE DEF gone
<1>6. Levels' BY <1>3, <1>4 DEF Levels, Placed, Buckets
<1>7. Top' = Others(Top, k) /\ Low' = Others(Low, k) BY <1>3, <1>4 DEF Top, Low, All, Buckets
<1> QED BY <1>2, <1>5, <1>6, <1>7 DEF Removes

LEMMA PromotePromotes ==
  ASSUME Levels, NEW k \in Keys, Promote(k)
  PROVE  \E e \in Top : Promotes(e)
<1> DEFINE b == BucketOf[k]
           e == Entry(l1[b], k)
           E == EvictedBy(l2[b], e, Cap2)
<1>1. Cap1 \in Nat \ {0} /\ Cap2 \in Nat \ {0} BY Lru2Assumption
<1>2. /\ LiveIn(l1[b], k)
      /\ l1' = [l1 EXCEPT ![b] = DelIn(@, k)]
      /\ l2' = [l2 EXCEPT ![b] = PutIn(@, e, Cap2)]
      /\ called' = called \cup {x.v : x \in E}
  BY DEF Promote
<1>3. e \in Top /\ e \in Node /\ e.k = k /\ e.exp > 0
  BY <1>2, LiveOfKey DEF Levels, Top
<1>4. l1' \in [Buckets -> Level(Node, Cap1)] /\ Placed(l1') /\ All(l1') = Others(Top, k)
  BY <1>1, <1>2, DelBucket DEF Levels, Top
<1> HIDE DEF e
<1>5. /\ l2' \in [Buckets -> Level(Node, Cap2)] /\ Placed(l2')
      /\ E \subseteq Others(Low, e.k) /\ All(l2') = (Others(Low, e.k) \ E) \cup {e}
  BY <1>1, <1>2, <1>3, PutBucket DEF Levels, Low
<1> HIDE DEF E
<1>6. Levels' BY <1>4, <1>5 DEF Levels, Placed, Buckets
<1>7. Top' = Others(Top, e.k) /\ Low' = (Others(Low, e.k) \ E) \cup {e}
  BY <1>3, <1>4, <1>5 DEF Top, Low, All, Buckets
<1>8. Promotes(e) BY <1>2, <1>3, <1>5, <1>6, <1>7 DEF Promotes
<1> QED BY <1>3, <1>8

LEMMA GetLevel2Keeps ==
  ASSUME Levels, NEW k \in Keys, GetLevel2(k)
  PROVE  Keeps
<1> DEFINE b == BucketOf[k]
           s == l2[b]
<1>1. Cap2 \in Nat \ {0} /\ b \in Buckets BY Lru2Assumption, BucketOfKey
<1>2. /\ k \in KeysIn(s) /\ l2' = [l2 EXCEPT ![b] = TouchIn(s, k)]
      /\ l1' = l1 /\ called' = called
  BY DEF GetLevel2
<1>3. s \in Level(Node, Cap2) BY <1>1 DEF Levels
<1>4. TouchIn(s, k) \in Level(Node, Cap2) /\ LiveEntries(TouchIn(s, k)) = LiveEntries(s)
  BY <1>1, <1>2, <1>3, TouchLevel
<1>5. /\ l2' \in [Buckets -> Level(Node, Cap2)]
      /\ \A c \in Buckets : LiveEntries(l2'[c]) = LiveEntries(l2[c])
  BY <1>1, <1>2, <1>4 DEF Levels
<1>6. Levels' BY <1>2, <1>5 DEF Levels, Placed, Buckets
<1>7. Top' = Top /\ Low' = Low BY <1>2, <1>5 DEF Top, Low, All, Buckets
<1> QED BY <1>2, <1>6, <1>7 DEF Keeps

(* The entry a Set is about to write.                                       *)
New(g) == [k |-> arg[g].k, exp |-> arg[g].exp, v |-> sets + 1]

LEMMA SetInserts ==
  ASSUME Levels, NEW g \in Goroutines, SetEnd(g), New(g) \in Node, New(g).exp > 0
  PROVE  Inserts(New(g))
<1> DEFINE e == New(g)
           b == BucketOf[e.k]
           E == EvictedBy(l1[b], e, Cap1)
<1>1. Cap1 \in Nat \ {0} BY Lru2Assumption
<1>2. e.k = arg[g].k BY DEF New
<1>3. /\ l1' = [l1 EXCEPT ![b] = PutIn(@, e, Cap1)] /\ l2' = l2
      /\ called' = called \cup {x.v : x \in E}
  BY <1>2 DEF SetEnd, New
<1>4. e \in Node /\ e.exp > 0 OBVIOUS
<1> HIDE DEF e
<1>5. /\ l1' \in [Buckets -> Level(Node, Cap1)] /\ Placed(l1')
      /\ E \subseteq Others(Top, e.k) /\ All(l1') = (Others(Top, e.k) \ E) \cup {e}
  BY <1>1, <1>3, <1>4, PutBucket DEF Levels, Top
<1> HIDE DEF E
<1>6. Levels' BY <1>3, <1>5 DEF Levels, Placed, Buckets
<1>7. Low' = Low /\ Top' = (Others(Top, e.k) \ E) \cup {e}
  BY <1>3, <1>5 DEF Top, Low, All, Buckets
<1>8. Inserts(e) BY <1>3, <1>5, <1>6, <1>7 DEF Inserts
<1> QED BY <1>8 DEF e

LEMMA UntouchedKeeps ==
  ASSUME Levels, UNCHANGED storeVars
  PROVE  Keeps
BY DEF Levels, Keeps, storeVars, Top, Low, All, Placed, Buckets

-----------------------------------------------------------------------------
(* The versions: an entry of level 1 is the last Set of its key, one of     *)
(* level 2 is older than the one above it, and if there is none above it    *)
(* the last Set of the key itself, unless that one has been lost; nothing   *)
(* that lives has been given to the callback or precedes a finished Clear.  *)
Versions ==
  /\ called \subseteq 1..sets /\ cleared <= sets
  /\ \A e \in Top \cup Low :
       /\ e.v <= sets /\ e.v <= latest[e.k]
       /\ e.v \notin called /\ e.v > cleared
  /\ \A e, f \in Top \cup Low : e.v = f.v => e.k = f.k
  /\ \A e \in Top : e.v = latest[e.k]
  /\ \A e \in Top, f \in Low : e.k = f.k => f.v < e.v
  /\ \A f \in Low : \/ f.v = latest[f.k] \/ latest[f.k] \in called
                    \/ \E e \in Top : e.k = f.k

Counters ==
  /\ sets \in 0..MaxSets /\ cleared \in 0..MaxSets
  /\ latest \in [Keys -> 0..MaxSets]

LEMMA LiveTyped ==
  ASSUME Levels
  PROVE  /\ \A e \in Top \cup Low : e \in Node /\ e.exp > 0
         /\ \A e, f \in Top : e.k = f.k => e = f
         /\ \A e, f \in Low : e.k = f.k => e = f
<1>1. \A b \in Buckets : l1[b] \in Level(Node, Cap1) /\ l2[b] \in Level(Node, Cap2) BY DEF Levels
<1>2. ASSUME NEW e \in Top \cup Low PROVE e \in Node /\ e.exp > 0
  <2>1. PICK b \in Buckets : e \in LiveEntries(l1[b]) \/ e \in LiveEntries(l2[b])
    BY <1>2 DEF Top, Low, All
  <2> QED BY <1>1, <2>1, LiveInLevel
<1>3. ASSUME NEW e \in Top, NEW f \in Top, e.k = f.k PROVE e = f
  <2>1. PICK b \in Buckets : e \in LiveEntries(l1[b]) BY <1>3 DEF Top, All
  <2>2. PICK c \in Buckets : f \in LiveEntries(l1[c]) BY <1>3 DEF Top, All
  <2>3. b = c BY <1>3, <2>1, <2>2 DEF Levels, Placed
  <2> QED BY <1>1, <1>3, <2>1, <2>2, <2>3, LiveInLevel
<1>4. ASSUME NEW e \in Low, NEW f \in Low, e.k = f.k PROVE e = f
  <2>1. PICK b \in Buckets : e \in LiveEntries(l2[b]) BY <1>4 DEF Low, All
  <2>2. PICK c \in Buckets : f \in LiveEntries(l2[c]) BY <1>4 DEF Low, All
  <2>3. b = c BY <1>4, <2>1, <2>2 DEF Levels, Placed
  <2> QED BY <1>1, <1>4, <2>1, <2>2, <2>3, LiveInLevel
<1> QED BY <1>2, <1>3, <1>4

LEMMA VersionsKept ==
  ASSUME Versions, Keeps, UNCHANGED <<sets, latest>>, cleared' <= sets,
         \A e \in Top \cup Low : e.v > cleared'
  PROVE  Versions'
BY DEF Versions, Keeps

(* Nothing of the key is left, so that it does not matter which of its      *)
(* versions the callback got, or that a Delete has forgotten the last one.  *)
LEMMA VersionsRemoved ==
  ASSUME Levels, Counters, Versions, NEW k \in Keys, Removes(k), UNCHANGED <<sets, cleared>>,
         latest' = latest \/ latest' = [latest EXCEPT ![k] = 0]
  PROVE  Versions'
<1> USE DEF Versions
<1>1. PICK G \in SUBSET {x \in Top \cup Low : x.k = k} : called' = called \cup {x.v : x \in G}
  BY DEF Removes
<1>2. /\ \A e \in Top' : e \in Top /\ e.k # k
      /\ \A e \in Low' : e \in Low /\ e.k # k
      /\ \A e \in Top : e.k # k => e \in Top'
  BY DEF Removes, Others
<1>3. \A e \in Top \cup Low : e \in Node /\ e.k \in Keys /\ e.v \in 1..MaxSets
  BY LiveTyped DEF Node
<1>4. \A e \in Top \cup Low : e.k # k => latest'[e.k] = latest[e.k] BY <1>3 DEF Counters
<1>5. called' \subseteq 1..sets
  <2>1. \A x \in G : x.v \in 1..MaxSets /\ x.v <= sets BY <1>3
  <2>2. \A x \in G : x.v \in 1..sets BY <2>1 DEF Counters
  <2> QED BY <1>1, <2>2
<1>6. \A e \in Top' \cup Low' : /\ e.v <= sets /\ e.v <= latest'[e.k]
                                /\ e.v \notin called' /\ e.v > cleared
  <2> SUFFICES ASSUME NEW e \in Top' \cup Low'
               PROVE  /\ e.v <= sets /\ e.v <= latest'[e.k]
                      /\ e.v \notin called' /\ e.v > cleared
    OBVIOUS
  <2>1. e \in Top \cup Low /\ e.k # k BY <1>2
  <2>2. e.v \notin {x.v : x \in G} BY <2>1
  <2> QED BY <1>1, <1>4, <2>1, <2>2
<1>7. \A e, f \in Top' \cup Low' : e.v = f.v => e.k = f.k BY <1>2
<1>8. \A e \in Top' : e.v = latest'[e.k] BY <1>2, <1>4
<1>9. \A e \in Top', f \in Low' : e.k = f.k => f.v < e.v BY <1>2
<1>10. \A f \in Low' : \/ f.v = latest'[f.k] \/ latest'[f.k] \in called'
                       \/ \E e \in Top' : e.k = f.k
  BY <1>1, <1>2, <1>4
<1> QED BY <1>5, <1>6, <1>7, <1>8, <1>9, <1>10

(* A new version in level 1: the copy it overwrites was the last Set, and   *)
(* the one it evicts is in level 1 only.                                    *)
LEMMA VersionsInserted ==
  ASSUME Levels, Counters, Versions, NEW e \in Node, Inserts(e), e.v = sets + 1,
         sets' = sets + 1, latest' = [latest EXCEPT ![e.k] = sets + 1], cleared' = cleared
  PROVE  Versions'
<1> USE DEF Versions
<1>1. PICK E \in SUBSET Others(Top, e.k) :
        Top' = (Others(Top, e.k) \ E) \cup {e} /\ called' = called \cup {x.v : x \in E}
  BY DEF Inserts
<1>2. /\ \A x \in Top' : x = e \/ (x \in Top /\ x.k # e.k /\ x \notin E)
      /\ \A x \in Top : x.k # e.k => x \in E \/ x \in Top'
      /\ e \in Top' /\ Low' = Low
      /\ \A x \in E : x \in Top
  BY <1>1 DEF Inserts, Others
<1>3. \A x \in Top \cup Low : x \in Node /\ x.k \in Keys /\ x.v \in 1..MaxSets /\ x.v <= sets
  BY LiveTyped DEF Node
<1>4. /\ e.k \in Keys /\ sets \in Nat /\ cleared \in Nat
      /\ latest'[e.k] = sets + 1 /\ \A k \in Keys : k # e.k => latest'[k] = latest[k]
  BY DEF Counters, Node
<1>5. called' \subseteq 1..sets' /\ cleared' <= sets'
  <2>1. \A x \in E : x.v \in 1..sets BY <1>2, <1>3, <1>4
  <2>2. called' \subseteq 1..sets BY <1>1, <2>1
  <2>3. 1..sets \subseteq 1..(sets + 1) /\ cleared <= sets + 1 BY <1>4
  <2> QED BY <2>2, <2>3
<1>6. \A x \in Top' \cup Low' : /\ x.v <= sets' /\ x.v <= latest'[x.k]
                                /\ x.v \notin called' /\ x.v > cleared'
  <2> SUFFICES ASSUME NEW x \in Top' \cup Low'
               PROVE  /\ x.v <= sets' /\ x.v <= latest'[x.k]
                      /\ x.v \notin called' /\ x.v > cleared'
    OBVIOUS
  <2>1. CASE x = e
    <3>1. \A y \in E : y.v # sets + 1 BY <1>2, <1>3, <1>4
    <3>2. sets + 1 \notin called' BY <1>1, <1>4, <3>1
    <3> QED BY <1>4, <2>1, <3>2
  <2>2. CASE x # e
    <3>1. x \in Low \/ (x \in Top /\ x.k # e.k /\ x \notin E) BY <1>2, <2>2
    <3>2. x.v <= sets' /\ x.v <= latest'[x.k] BY <1>3, <1>4, <3>1 DEF Counters
    <3>3. \A y \in E : y.v # x.v
      <4> SUFFICES ASSUME NEW y \in E, y.v = x.v PROVE FALSE OBVIOUS
      <4>1. y \in Top /\ y.k = x.k BY <1>2, <3>1
      <4>2. CASE x \in Top /\ x \notin E BY <4>1, <4>2, LiveTyped
      <4>3. CASE x \in Low
        <5>1. x.v < y.v BY <4>1, <4>3
        <5> QED BY <1>3, <4>1, <4>3, <5>1
      <4> QED BY <3>1, <4>2, <4>3
    <3> QED BY <1>1, <3>1, <3>2, <3>3
  <2> QED BY <2>1, <2>2
<1>7. \A x, y \in Top' \cup Low' : x.v = y.v => x.k = y.k
  <2>1. \A x \in Top \cup Low : x.v # e.v BY <1>3, <1>4
  <2> QED BY <1>2, <2>1
<1>8. \A x \in Top' : x.v = latest'[x.k] BY <1>2, <1>3, <1>4
<1>9. \A x \in Top', y \in Low' : x.k = y.k => y.v < x.v
  <2>1. \A y \in Low : y.v < e.v BY <1>3, <1>4
  <2> QED BY <1>2, <2>1
<1>10. \A f \in Low' : \/ f.v = latest'[f.k] \/ latest'[f.k] \in called'
                       \/ \E x \in Top' : x.k = f.k
  <2> SUFFICES ASSUME NEW f \in Low, f.k # e.k
               PROVE  \/ f.v = latest'[f.k] \/ latest'[f.k] \in called'
                      \/ \E x \in Top' : x.k = f.k
    BY <1>2
  <2>1. latest'[f.k] = latest[f.k] BY <1>3, <1>4
  <2>2. CASE \E x \in Top : x.k = f.k
    <3>1. PICK x \in Top : x.k = f.k BY <2>2
    <3>2. CASE x \in E BY <1>1, <2>1, <3>1, <3>2
    <3>3. CASE x \notin E BY <1>2, <3>1, <3>3
    <3> QED BY <3>2, <3>3
  <2>3. CASE ~\E x \in Top : x.k = f.k BY <1>1, <2>1, <2>3
  <2> QED BY <2>2, <2>3
<1> QED BY <1>5, <1>6, <1>7, <1>8, <1>9, <1>10

(* The entry of level 1 is newer than the one it overwrites in level 2, and *)
(* the one it evicts there was the only copy of its version.                *)
LEMMA VersionsPromoted ==
  ASSUME Levels, Counters, Versions, NEW e \in Top, Promotes(e),
         UNCHANGED <<sets, latest, cleared>>
  PROVE  Versions'
<1> USE DEF Versions
<1>1. PICK E \in SUBSET Others(Low, e.k) :
        Low' = (Others(Low, e.k) \ E) \cup {e} /\ called' = called \cup {x.v : x \in E}
  BY DEF Promotes
<1>2. /\ \A x \in Low' : x = e \/ (x \in Low /\ x.k # e.k /\ x \notin E)
      /\ \A x \in Top' : x \in Top /\ x.k # e.k
      /\ \A x \in Top : x.k # e.k => x \in Top'
      /\ \A x \in E : x \in Low /\ x.k # e.k
  BY <1>1 DEF Promotes, Others
<1>3. \A x \in Top \cup Low : x \in Node /\ x.k \in Keys /\ x.v \in 1..MaxSets /\ x.v <= sets
  BY LiveTyped DEF Node
<1>4. called' \subseteq 1..sets
  <2>1. \A x \in E : x.v \in 1..sets BY <1>2, <1>3 DEF Counters
  <2> QED BY <1>1, <2>1
<1>5. \A x \in Top' \cup Low' : x.v \notin called'
  <2> SUFFICES ASSUME NEW x \in Top' \cup Low', NEW y \in E, y.v = x.v PROVE FALSE
    BY <1>1, <1>2
  <2>1. y \in Low /\ y.k # e.k /\ x \in Top \cup Low /\ y.k = x.k BY <1>2
  <2>2. CASE x \in Top
    <3>1. y.v < x.v BY <2>1, <2>2
    <3> QED BY <1>3, <2>1, <3>1
  <2>3. CASE x \notin Top
    <3>1. x \in Low /\ x \notin E BY <1>2, <2>3
    <3> QED BY <2>1, <3>1, LiveTyped
  <2> QED BY <2>2, <2>3
<1>6. \A x \in Top' \cup Low' : x.v <= sets /\ x.v <= latest[x.k] /\ x.v > cleared BY <1>2
<1>7. \A x, y \in Top' \cup Low' : x.v = y.v => x.k = y.k BY <1>2
<1>8. \A x \in Top' : x.v = latest[x.k] BY <1>2
<1>9. \A x \in Top', y \in Low' : x.k = y.k => y.v < x.v BY <1>2
<1>10. \A f \in Low' : \/ f.v = latest[f.k] \/ latest[f.k] \in called'
                       \/ \E x \in Top' : x.k = f.k
  BY <1>1, <1>2
<1> QED BY <1>4, <1>5, <1>6, <1>7, <1>8, <1>9, <1>10

-----------------------------------------------------------------------------
(* The goroutines.  A Clear under way has yet to delete, of the entries     *)
(* older than itself, those whose key it has collected and those of the     *)
(* buckets it has not come to; at the end it has collected all the buckets. *)
Walks(g) ==
  /\ pc[g] \in {"idle", "set"} => walked[g] = NoWalk
  /\ pc[g] = "collect" => walked[g].next < NBuckets
  /\ pc[g] = "delete" => walked[g].next = NBuckets
  /\ walked[g].mark <= sets
  /\ pc[g] \in {"collect", "delete"} =>
       \A e \in Top \cup Low : \/ e.v > walked[g].mark
                               \/ BucketOf[e.k] >= walked[g].next
                               \/ e.k \in walked[g].keys

Walking == \A g \in Goroutines : Walks(g)

Locals ==
  /\ clock \in 0..MaxClock
  /\ pc \in [Goroutines -> {"idle", "set", "collect", "delete"}]
  /\ arg \in [Goroutines -> [k : Keys \cup {NoKey}, exp : Nat]]
  /\ \A g \in Goroutines : pc[g] = "set" => arg[g].k \in Keys /\ arg[g].exp > 0
  /\ walked \in [Goroutines -> [next : 0..NBuckets, keys : SUBSET Keys, mark : 0..MaxSets]]
  /\ ticker \in {"running", "pending", "stopped"}
  /\ sweep \in 0..Waiting /\ sweepTime \in 0..MaxClock
  /\ expired \subseteq Keys /\ (expired # {} => sweep # Waiting)

IInv == Levels /\ Counters /\ Versions /\ Walking /\ Locals

(* A step lets entries go and adds the next version at most.                *)
Fades ==
  /\ sets <= sets'
  /\ \A e \in Top' \cup Low' : e \in Top \cup Low \/ e.v = sets + 1

LEMMA InitIInv == Init => IInv
<1> SUFFICES ASSUME Init PROVE IInv OBVIOUS
<1> USE Lru2Assumption DEF Init
<1>1. <<>> \in Level(Node, Cap1) /\ <<>> \in Level(Node, Cap2) /\ LiveEntries(<<>>) = {}
  BY DEF Level, LiveEntries
<1>2. \A b \in Buckets : l1[b] = <<>> /\ l2[b] = <<>> OBVIOUS
<1>3. Levels BY <1>1, <1>2 DEF Levels, Placed
<1>4. Top = {} /\ Low = {} BY <1>1, <1>2 DEF Top, Low, All
<1>5. Counters BY DEF Counters
<1>6. Versions BY <1>4 DEF Versions
<1>7. Walking BY DEF Walking, Walks, NoWalk
<1>8. Locals BY DEF Locals, NoArg, NoWalk, Waiting
<1> QED BY <1>3, <1>5, <1>6, <1>7, <1>8 DEF IInv

(* The store and its versions.                                              *)
LEMMA KeepsStep ==
  ASSUME IInv, UNCHANGED storeVars, UNCHANGED <<sets, latest, cleared>>
  PROVE  Levels' /\ Counters' /\ Versions' /\ Fades
<1>1. Keeps BY UntouchedKeeps DEF IInv
<1>2. Versions' BY <1>1, VersionsKept DEF IInv, Versions
<1> QED BY <1>1, <1>2 DEF Keeps, IInv, Counters, Fades

LEMMA RemovesStep ==
  ASSUME IInv, NEW k \in Keys, Removes(k), UNCHANGED <<sets, cleared>>,
         latest' = latest \/ latest' = [latest EXCEPT ![k] = 0]
  PROVE  Levels' /\ Counters' /\ Versions' /\ Fades
<1>1. Versions' BY VersionsRemoved DEF IInv
<1>2. Counters' BY Lru2Assumption DEF IInv, Counters
<1>3. Fades BY DEF Removes, Others, Fades, IInv, Counters
<1> QED BY <1>1, <1>2, <1>3 DEF Removes

LEMMA GetStep ==
  ASSUME IInv, NEW k \in Keys, Get(k)
  PROVE  Levels' /\ Counters' /\ Versions' /\ Fades
<1>1. Levels /\ Counters /\ Versions BY DEF IInv
<1>2. UNCHANGED <<sets, latest, cleared>> BY DEF Get
<1>3. CASE GetExpired(k) BY <1>1, <1>2, <1>3, GetExpiredRemoves, RemovesStep
<1>4. CASE Promote(k)
  <2>1. PICK e \in Top : Promotes(e) BY <1>1, <1>4, PromotePromotes
  <2>2. Versions' BY <1>1, <1>2, <2>1, VersionsPromoted
  <2>3. Fades BY <1>1, <1>2, <2>1 DEF Promotes, Others, Fades, Counters
  <2> QED BY <1>1, <1>2, <2>1, <2>2, <2>3 DEF Promotes, Counters
<1>5. CASE GetLevel2(k)
  <2>1. Keeps BY <1>1, <1>5, GetLevel2Keeps
  <2>2. Versions' BY <1>1, <1>2, <2>1, VersionsKept DEF Versions
  <2> QED BY <1>1, <1>2, <2>1, <2>2 DEF Keeps, Counters, Fades
<1> QED BY <1>3, <1>4, <1>5 DEF Get

LEMMA SetStep ==
  ASSUME IInv, NEW g \in Goroutines, SetEnd(g)
  PROVE  Levels' /\ Counters' /\ Versions' /\ Fades
<1> DEFINE e == New(g)
<1>1. Levels /\ Counters /\ Versions BY DEF IInv
<1>2. /\ arg[g].k \in Keys /\ arg[g].exp \in Nat /\ arg[g].exp > 0
      /\ sets + 1 \in 1..MaxSets
  BY Lru2Assumption DEF IInv, Locals, SetEnd, Counters
<1>3. /\ e \in Node /\ e.exp > 0 /\ e.v = sets + 1 /\ e.k = arg[g].k
  BY <1>2 DEF New, Node
<1>4. Inserts(e) BY <1>1, <1>3, SetInserts
<1> HIDE DEF e
<1>5. /\ sets' = sets + 1 /\ cleared' = cleared
      /\ latest' = [latest EXCEPT ![e.k] = sets + 1]
  BY <1>3 DEF SetEnd
<1>6. Versions' BY <1>1, <1>3, <1>4, <1>5, VersionsInserted
<1>7. Counters'
  <2>1. sets + 1 \in 0..MaxSets BY <1>2, Lru2Assumption
  <2>2. latest' \in [Keys -> 0..MaxSets] BY <1>1, <1>5, <2>1 DEF Counters
  <2> QED BY <1>1, <1>5, <2>1, <2>2 DEF Counters
<1>8. Fades
  <2>1. \A x \in Top' \cup Low' : x \in Top \cup Low \/ x = e BY <1>4 DEF Inserts, Others
  <2> QED BY <1>1, <1>3, <1>5, <2>1 DEF Fades, Counters
<1> QED BY <1>4, <1>6, <1>7, <1>8 DEF Inserts

(* Nothing older than the Clear that ends is left.                          *)
LEMMA ClearEndStep ==
  ASSUME IInv, NEW g \in Goroutines, ClearEnd(g)
  PROVE  Levels' /\ Counters' /\ Versions' /\ Fades
<1>1. Levels /\ Counters /\ Versions /\ Walks(g) BY DEF IInv, Walking
<1>2. /\ UNCHANGED storeVars /\ UNCHANGED <<sets, latest>>
      /\ cleared' = IF walked[g].mark > cleared THEN walked[g].mark ELSE cleared
      /\ pc[g] = "delete" /\ walked[g].keys = {}
  BY DEF ClearEnd
<1>3. Keeps BY <1>1, <1>2, UntouchedKeeps
<1>4. walked[g].mark \in 0..MaxSets BY DEF IInv, Locals
<1>5. \A e \in Top \cup Low : e.v > walked[g].mark
  <2>1. \A e \in Top \cup Low : e.k \in Keys BY <1>1, LiveTyped DEF Node
  <2>2. \A k \in Keys : ~(BucketOf[k] >= NBuckets) BY Lru2Assumption
  <2>3. walked[g].next = NBuckets BY <1>1, <1>2 DEF Walks
  <2> QED BY <1>1, <1>2, <2>1, <2>2, <2>3 DEF Walks
<1>6. cleared' <= sets /\ \A e \in Top \cup Low : e.v > cleared'
  BY <1>1, <1>2, <1>5 DEF Walks, Versions
<1>7. Versions' BY <1>1, <1>2, <1>3, <1>6, VersionsKept
<1>8. Counters' BY <1>1, <1>2, <1>4 DEF Counters
<1> QED BY <1>1, <1>2, <1>3, <1>7, <1>8 DEF Keeps, Counters, Fades

LEMMA StoreStep ==
  ASSUME IInv, [Next]_vars
  PROVE  Levels' /\ Counters' /\ Versions' /\ Fades
<1>1. ASSUME NEW g \in Goroutines, NEW k \in Keys, NEW ttl \in TTLs, SetBegin(g, k, ttl)
      PROVE  Levels' /\ Counters' /\ Versions' /\ Fades
  BY <1>1, KeepsStep DEF SetBegin
<1>2. ASSUME NEW g \in Goroutines, Collect(g)
      PROVE  Levels' /\ Counters' /\ Versions' /\ Fades
  BY <1>2, KeepsStep DEF Collect
<1>3. ASSUME NEW g \in Goroutines, ClearDelete(g)
      PROVE  Levels' /\ Counters' /\ Versions' /\ Fades
  <2>1. PICK k \in walked[g].keys : DeleteBoth(k) /\ latest' = [latest EXCEPT ![k] = 0]
    BY <1>3 DEF ClearDelete
  <2>2. k \in Keys BY DEF IInv, Locals
  <2>3. Removes(k) BY <2>1, <2>2, DeleteBothRemoves DEF IInv
  <2>4. UNCHANGED <<sets, cleared>> BY <1>3 DEF ClearDelete
  <2> QED BY <2>1, <2>2, <2>3, <2>4, RemovesStep
<1>4. ASSUME NEW k \in Keys, Delete(k)
      PROVE  Levels' /\ Counters' /\ Versions' /\ Fades
  <2>1. Removes(k) BY <1>4, DeleteBothRemoves DEF IInv, Delete
  <2> QED BY <1>4, <2>1, RemovesStep DEF Delete
<1>5. CASE SweepBegin BY <1>5, KeepsStep DEF SweepBegin
<1>6. CASE SweepCollect BY <1>6, KeepsStep DEF SweepCollect
<1>7. CASE SweepDelete
  <2>1. PICK k \in expired : DeleteBoth(k) BY <1>7 DEF SweepDelete
  <2>2. k \in Keys BY DEF IInv, Locals
  <2>3. Removes(k) BY <2>1, <2>2, DeleteBothRemoves DEF IInv
  <2>4. UNCHANGED <<sets, cleared, latest>> BY <1>7 DEF SweepDelete
  <2> QED BY <2>2, <2>3, <2>4, RemovesStep
<1>8. CASE Close BY <1>8, KeepsStep DEF Close
<1>9. CASE Tick BY <1>9, KeepsStep DEF Tick
<1>10. CASE UNCHANGED vars BY <1>10, KeepsStep DEF vars
<1> QED
  BY <1>1, <1>2, <1>3, <1>4, <1>5, <1>6, <1>7, <1>8, <1>9, <1>10, SetStep, GetStep, ClearEndStep
  DEF Next

(* The goroutines: a Clear of which nothing but the live entries changes.   *)
LEMMA WalksOn ==
  ASSUME IInv, Fades, Counters', NEW g \in Goroutines,
         pc'[g] = pc[g] \/ {pc[g], pc'[g]} \subseteq {"idle", "set"},
         walked'[g] = walked[g]
  PROVE  Walks(g)'
<1>1. Walks(g) /\ walked[g].mark \in 0..MaxSets /\ sets \in Nat /\ sets' \in Nat
  BY DEF IInv, Walking, Locals, Counters
<1>2. walked[g].mark <= sets' BY <1>1 DEF Walks, Fades
<1>3. /\ pc'[g] \in {"idle", "set"} => pc[g] \in {"idle", "set"}
      /\ pc'[g] \notin {"idle", "set"} => pc'[g] = pc[g]
  OBVIOUS
<1>4. ASSUME pc'[g] \in {"collect", "delete"}, NEW e \in Top' \cup Low'
      PROVE  e.v > walked[g].mark \/ BucketOf[e.k] >= walked[g].next \/ e.k \in walked[g].keys
  <2>1. CASE e \in Top \cup Low BY <1>1, <1>3, <1>4, <2>1 DEF Walks
  <2>2. CASE e \notin Top \cup Low
    <3>1. e.v = sets + 1 BY <2>2 DEF Fades
    <3> QED BY <1>1, <3>1 DEF Walks
  <2> QED BY <2>1, <2>2
<1> QED BY <1>1, <1>2, <1>3, <1>4 DEF Walks

LEMMA LiveKeysLevel ==
  ASSUME NEW cap, NEW s \in Level(Node, cap)
  PROVE  LiveKeys(s) \subseteq Keys /\ \A e \in LiveEntries(s) : e.k \in LiveKeys(s)
<1>1. \A e \in LiveEntries(s) : e.k \in LiveKeys(s) BY LiveInLevel DEF LiveKeys, LiveIn
<1>2. \A k \in LiveKeys(s) : Entry(s, k) \in LiveEntries(s) /\ Entry(s, k).k = k
  BY LiveInLevel DEF LiveKeys
<1>3. \A e \in LiveEntries(s) : e \in Node BY LiveInLevel
<1>4. \A k \in LiveKeys(s) : k \in Keys BY <1>2, <1>3 DEF Node
<1> QED BY <1>1, <1>4

(* A Clear walks a bucket: it adds to its keys those of the entries there.  *)
LEMMA CollectWalks ==
  ASSUME IInv, NEW g \in Goroutines, Collect(g)
  PROVE  /\ Walks(g)'
         /\ walked'[g] \in [next : 0..NBuckets, keys : SUBSET Keys, mark : 0..MaxSets]
<1> DEFINE w == walked[g]
           b == w.next
           u == walked'[g]
<1>1. /\ Levels /\ Walks(g) /\ Versions /\ sets \in 0..MaxSets
      /\ w \in [next : 0..NBuckets, keys : SUBSET Keys, mark : 0..MaxSets]
      /\ walked \in [Goroutines -> [next : 0..NBuckets, keys : SUBSET Keys, mark : 0..MaxSets]]
      /\ pc \in [Goroutines -> {"idle", "set", "collect", "delete"}]
  BY DEF IInv, Walking, Counters, Locals
<1>2. NBuckets \in Nat \ {0} /\ MaxSets \in Nat BY Lru2Assumption
<1>3. b \in Buckets
  <2>1. b \in Nat /\ b < NBuckets BY <1>1, <1>2 DEF Collect, Walks, NoWalk
  <2> QED BY <1>2, <2>1 DEF Buckets
<1>4. /\ pc[g] \in {"idle", "collect"}
      /\ u = [next |-> b + 1, keys |-> w.keys \cup LiveKeys(l1[b]) \cup LiveKeys(l2[b]),
              mark |-> IF pc[g] = "idle" THEN sets ELSE w.mark]
      /\ pc'[g] = IF b + 1 = NBuckets THEN "delete" ELSE "collect"
      /\ UNCHANGED <<storeVars, sets>>
  BY <1>1 DEF Collect
<1>5. l1[b] \in Level(Node, Cap1) /\ l2[b] \in Level(Node, Cap2) BY <1>1, <1>3 DEF Levels
<1>6. u.next = b + 1 /\ u.mark = (IF pc[g] = "idle" THEN sets ELSE w.mark)
      /\ w.keys \subseteq u.keys /\ LiveKeys(l1[b]) \cup LiveKeys(l2[b]) \subseteq u.keys
  BY <1>4
<1>7. u \in [next : 0..NBuckets, keys : SUBSET Keys, mark : 0..MaxSets]
  <2>1. b + 1 \in 0..NBuckets BY <1>2, <1>3 DEF Buckets
  <2>2. w.keys \cup LiveKeys(l1[b]) \cup LiveKeys(l2[b]) \in SUBSET Keys
    BY <1>1, <1>5, LiveKeysLevel
  <2>3. (IF pc[g] = "idle" THEN sets ELSE w.mark) \in 0..MaxSets BY <1>1
  <2> QED BY <1>4, <2>1, <2>2, <2>3
<1> HIDE DEF u
<1>8. Top' = Top /\ Low' = Low BY <1>1, <1>4, UntouchedKeeps DEF Keeps
<1>9. ASSUME NEW e \in Top \cup Low
      PROVE  e.v > u.mark \/ BucketOf[e.k] >= u.next \/ e.k \in u.keys
  <2>1. e.k \in Keys /\ BucketOf[e.k] \in Nat /\ b \in Nat
    BY <1>1, <1>2, <1>3, LiveTyped, BucketOfKey DEF Node, Buckets
  <2>2. PICK c \in Buckets : e \in LiveEntries(l1[c]) \/ e \in LiveEntries(l2[c])
    BY <1>9 DEF Top, Low, All
  <2>3. BucketOf[e.k] = c BY <1>1, <2>2 DEF Levels, Placed
  <2>4. CASE c = b BY <1>5, <1>6, <2>2, <2>4, LiveKeysLevel
  <2>5. CASE c # b
    <3>1. CASE pc[g] = "idle"
      <4>1. b = 0 BY <1>1, <3>1 DEF Walks, NoWalk
      <4> QED BY <1>6, <2>1, <2>3, <2>5, <4>1
    <3>2. CASE pc[g] = "collect"
      <4>1. e.v > w.mark \/ BucketOf[e.k] >= b \/ e.k \in w.keys BY <1>1, <3>2 DEF Walks
      <4> QED BY <1>6, <2>1, <2>3, <2>5, <3>2, <4>1
    <3> QED BY <1>4, <3>1, <3>2
  <2> QED BY <2>4, <2>5
<1>10. pc'[g] \notin {"idle", "set"} BY <1>4
<1>11. pc'[g] = "collect" => u.next < NBuckets
  BY <1>2, <1>3, <1>4, <1>6 DEF Buckets
<1>12. pc'[g] = "delete" => u.next = NBuckets BY <1>4, <1>6
<1>13. u.mark <= sets BY <1>1, <1>6 DEF Walks
<1> QED BY <1>4, <1>7, <1>8, <1>9, <1>10, <1>11, <1>12, <1>13 DEF Walks, u

(* A Clear deletes a key it has collected: no entry of the key is left.     *)
LEMMA ClearDeleteWalks ==
  ASSUME IInv, NEW g \in Goroutines, ClearDelete(g)
  PROVE  /\ Walks(g)'
         /\ walked'[g] \in [next : 0..NBuckets, keys : SUBSET Keys, mark : 0..MaxSets]
<1>1. /\ Levels /\ Walks(g)
      /\ walked \in [Goroutines -> [next : 0..NBuckets, keys : SUBSET Keys, mark : 0..MaxSets]]
  BY DEF IInv, Walking, Locals
<1>2. PICK k \in walked[g].keys :
        DeleteBoth(k) /\ walked' = [walked EXCEPT ![g].keys = @ \ {k}]
  BY DEF ClearDelete
<1>3. k \in Keys BY <1>1
<1>4. Removes(k) BY <1>1, <1>2, <1>3, DeleteBothRemoves
<1>5. /\ walked'[g].next = walked[g].next /\ walked'[g].mark = walked[g].mark
      /\ walked'[g].keys = walked[g].keys \ {k}
      /\ walked'[g] \in [next : 0..NBuckets, keys : SUBSET Keys, mark : 0..MaxSets]
  BY <1>1, <1>2
<1>6. pc' = pc /\ pc[g] = "delete" /\ sets' = sets BY DEF ClearDelete
<1>7. \A e \in Top' \cup Low' : e \in Top \cup Low /\ e.k # k BY <1>4 DEF Removes, Others
<1>8. \A e \in Top' \cup Low' : \/ e.v > walked'[g].mark
                                \/ BucketOf[e.k] >= walked'[g].next
                                \/ e.k \in walked'[g].keys
  BY <1>1, <1>5, <1>6, <1>7 DEF Walks
<1> QED BY <1>1, <1>5, <1>6, <1>8 DEF Walks

LEMMA WalkStep ==
  ASSUME IInv, [Next]_vars
  PROVE  Walking'
<1> SUFFICES ASSUME NEW h \in Goroutines PROVE Walks(h)' BY DEF Walking
<1>1. Counters' /\ Fades BY StoreStep
<1>2. /\ walked \in [Goroutines -> [next : 0..NBuckets, keys : SUBSET Keys, mark : 0..MaxSets]]
      /\ pc \in [Goroutines -> {"idle", "set", "collect", "delete"}]
  BY DEF IInv, Locals
<1>3. CASE UNCHANGED <<pc, walked>> BY <1>1, <1>3, WalksOn
<1>4. ASSUME NEW g \in Goroutines, NEW k \in Keys, NEW ttl \in TTLs, SetBegin(g, k, ttl)
      PROVE  Walks(h)'
  BY <1>1, <1>2, <1>4, WalksOn DEF SetBegin
<1>5. ASSUME NEW g \in Goroutines, SetEnd(g) PROVE Walks(h)'
  BY <1>1, <1>2, <1>5, WalksOn DEF SetEnd
<1>6. ASSUME NEW g \in Goroutines, Collect(g) PROVE Walks(h)'
  <2>1. CASE h = g BY <1>6, <2>1, CollectWalks
  <2>2. CASE h # g BY <1>1, <1>2, <1>6, <2>2, WalksOn DEF Collect
  <2> QED BY <2>1, <2>2
<1>7. ASSUME NEW g \in Goroutines, ClearDelete(g) PROVE Walks(h)'
  <2>1. CASE h = g BY <1>7, <2>1, ClearDeleteWalks
  <2>2. CASE h # g
    <3>1. pc' = pc /\ walked'[h] = walked[h] BY <1>2, <1>7, <2>2 DEF ClearDelete
    <3> QED BY <1>1, <3>1, WalksOn
  <2> QED BY <2>1, <2>2
<1>8. ASSUME NEW g \in Goroutines, ClearEnd(g) PROVE Walks(h)'
  <2>1. CASE h = g
    <3>1. pc'[h] = "idle" /\ walked'[h] = NoWalk BY <1>2, <1>8, <2>1 DEF ClearEnd
    <3> QED BY <1>1, <3>1 DEF Walks, NoWalk, Counters
  <2>2. CASE h # g BY <1>1, <1>2, <1>8, <2>2, WalksOn DEF ClearEnd
  <2> QED BY <2>1, <2>2
<1>9. CASE \E k \in Keys : Get(k) \/ Delete(k) BY <1>3, <1>9 DEF Get, Delete, callerVars
<1>10. CASE SweepBegin \/ SweepCollect \/ SweepDelete \/ Close \/ Tick \/ UNCHANGED vars
  BY <1>3, <1>10 DEF SweepBegin, SweepCollect, SweepDelete, Close, Tick, vars, callerVars
<1> QED BY <1>4, <1>5, <1>6, <1>7, <1>8, <1>9, <1>10 DEF Next

(* The rest of the state has its type.                                      *)
LEMMA SweepTyped ==
  ASSUME IInv, sweep # Waiting, expired' \subseteq Keys,
         IF expired' = {} THEN NextBucket ELSE UNCHANGED <<sweep, sweepTime>>
  PROVE  /\ sweep' \in 0..Waiting /\ sweepTime' \in 0..MaxClock
         /\ expired' # {} => sweep' # Waiting
<1>1. /\ NBuckets \in Nat /\ MaxClock \in Nat
      /\ sweep \in 0..Waiting /\ sweepTime \in 0..MaxClock
  BY Lru2Assumption DEF IInv, Locals
<1>2. CASE expired' = {} BY <1>1, <1>2 DEF NextBucket, Waiting
<1>3. CASE expired' # {} BY <1>1, <1>3
<1> QED BY <1>2, <1>3

LEMMA LocalsStep ==
  ASSUME IInv, [Next]_vars
  PROVE  Locals'
<1> USE Lru2Assumption
<1>0. Locals /\ Levels BY DEF IInv
<1>1. ASSUME NEW g \in Goroutines, NEW k \in Keys, NEW ttl \in TTLs, SetBegin(g, k, ttl)
      PROVE  Locals'
  <2>1. ttl \in Nat /\ ttl > 0 /\ clock \in Nat BY <1>0 DEF Locals
  <2>2. clock + ttl \in Nat /\ clock + ttl > 0 BY <2>1
  <2>3. arg' \in [Goroutines -> [k : Keys \cup {NoKey}, exp : Nat]]
    BY <1>0, <1>1, <2>2 DEF Locals, SetBegin
  <2>4. \A h \in Goroutines : pc'[h] = "set" => arg'[h].k \in Keys /\ arg'[h].exp > 0
    BY <1>0, <1>1, <2>2 DEF Locals, SetBegin
  <2>5. pc' \in [Goroutines -> {"idle", "set", "collect", "delete"}]
    BY <1>0, <1>1 DEF Locals, SetBegin
  <2> QED BY <1>0, <1>1, <2>3, <2>4, <2>5 DEF Locals, SetBegin, cleanerVars
<1>2. ASSUME NEW g \in Goroutines, SetEnd(g) PROVE Locals'
  <2>1. NoArg \in [k : Keys \cup {NoKey}, exp : Nat] BY DEF NoArg
  <2>2. /\ arg' \in [Goroutines -> [k : Keys \cup {NoKey}, exp : Nat]]
        /\ pc' \in [Goroutines -> {"idle", "set", "collect", "delete"}]
        /\ \A h \in Goroutines : pc'[h] = "set" => arg'[h].k \in Keys /\ arg'[h].exp > 0
    BY <1>0, <1>2, <2>1 DEF Locals, SetEnd
  <2> QED BY <1>0, <1>2, <2>2 DEF Locals, SetEnd, cleanerVars
<1>3. ASSUME NEW g \in Goroutines, Collect(g) PROVE Locals'
  <2>1. walked'[g] \in [next : 0..NBuckets, keys : SUBSET Keys, mark : 0..MaxSets]
    BY <1>3, CollectWalks
  <2>2. \E x : walked' = [walked EXCEPT ![g] = x] BY <1>3 DEF Collect
  <2>3. walked' \in [Goroutines -> [next : 0..NBuckets, keys : SUBSET Keys, mark : 0..MaxSets]]
    BY <1>0, <2>1, <2>2 DEF Locals
  <2>4. /\ pc' \in [Goroutines -> {"idle", "set", "collect", "delete"}] /\ arg' = arg
        /\ \A h \in Goroutines : pc'[h] = "set" => pc[h] = "set"
    BY <1>0, <1>3 DEF Locals, Collect
  <2> QED BY <1>0, <1>3, <2>3, <2>4 DEF Locals, Collect, cleanerVars
<1>4. ASSUME NEW g \in Goroutines, ClearDelete(g) PROVE Locals'
  <2>1. walked'[g] \in [next : 0..NBuckets, keys : SUBSET Keys, mark : 0..MaxSets]
    BY <1>4, ClearDeleteWalks
  <2>2. \E x : walked' = [walked EXCEPT ![g] = x] BY <1>4 DEF ClearDelete
  <2>3. walked' \in [Goroutines -> [next : 0..NBuckets, keys : SUBSET Keys, mark : 0..MaxSets]]
    BY <1>0, <2>1, <2>2 DEF Locals
  <2> QED BY <1>0, <1>4, <2>3 DEF Locals, ClearDelete, cleanerVars
<1>5. ASSUME NEW g \in Goroutines, ClearEnd(g) PROVE Locals'
  <2>1. NoWalk \in [next : 0..NBuckets, keys : SUBSET Keys, mark : 0..MaxSets] BY DEF NoWalk
  <2>2. /\ walked' \in [Goroutines -> [next : 0..NBuckets, keys : SUBSET Keys, mark : 0..MaxSets]]
        /\ pc' \in [Goroutines -> {"idle", "set", "collect", "delete"}] /\ arg' = arg
        /\ \A h \in Goroutines : pc'[h] = "set" => pc[h] = "set"
    BY <1>0, <1>5, <2>1 DEF Locals, ClearEnd
  <2> QED BY <1>0, <1>5, <2>2 DEF Locals, ClearEnd, cleanerVars
<1>6. ASSUME NEW k \in Keys, Get(k) \/ Delete(k) PROVE Locals'
  BY <1>0, <1>6 DEF Locals, Get, Delete, callerVars, cleanerVars
<1>7. CASE SweepBegin
  <2>1. sweep' \in 0..Waiting /\ sweep' # Waiting BY <1>7 DEF SweepBegin, Waiting
  <2> QED BY <1>0, <1>7, <2>1 DEF Locals, SweepBegin, callerVars
<1>8. CASE SweepCollect
  <2>1. \A cap : \A s \in Level(Node, cap) : ExpiredIn(s) \subseteq Keys
    BY LiveInLevel DEF ExpiredIn, Node
  <2>2. sweep \in Buckets BY <1>0, <1>8 DEF Locals, SweepCollect, Waiting, Buckets
  <2>3. expired' \subseteq Keys BY <1>0, <1>8, <2>1, <2>2 DEF SweepCollect, Levels
  <2>4. /\ sweep' \in 0..Waiting /\ sweepTime' \in 0..MaxClock
        /\ expired' # {} => sweep' # Waiting
    BY <1>8, <2>3, SweepTyped DEF SweepCollect
  <2> QED BY <1>0, <1>8, <2>3, <2>4 DEF Locals, SweepCollect, callerVars
<1>9. CASE SweepDelete
  <2>1. expired' \subseteq Keys /\ sweep # Waiting BY <1>0, <1>9 DEF Locals, SweepDelete
  <2>2. /\ sweep' \in 0..Waiting /\ sweepTime' \in 0..MaxClock
        /\ expired' # {} => sweep' # Waiting
    BY <1>9, <2>1, SweepTyped DEF SweepDelete
  <2> QED BY <1>0, <1>9, <2>1, <2>2 DEF Locals, SweepDelete, callerVars
<1>10. CASE Close BY <1>0, <1>10 DEF Locals, Close, callerVars
<1>11. CASE Tick
  <2>1. clock' \in 0..MaxClock BY <1>0, <1>11 DEF Locals, Tick
  <2> QED BY <1>0, <1>11, <2>1 DEF Locals, Tick, callerVars, cleanerVars
<1>12. CASE UNCHANGED vars BY <1>0, <1>12 DEF Locals, vars, callerVars, cleanerVars
<1> QED
  BY <1>1, <1>2, <1>3, <1>4, <1>5, <1>6, <1>7, <1>8, <1>9, <1>10, <1>11, <1>12 DEF Next

(* Every reachable state of the store has the inductive invariant.          *)
THEOREM Invariance == Spec => []IInv
<1>1. IInv /\ [Next]_vars => IInv' BY StoreStep, WalkStep, LocalsStep DEF IInv
<1> QED BY InitIInv, <1>1, PTL DEF Spec

-----------------------------------------------------------------------------
(* The properties of Lru2 follow from the invariant.                        *)
LEMMA KeyIsPlaced ==
  ASSUME Levels, NEW b \in Buckets, NEW e
  PROVE  /\ e \in LiveEntries(l1[b]) => e \in Top /\ e.k \in Keys /\ BucketOf[e.k] = b
         /\ e \in LiveEntries(l2[b]) => e \in Low /\ e.k \in Keys /\ BucketOf[e.k] = b
<1>1. /\ e \in LiveEntries(l1[b]) => e \in Top /\ BucketOf[e.k] = b
      /\ e \in LiveEntries(l2[b]) => e \in Low /\ BucketOf[e.k] = b
  BY DEF Levels, Placed, Top, Low, All
<1>2. e \in Top \cup Low => e.k \in Keys BY LiveTyped DEF Node
<1> QED BY <1>1, <1>2

(* A live entry of a key is the one its bucket holds of it.                 *)
LEMMA LiveAtKey ==
  ASSUME Levels, NEW e
  PROVE  /\ e \in Top => LiveIn(l1[BucketOf[e.k]], e.k)
         /\ e \in Low => LiveIn(l2[BucketOf[e.k]], e.k)
<1>1. \A b \in Buckets : l1[b] \in Level(Node, Cap1) /\ l2[b] \in Level(Node, Cap2) BY DEF Levels
<1>2. ASSUME e \in Top PROVE LiveIn(l1[BucketOf[e.k]], e.k)
  <2>1. PICK b \in Buckets : e \in LiveEntries(l1[b]) BY <1>2 DEF Top, All
  <2> QED BY <1>1, <2>1, KeyIsPlaced, LiveInLevel
<1>3. ASSUME e \in Low PROVE LiveIn(l2[BucketOf[e.k]], e.k)
  <2>1. PICK b \in Buckets : e \in LiveEntries(l2[b]) BY <1>3 DEF Low, All
  <2> QED BY <1>1, <2>1, KeyIsPlaced, LiveInLevel
<1> QED BY <1>2, <1>3

LEMMA TypesHold == IInv => TypeOK
<1> SUFFICES ASSUME IInv PROVE TypeOK OBVIOUS
<1>1. \A b \in Buckets : LevelOK(l1[b], Cap1) /\ LevelOK(l2[b], Cap2)
  BY Lru2Assumption, LevelIsOK DEF IInv, Levels
<1>2. \A g \in Goroutines :
        /\ arg[g].k \in Keys \cup {NoKey} /\ arg[g].exp \in Nat
        /\ walked[g].next \in 0..NBuckets /\ walked[g].keys \subseteq Keys
        /\ walked[g].mark \in 0..MaxSets
  BY DEF IInv, Locals
<1>3. called \subseteq 1..MaxSets
  <2>1. called \subseteq 1..sets /\ sets \in 0..MaxSets BY DEF IInv, Versions, Counters
  <2>2. MaxSets \in Nat BY Lru2Assumption
  <2> QED BY <2>1, <2>2
<1> QED BY <1>1, <1>2, <1>3 DEF IInv, Locals, Counters, TypeOK

(* Of a key that both levels hold, the level 1 copy is the newer one, which *)
(* is what makes Get prefer the last Set.                                   *)
THEOREM NewestOnTop == Spec => []OlderBelow
<1>1. IInv => OlderBelow
  <2> SUFFICES ASSUME IInv, NEW k \in Keys,
                      LiveIn(l1[BucketOf[k]], k), LiveIn(l2[BucketOf[k]], k)
               PROVE  Entry(l1[BucketOf[k]], k).v > Entry(l2[BucketOf[k]], k).v
    BY TypesHold DEF OlderBelow
  <2> DEFINE e == Entry(l1[BucketOf[k]], k)
             f == Entry(l2[BucketOf[k]], k)
  <2>1. Levels /\ Versions BY DEF IInv
  <2>2. e \in Top /\ e.k = k /\ f \in Low /\ f.k = k /\ e \in Node /\ f \in Node
    BY <2>1, LiveOfKey DEF Levels, Top, Low
  <2> HIDE DEF e, f
  <2>3. f.v < e.v /\ e.v \in Int /\ f.v \in Int BY <2>1, <2>2 DEF Versions, Node
  <2>4. e.v > f.v BY <2>3
  <2> QED BY <2>4 DEF e, f
<1> QED BY <1>1, Invariance, PTL

(* No value given to the callback is in the store any more.                 *)
THEOREM EvictedIsGone == Spec => []CalledGone
<1>1. IInv => CalledGone BY LiveIsAll DEF IInv, Versions, CalledGone
<1> QED BY <1>1, Invariance, PTL

(* Get serves an older value than the last Set only if that one is lost.    *)
THEOREM StaleMeansLost == Spec => []StaleOnlyAfterLoss
<1>1. IInv => StaleOnlyAfterLoss
  <2> SUFFICES ASSUME IInv, NEW k \in Keys, NEW e \in Serve(k), e.v # latest[k]
               PROVE  latest[k] \in called /\ e.v < latest[k]
    BY DEF StaleOnlyAfterLoss
  <2>1. Levels /\ Versions /\ Counters BY DEF IInv
  <2>2. BucketOf[k] \in Buckets BY BucketOfKey
  <2>3. e.k = k /\ e \in (IF LiveIn(l1[BucketOf[k]], k) THEN Top ELSE Low)
    BY <2>1, <2>2, KeyIsPlaced DEF Serve
  <2>4. ~LiveIn(l1[BucketOf[k]], k) /\ e \in Low BY <2>1, <2>3 DEF Versions
  <2>5. \A f \in Top : f.k # k BY <2>1, <2>4, LiveAtKey
  <2>6. latest[k] \in called BY <2>1, <2>3, <2>4, <2>5 DEF Versions
  <2>7. e.v <= latest[k] /\ e.v \in Int /\ latest[k] \in Int
    BY <2>1, <2>3, <2>4, LiveTyped DEF Versions, Counters, Node
  <2> QED BY <2>6, <2>7
<1> QED BY <1>1, Invariance, PTL

(* A deleted key has no entry until it is set again.                        *)
THEOREM DeletedStaysAway == Spec => []NoResurrection
<1>1. IInv => NoResurrection
  <2> SUFFICES ASSUME IInv, NEW k \in Keys, latest[k] = 0, NEW e \in Top \cup Low, e.k = k
               PROVE  FALSE
    BY LiveIsAll DEF NoResurrection
  <2>1. e.v <= 0 /\ e.v \in 1..MaxSets BY LiveTyped DEF IInv, Versions, Node
  <2> QED BY <2>1, Lru2Assumption
<1> QED BY <1>1, Invariance, PTL

(* Nothing written before a Clear began is left when it has returned.       *)
THEOREM ClearLeavesNothing == Spec => []ClearComplete
<1>1. IInv => ClearComplete BY LiveIsAll DEF IInv, Versions, ClearComplete
<1> QED BY <1>1, Invariance, PTL

-----------------------------------------------------------------------------
(* The level itself, as LinkedLevel keeps it: an array of nodes and a       *)
(* doubly linked list of indices.  Its state has nothing to do with that of *)
(* Lru2; what they share is the keys.                                       *)
Arrays == [0..Cap -> [Dirs -> 0..Cap]]

(* b is a but for the link of i in direction dir, which leads to to.        *)
Written(a, b, i, dir, to) ==
  /\ b \in Arrays
  /\ \A x \in 0..Cap : \A y \in Dirs :
       b[x][y] = IF x = i /\ y = dir THEN to ELSE a[x][y]

LEMMA LinkAt ==
  ASSUME NEW d \in Arrays, NEW i \in 0..Cap, NEW dir \in Dirs, NEW to \in 0..Cap
  PROVE  Written(d, Link(d, i, dir, to), i, dir, to)
BY DEF Link, Arrays, Written

(* What the six assignments of adjust amount to: i leaves the place between *)
(* before and behind and comes before first.                                *)
Adjusted(d, z, i, f, t, before, behind, first) ==
  /\ z \in Arrays
  /\ \A x \in 0..Cap :
       /\ z[x][t] = IF x = 0 THEN i ELSE IF x = i THEN first
                    ELSE IF x = before THEN behind ELSE d[x][t]
       /\ z[x][f] = IF x = i THEN 0 ELSE IF x = first THEN i
                    ELSE IF x = behind THEN before ELSE d[x][f]

LEMMA AdjustAt ==
  ASSUME NEW d \in Arrays, NEW i \in 1..Cap, NEW f \in Dirs, NEW t \in Dirs, f # t,
         NEW before \in 1..Cap, NEW behind \in 0..Cap, NEW first \in 1..Cap,
         d[i][f] = before, d[i][t] = behind, d[0][t] = first,
         before # i, behind # i, first # i, behind # first
  PROVE  Adjusted(d, Adjust(d, i, f, t), i, f, t, before, behind, first)
<1> DEFINE a == Link(d, behind, f, before)
           b == Link(a, before, t, behind)
           c == Link(b, i, f, 0)
           g == Link(c, i, t, first)
           h == Link(g, first, f, i)
           z == Link(h, 0, t, i)
<1>0. Cap \in Nat \ {0} /\ 0 \in 0..Cap /\ before \in 0..Cap /\ first \in 0..Cap /\ i \in 0..Cap
  BY LinkedAssumption
<1>1. Written(d, a, behind, f, before) BY <1>0, LinkAt
<1> HIDE DEF a
<1>2. Written(a, b, before, t, behind)
  <2>1. a \in Arrays BY <1>1 DEF Written
  <2> QED BY <1>0, <2>1, LinkAt
<1> HIDE DEF b
<1>3. Written(b, c, i, f, 0)
  <2>1. b \in Arrays BY <1>2 DEF Written
  <2> QED BY <1>0, <2>1, LinkAt
<1> HIDE DEF c
<1>4. Written(c, g, i, t, first)
  <2>1. c \in Arrays BY <1>3 DEF Written
  <2> QED BY <1>0, <2>1, LinkAt
<1> HIDE DEF g
<1>5. Written(g, h, first, f, i)
  <2>1. g \in Arrays BY <1>4 DEF Written
  <2> QED BY <1>0, <2>1, LinkAt
<1> HIDE DEF h
<1>6. Written(h, z, 0, t, i)
  <2>1. h \in Arrays BY <1>5 DEF Written
  <2> QED BY <1>0, <2>1, LinkAt
<1> HIDE DEF z
<1>7. Adjust(d, i, f, t) = z
  <2>1. a[i][f] = before /\ a[i][t] = behind BY <1>0, <1>1 DEF Written
  <2>2. b[0][t] = first BY <1>0, <1>1, <1>2 DEF Written
  <2>3. g[0][t] = first BY <1>0, <2>2, <1>3, <1>4 DEF Written
  <2>4. d[i][f] # 0 BY <1>0
  <2> QED BY <2>1, <2>2, <2>3, <2>4 DEF Adjust, a, b, c, g, h, z
<1>8. ASSUME NEW x \in 0..Cap
      PROVE  /\ z[x][t] = IF x = 0 THEN i ELSE IF x = i THEN first
                          ELSE IF x = before THEN behind ELSE d[x][t]
             /\ z[x][f] = IF x = i THEN 0 ELSE IF x = first THEN i
                          ELSE IF x = behind THEN before ELSE d[x][f]
  BY <1>0, <1>1, <1>2, <1>3, <1>4, <1>5, <1>6 DEF Written
<1> QED BY <1>6, <1>7, <1>8 DEF Written, Adjusted

(* An order of the first n indices.                                         *)
Orders(n) ==
  {s \in [1..n -> 1..n] : /\ \A i, j \in 1..n : s[i] = s[j] => i = j
                          /\ \A x \in 1..n : \E i \in 1..n : s[i] = x}

(* The sentinel stands before the first and behind the last.                *)
Place(s, n, i) == IF i \in 1..n THEN s[i] ELSE 0

(* The links of d are those of s, t leading from one to the next.           *)
Chained(d, s, n, f, t) ==
  \A i \in 0..n : /\ d[Place(s, n, i)][t] = Place(s, n, i + 1)
                  /\ d[Place(s, n, i + 1)][f] = Place(s, n, i)

(* s with its j-th index taken out and put first.                           *)
First(s, n, j) ==
  [x \in 1..n |-> IF x = 1 THEN s[j] ELSE IF x <= j THEN s[x - 1] ELSE s[x]]

LEMMA FirstOrders ==
  ASSUME NEW n \in Nat, NEW s \in Orders(n), NEW j \in 1..n
  PROVE  First(s, n, j) \in Orders(n)
<1> DEFINE q == First(s, n, j)
<1>1. s \in [1..n -> 1..n] /\ \A x, y \in 1..n : s[x] = s[y] => x = y BY DEF Orders
<1>2. \A x \in 1..n : q[x] = IF x = 1 THEN s[j] ELSE IF x <= j THEN s[x - 1] ELSE s[x]
  BY DEF First
<1>3. q \in [1..n -> 1..n]
  <2>1. \A x \in 1..n : x # 1 => x - 1 \in 1..n BY <1>1
  <2> QED BY <1>1, <2>1 DEF First
<1> HIDE DEF q
<1>4. ASSUME NEW x \in 1..n, NEW y \in 1..n, q[x] = q[y] PROVE x = y
  <2> DEFINE From(z) == IF z = 1 THEN j ELSE IF z <= j THEN z - 1 ELSE z
  <2>1. From(x) \in 1..n /\ From(y) \in 1..n OBVIOUS
  <2>2. q[x] = s[From(x)] /\ q[y] = s[From(y)] BY <1>2
  <2>3. From(x) = From(y) BY <1>1, <1>4, <2>1, <2>2
  <2> QED BY <2>3
<1>5. ASSUME NEW x \in 1..n PROVE \E y \in 1..n : q[y] = x
  <2>1. PICK i \in 1..n : s[i] = x BY DEF Orders
  <2>2. CASE i = j
    <3>1. 1 \in 1..n BY <1>1
    <3> QED BY <1>2, <2>1, <2>2, <3>1
  <2>3. CASE i < j
    <3>1. i + 1 \in 1..n /\ i + 1 # 1 /\ i + 1 <= j /\ (i + 1) - 1 = i BY <2>3
    <3> QED BY <1>2, <2>1, <3>1
  <2>4. CASE i > j BY <1>2, <2>1, <2>4
  <2> QED BY <2>2, <2>3, <2>4
<1>6. q \in Orders(n) BY <1>3, <1>4, <1>5 DEF Orders
<1> QED BY <1>6 DEF q

LEMMA OrderOf ==
  ASSUME NEW n \in 0..Cap, NEW s \in Orders(n)
  PROVE  /\ \A i \in 1..n : Place(s, n, i) = s[i] /\ s[i] \in 1..n /\ s[i] \in 1..Cap
         /\ Place(s, n, 0) = 0 /\ Place(s, n, n + 1) = 0
         /\ \A i \in 0..(n + 1) : Place(s, n, i) \in 0..Cap
         /\ \A i, j \in 1..n : s[i] = s[j] => i = j
<1>1. s \in [1..n -> 1..n] /\ \A x, y \in 1..n : s[x] = s[y] => x = y BY DEF Orders
<1>2. Cap \in Nat BY LinkedAssumption
<1>3. \A i \in 1..n : s[i] \in 1..n /\ s[i] \in 1..Cap BY <1>1, <1>2
<1> QED BY <1>1, <1>2, <1>3 DEF Place

(* adjust moves the j-th index of the list to its t end.                    *)
LEMMA AdjustMoves ==
  ASSUME NEW d \in Arrays, NEW n \in 0..Cap, NEW s \in Orders(n), NEW j \in 1..n,
         NEW f \in Dirs, NEW t \in Dirs, f # t, Chained(d, s, n, f, t)
  PROVE  /\ Adjust(d, s[j], f, t) \in Arrays
         /\ Chained(Adjust(d, s[j], f, t), First(s, n, j), n, f, t)
<1> DEFINE q == First(s, n, j)
           z == Adjust(d, s[j], f, t)
           behind == Place(s, n, j + 1)
<1>1. \A i \in 1..n : Place(s, n, i) = s[i] /\ s[i] \in 1..n /\ s[i] \in 1..Cap
  BY OrderOf
<1>2. \A i, l \in 1..n : s[i] = s[l] => i = l BY OrderOf
<1>3. Place(s, n, 0) = 0 /\ Place(s, n, n + 1) = 0 BY OrderOf
<1>4. n \in Nat /\ Cap \in Nat BY LinkedAssumption
<1>5. \A i \in 0..n : /\ d[Place(s, n, i)][t] = Place(s, n, i + 1)
                      /\ d[Place(s, n, i + 1)][f] = Place(s, n, i)
  BY DEF Chained
<1>6. q \in Orders(n) BY FirstOrders, <1>4
<1>7. /\ Place(q, n, 0) = 0 /\ Place(q, n, n + 1) = 0 /\ Place(q, n, 1) = s[j]
      /\ \A x \in 1..n : x # 1 => Place(q, n, x) = IF x <= j THEN s[x - 1] ELSE s[x]
  <2>1. /\ Place(q, n, 0) = 0 /\ Place(q, n, n + 1) = 0
        /\ \A x \in 1..n : Place(q, n, x) = q[x]
    BY <1>6, OrderOf
  <2> QED BY <1>4, <2>1 DEF First
<1> HIDE DEF q
<1>8. CASE j = 1
  <2>1. d[s[j]][f] = 0
    <3>1. 0 \in 0..n /\ Place(s, n, 0 + 1) = s[j] BY <1>1, <1>4, <1>8
    <3> QED BY <1>3, <1>5, <3>1
  <2>2. z = d BY <2>1 DEF Adjust
  <2>3. q = s
    <3>1. s \in [1..n -> 1..n] BY DEF Orders
    <3>2. \A x \in 1..n : x <= 1 => x = 1 BY <1>4
    <3>3. q = [x \in 1..n |-> s[x]] BY <1>8, <3>2 DEF q, First
    <3> QED BY <3>1, <3>3
  <2> QED BY <2>2, <2>3 DEF q
<1>9. CASE j > 1
  <2>1. /\ s[j - 1] \in 1..Cap /\ behind \in 0..Cap /\ s[1] \in 1..Cap
    BY <1>1, <1>3, <1>4, <1>9, OrderOf
  <2>2. d[s[j]][f] = s[j - 1] /\ d[s[j]][t] = behind /\ d[0][t] = s[1]
    <3>1. /\ Place(s, n, j - 1) = s[j - 1] /\ Place(s, n, (j - 1) + 1) = s[j] /\ Place(s, n, j) = s[j]
          /\ Place(s, n, 0 + 1) = s[1]
      BY <1>1, <1>4, <1>9
    <3>2. j - 1 \in 0..n /\ j \in 0..n /\ 0 \in 0..n BY <1>4, <1>9
    <3> QED BY <1>3, <1>5, <3>1, <3>2
  <2>3. s[j - 1] # s[j] /\ behind # s[j] /\ s[1] # s[j] /\ behind # s[1]
    <3>1. j - 1 # j /\ j - 1 \in 1..n /\ 1 \in 1..n BY <1>4, <1>9
    <3>2. CASE j = n BY <1>1, <1>2, <1>3, <1>9, <3>1, <3>2
    <3>3. CASE j # n
      <4>1. j + 1 \in 1..n /\ j + 1 # j /\ j + 1 # 1 BY <1>4, <3>3
      <4>2. behind = s[j + 1] BY <1>1, <4>1
      <4> QED BY <1>2, <1>9, <3>1, <4>1, <4>2
    <3> QED BY <3>2, <3>3
  <2> HIDE DEF behind
  <2>4. Adjusted(d, z, s[j], f, t, s[j - 1], behind, s[1])
    BY <1>1, <2>1, <2>2, <2>3, AdjustAt
  <2> HIDE DEF z
  <2>5. ASSUME NEW i \in 0..n
        PROVE  /\ z[Place(q, n, i)][t] = Place(q, n, i + 1)
               /\ z[Place(q, n, i + 1)][f] = Place(q, n, i)
    <3>0. 0 \in 0..Cap /\ (0 \notin 1..Cap) BY <1>4
    <3>1. CASE i = 0
      <4>1. Place(q, n, i) = 0 /\ Place(q, n, i + 1) = s[j] BY <1>7, <3>1
      <4>2. s[j] \in 0..Cap /\ s[j] # 0 BY <1>1, <1>4
      <4> QED BY <2>4, <3>0, <4>1, <4>2 DEF Adjusted
    <3>2. CASE i = 1
      <4>1. Place(q, n, i) = s[j] /\ Place(q, n, i + 1) = s[1]
        <5>1. 2 \in 1..n /\ 2 # 1 /\ 2 <= j /\ 2 - 1 = 1 /\ i + 1 = 2 BY <1>4, <1>9, <3>2
        <5> QED BY <1>7, <3>2, <5>1
      <4>2. s[j] \in 0..Cap /\ s[1] \in 0..Cap /\ s[j] # 0 BY <1>1, <1>4, <2>1
      <4> QED BY <2>3, <2>4, <4>1, <4>2 DEF Adjusted
    <3>3. CASE i > 1 /\ i < j
      <4>1. Place(q, n, i) = s[i - 1] /\ Place(q, n, i + 1) = s[i]
        <5>1. i \in 1..n /\ i + 1 \in 1..n /\ i # 1 /\ i + 1 # 1 /\ i <= j /\ i + 1 <= j
              /\ (i + 1) - 1 = i
          BY <1>4, <3>3
        <5> QED BY <1>7, <5>1
      <4>2. /\ s[i - 1] \in 1..Cap /\ s[i] \in 1..Cap
            /\ d[s[i - 1]][t] = s[i] /\ d[s[i]][f] = s[i - 1]
        <5>1. i \in 1..n /\ i - 1 \in 1..n /\ i - 1 \in 0..n /\ (i - 1) + 1 = i BY <1>4, <3>3
        <5> QED BY <1>1, <1>5, <5>1
      <4>3. s[i - 1] # s[j] /\ s[i - 1] # s[j - 1] /\ s[i] # s[j] /\ s[i] # s[1]
        <5>1. /\ i \in 1..n /\ i - 1 \in 1..n /\ j - 1 \in 1..n /\ 1 \in 1..n
              /\ i # j /\ i # 1 /\ i - 1 # j /\ i - 1 # j - 1
          BY <1>4, <3>3
        <5> QED BY <1>2, <5>1
      <4>4. s[i] # behind
        <5>1. CASE j = n BY <1>3, <1>4, <4>2, <5>1 DEF behind
        <5>2. CASE j # n
          <6>1. j + 1 \in 1..n /\ i \in 1..n /\ i # j + 1 BY <1>4, <3>3, <5>2
          <6> QED BY <1>1, <1>2, <6>1 DEF behind
        <5> QED BY <5>1, <5>2
      <4>5. s[i - 1] \in 0..Cap /\ s[i] \in 0..Cap /\ s[i - 1] # 0 BY <1>4, <4>2
      <4> QED BY <2>4, <4>1, <4>2, <4>3, <4>4, <4>5 DEF Adjusted
    <3>4. CASE i = j
      <4>1. Place(q, n, i) = s[j - 1]
        <5>1. i \in 1..n /\ i # 1 /\ i <= j BY <1>4, <1>9, <3>4
        <5> QED BY <1>7, <3>4, <5>1
      <4>2. Place(q, n, i + 1) = behind
        <5>1. CASE j = n BY <1>3, <1>7, <3>4, <5>1 DEF behind
        <5>2. CASE j # n
          <6>1. j + 1 \in 1..n /\ j + 1 # 1 /\ ~ (j + 1 <= j) BY <1>4, <5>2
          <6> QED BY <1>1, <1>7, <3>4, <6>1 DEF behind
        <5> QED BY <5>1, <5>2
      <4>3. s[j - 1] \in 0..Cap /\ s[j - 1] # 0 BY <1>4, <2>1
      <4> QED BY <2>1, <2>3, <2>4, <4>1, <4>2, <4>3 DEF Adjusted
    <3>5. CASE i > j
      <4>1. Place(q, n, i) = s[i] /\ Place(q, n, i + 1) = Place(s, n, i + 1)
        <5>1. i \in 1..n /\ i # 1 /\ ~ (i <= j) BY <1>4, <1>9, <3>5
        <5>2. CASE i = n BY <1>3, <1>7, <5>1, <5>2
        <5>3. CASE i # n
          <6>1. i + 1 \in 1..n /\ i + 1 # 1 /\ ~ (i + 1 <= j) BY <1>4, <1>9, <3>5, <5>3
          <6> QED BY <1>1, <1>7, <5>1, <6>1
        <5> QED BY <5>2, <5>3
      <4>2. i \in 1..n /\ Place(s, n, i) = s[i] /\ s[i] \in 1..Cap
        <5>1. i \in 1..n BY <1>4, <3>5
        <5> QED BY <1>1, <5>1
      <4>3. d[s[i]][t] = Place(s, n, i + 1) /\ d[Place(s, n, i + 1)][f] = s[i] BY <1>5, <4>2
      <4>4. s[i] # s[j] /\ s[i] # s[j - 1]
        <5>1. i # j /\ i # j - 1 /\ j - 1 \in 1..n BY <1>4, <1>9, <3>5
        <5> QED BY <1>2, <4>2, <5>1
      <4>5. Place(s, n, i + 1) \in 0..Cap
        <5>1. i + 1 \in 0..(n + 1) BY <1>4
        <5> QED BY <5>1, OrderOf
      <4>6. Place(s, n, i + 1) # s[j] /\ Place(s, n, i + 1) # s[1] /\ Place(s, n, i + 1) # behind
        <5>1. /\ i + 1 # j /\ i + 1 # 1 /\ i + 1 # j + 1 /\ 1 \in 1..n
              /\ j # n /\ j + 1 \in 1..n
          BY <1>4, <1>9, <3>5
        <5>2. behind = s[j + 1] /\ behind # 0 BY <1>1, <1>4, <5>1 DEF behind
        <5>3. CASE i = n BY <1>1, <1>3, <1>4, <2>1, <5>2, <5>3
        <5>4. CASE i # n
          <6>1. i + 1 \in 1..n BY <1>4, <5>4
          <6> QED BY <1>1, <1>2, <5>1, <5>2, <6>1
        <5> QED BY <5>3, <5>4
      <4>7. s[i] \in 0..Cap /\ s[i] # 0 BY <1>4, <4>2
      <4> QED BY <2>4, <4>1, <4>3, <4>4, <4>5, <4>6, <4>7 DEF Adjusted
    <3> QED BY <1>9, <3>1, <3>2, <3>3, <3>4, <3>5
  <2>6. z \in Arrays BY <2>4 DEF Adjusted
  <2>7. Chained(z, q, n, f, t) BY <2>5 DEF Chained
  <2> QED BY <2>6, <2>7 DEF q, z
<1> QED BY <1>8, <1>9 DEF q, z

(* s from its last index to its first.                                      *)
Back(s, n) == [x \in 1..n |-> s[n + 1 - x]]

LEMMA BackOrders ==
  ASSUME NEW n \in 0..Cap, NEW s \in Orders(n)
  PROVE  /\ Back(s, n) \in Orders(n)
         /\ \A x \in 0..(n + 1) : Place(Back(s, n), n, x) = Place(s, n, n + 1 - x)
<1> DEFINE q == Back(s, n)
<1>0. n \in Nat BY LinkedAssumption
<1>1. s \in [1..n -> 1..n] /\ \A x, y \in 1..n : s[x] = s[y] => x = y BY DEF Orders
<1>2. \A x \in 1..n : n + 1 - x \in 1..n /\ n + 1 - (n + 1 - x) = x BY <1>0
<1>3. q \in [1..n -> 1..n] BY <1>1, <1>2 DEF Back
<1>4. \A x \in 1..n : q[x] = s[n + 1 - x] BY DEF Back
<1> HIDE DEF q
<1>5. ASSUME NEW x \in 1..n, NEW y \in 1..n, q[x] = q[y] PROVE x = y
  <2>1. n + 1 - x = n + 1 - y BY <1>1, <1>2, <1>4, <1>5
  <2> QED BY <1>0, <2>1
<1>6. ASSUME NEW x \in 1..n PROVE \E y \in 1..n : q[y] = x
  <2>1. PICK i \in 1..n : s[i] = x BY DEF Orders
  <2>2. q[n + 1 - i] = s[n + 1 - (n + 1 - i)] BY <1>2, <1>4
  <2> QED BY <1>2, <2>1, <2>2
<1>7. q \in Orders(n) BY <1>3, <1>5, <1>6 DEF Orders
<1>8. ASSUME NEW x \in 0..(n + 1) PROVE Place(q, n, x) = Place(s, n, n + 1 - x)
  <2>1. CASE x \in 1..n BY <1>2, <1>4, <2>1 DEF Place
  <2>2. CASE x \notin 1..n
    <3>1. n + 1 - x \notin 1..n BY <1>0, <2>2
    <3> QED BY <2>2, <3>1 DEF Place
  <2> QED BY <2>1, <2>2
<1> QED BY <1>7, <1>8 DEF q

LEMMA ChainedBack ==
  ASSUME NEW d, NEW n \in 0..Cap, NEW s \in Orders(n), NEW f, NEW t, Chained(d, s, n, f, t)
  PROVE  Chained(d, Back(s, n), n, t, f)
<1>0. n \in Nat BY LinkedAssumption
<1>1. ASSUME NEW i \in 0..n
      PROVE  /\ d[Place(Back(s, n), n, i)][f] = Place(Back(s, n), n, i + 1)
             /\ d[Place(Back(s, n), n, i + 1)][t] = Place(Back(s, n), n, i)
  <2>1. /\ n - i \in 0..n /\ n + 1 - i = (n - i) + 1 /\ n + 1 - (i + 1) = n - i
        /\ i \in 0..(n + 1) /\ i + 1 \in 0..(n + 1)
    BY <1>0
  <2>2. Place(Back(s, n), n, i) = Place(s, n, (n - i) + 1) BY <2>1, BackOrders
  <2>3. Place(Back(s, n), n, i + 1) = Place(s, n, n - i) BY <2>1, BackOrders
  <2> QED BY <2>1, <2>2, <2>3 DEF Chained
<1> QED BY <1>1 DEF Chained

(* s with its j-th index taken out and put last.                            *)
Final(s, n, j) ==
  [x \in 1..n |-> IF x = n THEN s[j] ELSE IF x >= j THEN s[x + 1] ELSE s[x]]

LEMMA AdjustMovesBack ==
  ASSUME NEW d \in Arrays, NEW n \in 0..Cap, NEW s \in Orders(n), NEW j \in 1..n,
         NEW f \in Dirs, NEW t \in Dirs, f # t, Chained(d, s, n, f, t)
  PROVE  /\ Final(s, n, j) \in Orders(n)
         /\ Adjust(d, s[j], t, f) \in Arrays
         /\ Chained(Adjust(d, s[j], t, f), Final(s, n, j), n, f, t)
<1> DEFINE b == Back(s, n)
           i == n + 1 - j
           q == First(b, n, i)
           z == Adjust(d, s[j], t, f)
<1>0. n \in Nat BY LinkedAssumption
<1>1. i \in 1..n /\ n + 1 - i = j BY <1>0
<1>2. b \in Orders(n) /\ Chained(d, b, n, t, f) BY BackOrders, ChainedBack
<1>3. b[i] = s[j] BY <1>1 DEF Back
<1>4. q \in Orders(n) BY <1>0, <1>1, <1>2, FirstOrders
<1>5. z \in Arrays /\ Chained(z, q, n, t, f) BY <1>1, <1>2, <1>3, AdjustMoves
<1>6. Back(q, n) = Final(s, n, j)
  <2>1. ASSUME NEW x \in 1..n
        PROVE  q[n + 1 - x] = IF x = n THEN s[j] ELSE IF x >= j THEN s[x + 1] ELSE s[x]
    <3> DEFINE y == n + 1 - x
    <3>1. y \in 1..n /\ (y = 1 <=> x = n) /\ (y <= i <=> x >= j) BY <1>0
    <3>2. q[y] = IF y = 1 THEN b[i] ELSE IF y <= i THEN b[y - 1] ELSE b[y]
      BY <3>1 DEF First
    <3>3. b[y] = s[x]
      <4>1. n + 1 - y = x BY <1>0
      <4> QED BY <3>1, <4>1 DEF Back
    <3>4. ASSUME x # n PROVE b[y - 1] = s[x + 1]
      <4>1. y - 1 \in 1..n /\ n + 1 - (y - 1) = x + 1 BY <1>0, <3>4
      <4> QED BY <4>1 DEF Back
    <3> HIDE DEF y, q, b
    <3>5. q[y] = IF x = n THEN s[j] ELSE IF x >= j THEN s[x + 1] ELSE s[x]
      BY <1>3, <3>1, <3>2, <3>3, <3>4
    <3> QED BY <3>5 DEF y
  <2> HIDE DEF q
  <2> QED BY <2>1 DEF Back, Final
<1>7. Back(q, n) \in Orders(n) /\ Chained(z, Back(q, n), n, f, t)
  BY <1>4, <1>5, BackOrders, ChainedBack
<1> QED BY <1>5, <1>6, <1>7

(* put links node n + 1 in before the first.                                *)
Grown(s, n) == [x \in 1..(n + 1) |-> IF x = 1 THEN n + 1 ELSE s[x - 1]]

LEMMA InsertLinks ==
  ASSUME NEW d \in Arrays, NEW n \in 0..Cap, n < Cap, NEW s \in Orders(n),
         Chained(d, s, n, "p", "n"), NEW e,
         e = [d EXCEPT ![Place(s, n, 1)]["p"] = n + 1, ![n + 1]["p"] = 0,
                       ![n + 1]["n"] = d[0]["n"], ![0]["n"] = n + 1]
  PROVE  /\ e \in Arrays
         /\ Grown(s, n) \in Orders(n + 1)
         /\ Chained(e, Grown(s, n), n + 1, "p", "n")
<1> DEFINE q == Grown(s, n)
           first == Place(s, n, 1)
<1>0. n \in Nat /\ Cap \in Nat /\ n + 1 \in 1..Cap /\ n + 1 \in 0..Cap /\ 0 \in 0..Cap
      /\ "p" \in Dirs /\ "n" \in Dirs
  BY LinkedAssumption DEF Dirs
<1>1. s \in [1..n -> 1..n] /\ \A x, y \in 1..n : s[x] = s[y] => x = y BY DEF Orders
<1>2. \A x \in 1..n : Place(s, n, x) = s[x] BY DEF Place
<1>3. first \in 0..Cap /\ first # n + 1 /\ d[0]["n"] = first
  <2>1. first \in 0..n
    <3>1. CASE 1 \in 1..n
      <4>1. s[1] \in 1..n BY <1>1, <3>1
      <4> QED BY <1>0, <3>1, <4>1 DEF Place, first
    <3>2. CASE 1 \notin 1..n BY <1>0, <3>2 DEF Place, first
    <3> QED BY <3>1, <3>2
  <2>2. 0 \in 0..n /\ 0 + 1 = 1 /\ Place(s, n, 0) = 0 BY <1>0 DEF Place
  <2>3. d[Place(s, n, 0)]["n"] = Place(s, n, 0 + 1) BY <2>2 DEF Chained
  <2>4. d[0]["n"] = first BY <2>2, <2>3 DEF first
  <2> QED BY <1>0, <2>1, <2>4
<1> HIDE DEF first
<1>4. e \in Arrays /\ \A x \in 0..Cap :
        /\ e[x]["n"] = IF x = 0 THEN n + 1 ELSE IF x = n + 1 THEN first ELSE d[x]["n"]
        /\ e[x]["p"] = IF x = n + 1 THEN 0 ELSE IF x = first THEN n + 1 ELSE d[x]["p"]
  BY <1>0, <1>3 DEF Arrays, first
<1>5. \A x \in 1..(n + 1) : q[x] = IF x = 1 THEN n + 1 ELSE s[x - 1] BY DEF Grown
<1>6. q \in Orders(n + 1)
  <2>1. q \in [1..(n + 1) -> 1..(n + 1)]
    <3>1. \A x \in 1..(n + 1) : x # 1 => x - 1 \in 1..n BY <1>0
    <3>2. \A x \in 1..(n + 1) : (IF x = 1 THEN n + 1 ELSE s[x - 1]) \in 1..(n + 1)
      BY <1>0, <1>1, <3>1
    <3> QED BY <3>2 DEF Grown
  <2> HIDE DEF q
  <2>2. ASSUME NEW x \in 1..(n + 1), NEW y \in 1..(n + 1), q[x] = q[y] PROVE x = y
    <3>1. ASSUME NEW z \in 1..(n + 1), z # 1 PROVE z - 1 \in 1..n /\ q[z] = s[z - 1] /\ q[z] # n + 1
      <4>1. z - 1 \in 1..n BY <1>0, <3>1
      <4>2. s[z - 1] \in 1..n BY <1>1, <4>1
      <4> QED BY <1>0, <1>5, <3>1, <4>1, <4>2
    <3>2. CASE x = 1 \/ y = 1 BY <1>5, <2>2, <3>1, <3>2
    <3>3. CASE x # 1 /\ y # 1
      <4>1. x - 1 = y - 1 BY <1>1, <2>2, <3>1, <3>3
      <4> QED BY <1>0, <4>1
    <3> QED BY <3>2, <3>3
  <2>3. ASSUME NEW x \in 1..(n + 1) PROVE \E y \in 1..(n + 1) : q[y] = x
    <3>1. CASE x = n + 1
      <4>1. 1 \in 1..(n + 1) BY <1>0
      <4> QED BY <1>5, <3>1, <4>1
    <3>2. CASE x # n + 1
      <4>1. x \in 1..n BY <1>0, <3>2
      <4>2. PICK y \in 1..n : s[y] = x BY <4>1 DEF Orders
      <4>3. y + 1 \in 1..(n + 1) /\ y + 1 # 1 /\ (y + 1) - 1 = y BY <1>0
      <4> QED BY <1>5, <4>2, <4>3
    <3> QED BY <3>1, <3>2
  <2> QED BY <2>1, <2>2, <2>3 DEF Orders
<1>7. /\ Place(q, n + 1, 0) = 0 /\ Place(q, n + 1, 1) = n + 1
      /\ \A x \in 1..(n + 1) : Place(q, n + 1, x + 1) = Place(s, n, x)
  <2> HIDE DEF q
  <2>1. ASSUME NEW x \in 1..(n + 1) PROVE Place(q, n + 1, x + 1) = Place(s, n, x)
    <3>1. CASE x = n + 1 BY <1>0, <3>1 DEF Place
    <3>2. CASE x # n + 1
      <4>1. x \in 1..n /\ x + 1 \in 1..(n + 1) /\ x + 1 # 1 /\ (x + 1) - 1 = x BY <1>0, <3>2
      <4> QED BY <1>5, <4>1 DEF Place
    <3> QED BY <3>1, <3>2
  <2> QED BY <1>0, <1>5, <2>1 DEF Place
<1> HIDE DEF q
<1>8. ASSUME NEW i \in 0..(n + 1)
      PROVE  /\ e[Place(q, n + 1, i)]["n"] = Place(q, n + 1, i + 1)
             /\ e[Place(q, n + 1, i + 1)]["p"] = Place(q, n + 1, i)
  <2>1. CASE i = 0
    <3>1. Place(q, n + 1, i) = 0 /\ Place(q, n + 1, i + 1) = n + 1 BY <1>7, <2>1
    <3> QED BY <1>0, <1>4, <3>1
  <2>2. CASE i = 1
    <3>1. 1 \in 1..(n + 1) BY <1>0
    <3>2. Place(q, n + 1, i) = n + 1 /\ Place(q, n + 1, i + 1) = first
      BY <1>7, <2>2, <3>1 DEF first
    <3>3. n + 1 # 0 BY <1>0
    <3> QED BY <1>0, <1>3, <1>4, <3>2, <3>3
  <2>3. CASE i > 1
    <3>1. i - 1 \in 1..n /\ i - 1 \in 1..(n + 1) /\ (i - 1) + 1 = i /\ i \in 1..(n + 1) /\ i - 1 \in 0..n
      BY <1>0, <2>3
    <3>2. Place(q, n + 1, i) = s[i - 1] /\ Place(q, n + 1, i + 1) = Place(s, n, i)
      BY <1>2, <1>7, <3>1
    <3>3. d[s[i - 1]]["n"] = Place(s, n, i) /\ d[Place(s, n, i)]["p"] = s[i - 1]
      BY <1>2, <3>1 DEF Chained
    <3>4. s[i - 1] \in 0..Cap /\ s[i - 1] # 0 /\ s[i - 1] # n + 1
      <4>1. s[i - 1] \in 1..n BY <1>1, <3>1
      <4> QED BY <1>0, <4>1
    <3>5. Place(s, n, i) \in 0..Cap /\ Place(s, n, i) # n + 1 /\ Place(s, n, i) # first
      <4>1. Place(s, n, i) \in 0..n
        <5>1. CASE i \in 1..n
          <6>1. s[i] \in 1..n BY <1>1, <5>1
          <6> QED BY <1>0, <5>1, <6>1 DEF Place
        <5>2. CASE i \notin 1..n BY <1>0, <5>2 DEF Place
        <5> QED BY <5>1, <5>2
      <4>2. 1 \in 1..n /\ first = s[1] BY <1>0, <1>2, <3>1 DEF first
      <4>3. s[1] # 0 BY <1>1, <4>2
      <4>4. Place(s, n, i) # s[1]
        <5>1. CASE i \in 1..n
          <6>1. i # 1 BY <1>0, <2>3
          <6>2. s[i] # s[1] BY <1>1, <4>2, <5>1, <6>1
          <6> QED BY <1>2, <5>1, <6>2
        <5>2. CASE i \notin 1..n BY <4>3, <5>2 DEF Place
        <5> QED BY <5>1, <5>2
      <4> QED BY <1>0, <4>1, <4>2, <4>4
    <3> QED BY <1>4, <3>2, <3>3, <3>4, <3>5
  <2>4. i = 0 \/ i = 1 \/ i > 1 BY <1>0
  <2> QED BY <2>1, <2>2, <2>3, <2>4
<1>9. Chained(e, q, n + 1, "p", "n") BY <1>8 DEF Chained
<1> QED BY <1>4, <1>6, <1>9 DEF q

(* A set of natural numbers has a least element.                            *)
LEMMA Least ==
  ASSUME NEW S \in SUBSET Nat, S # {}
  PROVE  \E q \in S : \A r \in S : q <= r
<1> DEFINE Below(q) == 0..(q - 1)
           T == {Below(q) : q \in S}
<1>1. T \subseteq FiniteSubsetsOf(Nat) /\ T # {}
  <2>1. ASSUME NEW q \in S PROVE Below(q) \in FiniteSubsetsOf(Nat)
    <3>1. 0 \in Int /\ q - 1 \in Int OBVIOUS
    <3>2. IsFiniteSet(Below(q)) BY <3>1, FS_Interval
    <3> QED BY <3>2 DEF FiniteSubsetsOf
  <2> QED BY <2>1
<1>2. PICK x \in T : \A y \in T : ~ (<<y, x>> \in StrictSubsetOrdering(Nat))
  BY <1>1, WFMin, FS_StrictSubsetOrderingWellFounded
<1>3. PICK q \in S : x = Below(q) BY <1>2
<1>4. ASSUME NEW r \in S, r < q PROVE FALSE
  <2>1. Below(r) \in T /\ Below(r) \subseteq Below(q) /\ r \in Below(q) /\ r \notin Below(r)
    BY <1>4
  <2>2. Below(r) \in SUBSET Nat /\ Below(q) \in SUBSET Nat OBVIOUS
  <2> QED BY <1>2, <1>3, <2>1, <2>2 DEF StrictSubsetOrdering
<1>5. \A r \in S : q <= r BY <1>4
<1> QED BY <1>5

(* Follows of LinkedLevel, for links other than those of the present state. *)
Follow(d, q, dir) ==
  \A i \in 0..Len(q) : d[At(q, i)][dir] = At(q, i + 1)

LEMMA OrderIsList ==
  ASSUME NEW n \in 0..Cap, NEW s \in Orders(n)
  PROVE  /\ s \in Lists /\ Len(s) = n /\ ToSet(s) = 1..n
         /\ \A i \in 0..(n + 1) : At(s, i) = Place(s, n, i)
<1>0. n \in Nat /\ Cap \in Nat BY LinkedAssumption
<1>1. s \in [1..n -> 1..n] /\ \A x \in 1..n : \E i \in 1..n : s[i] = x BY DEF Orders
<1>2. s \in [1..n -> 1..Cap] BY <1>0, <1>1
<1>3. Len(s) = n BY <1>0, <1>1
<1>4. ToSet(s) = 1..n BY <1>1 DEF ToSet
<1> QED BY <1>1, <1>2, <1>3, <1>4 DEF Lists, Indices, At, Place

(* The links determine the order in which walk meets the indices.           *)
LEMMA OneWalk ==
  ASSUME NEW d \in Arrays, NEW n \in 0..Cap, NEW s \in Orders(n), Chained(d, s, n, "p", "n"),
         NEW q \in Lists, Follow(d, q, "n")
  PROVE  q = s
<1>0. n \in Nat /\ Cap \in Nat BY LinkedAssumption
<1>1. PICK l \in 0..Cap : q \in [1..l -> 1..Cap] BY DEF Lists, Indices
<1>2. l \in Nat /\ Len(q) = l /\ DOMAIN q = 1..l BY <1>0, <1>1
<1>3. s \in [1..n -> 1..n] BY DEF Orders
<1> DEFINE D == {i \in Nat : i <= l + 1 /\ i <= n + 1 /\ At(q, i) # Place(s, n, i)}
<1>4. D = {}
  <2>1. SUFFICES ASSUME D # {} PROVE FALSE OBVIOUS
  <2>2. PICK i \in D : \A r \in D : i <= r
    <3>1. D \in SUBSET Nat OBVIOUS
    <3> HIDE DEF D
    <3> QED BY <2>1, <3>1, Least
  <2>3. i # 0 BY <1>2 DEF At, Place
  <2>4. i - 1 \in Nat /\ i - 1 <= l /\ i - 1 <= n /\ i - 1 \notin D BY <1>0, <1>2, <2>2, <2>3
  <2>5. At(q, i - 1) = Place(s, n, i - 1) BY <1>0, <1>2, <2>4
  <2>6. i - 1 \in 0..l /\ i - 1 \in 0..n /\ (i - 1) + 1 = i BY <1>0, <1>2, <2>2, <2>4
  <2>7. d[At(q, i - 1)]["n"] = At(q, i) BY <1>2, <2>6 DEF Follow
  <2>8. d[Place(s, n, i - 1)]["n"] = Place(s, n, i) BY <2>6 DEF Chained
  <2> QED BY <2>2, <2>5, <2>7, <2>8
<1>5. \A i \in Nat : i <= l + 1 /\ i <= n + 1 => At(q, i) = Place(s, n, i) BY <1>4
<1> HIDE DEF D
<1>6. l = n
  <2>1. CASE l < n
    <3>1. l + 1 \in 1..n /\ l + 1 \in Nat /\ l + 1 \notin 1..l BY <1>0, <1>2, <2>1
    <3>2. Place(s, n, l + 1) \in 1..n BY <1>3, <3>1 DEF Place
    <3>3. At(q, l + 1) = 0 BY <1>2, <3>1 DEF At
    <3>4. At(q, l + 1) = Place(s, n, l + 1) BY <1>0, <1>2, <1>5, <2>1, <3>1
    <3> QED BY <3>2, <3>3, <3>4
  <2>2. CASE l > n
    <3>1. n + 1 \in 1..l /\ n + 1 \in Nat /\ n + 1 \notin 1..n BY <1>0, <1>2, <2>2
    <3>2. At(q, n + 1) \in 1..Cap BY <1>1, <1>2, <3>1 DEF At
    <3>3. Place(s, n, n + 1) = 0 BY <3>1 DEF Place
    <3>4. At(q, n + 1) = Place(s, n, n + 1) BY <1>0, <1>2, <1>5, <2>2, <3>1
    <3> QED BY <3>2, <3>3, <3>4
  <2> QED BY <1>0, <1>2, <2>1, <2>2
<1>7. \A i \in 1..n : q[i] = s[i]
  <2>1. ASSUME NEW i \in 1..n PROVE q[i] = s[i]
    <3>1. i \in Nat /\ i <= l + 1 /\ i <= n + 1 /\ i \in DOMAIN q BY <1>0, <1>2, <1>6
    <3>2. At(q, i) = Place(s, n, i) BY <1>5, <3>1
    <3> QED BY <3>1, <3>2 DEF At, Place
  <2> QED BY <2>1
<1> QED BY <1>1, <1>3, <1>6, <1>7

LEMMA WalkFollows ==
  ASSUME NEW d \in Arrays, NEW n \in 0..Cap, NEW s \in Orders(n), Chained(d, s, n, "p", "n")
  PROVE  /\ Follow(d, s, "n") /\ Follow(d, Reverse(s), "p")
         /\ (CHOOSE q \in Lists : Follow(d, q, "n")) = s
<1>0. n \in Nat BY LinkedAssumption
<1>1. ASSUME NEW q \in Orders(n), NEW f, NEW t, Chained(d, q, n, f, t)
      PROVE  Follow(d, q, t)
  <2>1. /\ Len(q) = n /\ \A i \in 0..(n + 1) : At(q, i) = Place(q, n, i)
    BY OrderIsList
  <2>2. \A i \in 0..n : i \in 0..(n + 1) /\ i + 1 \in 0..(n + 1) BY <1>0
  <2> QED BY <1>1, <2>1, <2>2 DEF Follow, Chained
<1>2. Follow(d, s, "n") BY <1>1
<1>3. Reverse(s) = Back(s, n)
  <2>1. Len(s) = n BY OrderIsList
  <2>2. \A x \in 1..n : (n - x) + 1 = n + 1 - x BY <1>0
  <2>3. [x \in 1..n |-> s[(n - x) + 1]] = [x \in 1..n |-> s[n + 1 - x]] BY <2>2
  <2> QED BY <2>1, <2>3 DEF Reverse, Back
<1>4. Follow(d, Reverse(s), "p")
  <2>1. Back(s, n) \in Orders(n) /\ Chained(d, Back(s, n), n, "n", "p")
    BY BackOrders, ChainedBack
  <2> QED BY <1>1, <1>3, <2>1
<1>5. s \in Lists BY OrderIsList
<1>6. \A q \in Lists : Follow(d, q, "n") => q = s BY OneWalk
<1> QED BY <1>2, <1>4, <1>5, <1>6

(* The nodes of array a in the order s, and what the map h says of them.    *)
Walk(s, n, a) == [x \in 1..n |-> a[s[x]]]
Names(a, h, n) == \A i \in 1..n : a[i] \in Nodes /\ h[a[i].k] = i

LEMMA WalkLevel ==
  ASSUME NEW n \in 0..Cap, NEW s \in Orders(n), NEW a, NEW h, Names(a, h, n)
  PROVE  /\ Walk(s, n, a) \in Level(Nodes, Cap) /\ Len(Walk(s, n, a)) = n
         /\ \A x \in 1..n : Walk(s, n, a)[x] = a[s[x]] /\ h[a[s[x]].k] = s[x]
         /\ \A x \in 1..n : IndexOf(Walk(s, n, a), a[s[x]].k) = x
         /\ KeysIn(Walk(s, n, a)) = {a[i].k : i \in 1..n}
<1> DEFINE w == Walk(s, n, a)
<1>0. n \in Nat /\ n <= Cap /\ Cap \in Nat BY LinkedAssumption
<1>1. /\ s \in [1..n -> 1..n] /\ \A x, y \in 1..n : s[x] = s[y] => x = y
      /\ \A i \in 1..n : \E x \in 1..n : s[x] = i
  BY DEF Orders
<1>2. \A x \in 1..n : w[x] = a[s[x]] /\ w[x] \in Nodes /\ h[w[x].k] = s[x]
  BY <1>1 DEF Walk, Names
<1>3. w \in [1..n -> Nodes] BY <1>1 DEF Walk, Names
<1> HIDE DEF w
<1>4. w \in Seq(Nodes) /\ Len(w) = n /\ DOMAIN w = 1..n BY <1>0, <1>3
<1>5. ASSUME NEW x \in 1..n, NEW y \in 1..n, w[x].k = w[y].k PROVE x = y
  <2>1. s[x] = s[y] BY <1>2, <1>5
  <2> QED BY <1>1, <2>1
<1>6. w \in Level(Nodes, Cap) BY <1>0, <1>4, <1>5 DEF Level
<1>7. ASSUME NEW x \in 1..n PROVE IndexOf(w, w[x].k) = x
  <2>1. w[x].k \in KeysIn(w) BY <1>4 DEF KeysIn
  <2>2. IndexOf(w, w[x].k) \in 1..n /\ w[IndexOf(w, w[x].k)].k = w[x].k
    BY <1>4, <1>6, <2>1, IndexInLevel
  <2> QED BY <1>5, <2>2
<1>8. KeysIn(w) = {a[i].k : i \in 1..n}
  <2>1. KeysIn(w) = {w[x].k : x \in 1..n} BY <1>4 DEF KeysIn
  <2>2. \A x \in 1..n : s[x] \in 1..n /\ w[x].k = a[s[x]].k BY <1>1, <1>2
  <2>3. ASSUME NEW i \in 1..n PROVE \E x \in 1..n : a[i].k = w[x].k
    <3>1. PICK x \in 1..n : s[x] = i BY <1>1
    <3> QED BY <2>2, <3>1
  <2> QED BY <2>1, <2>2, <2>3
<1> QED BY <1>2, <1>4, <1>6, <1>7, <1>8 DEF w

(* b is a with node e at index i.                                           *)
Stored(a, b, n, i, e) ==
  e \in Nodes /\ b[i] = e /\ \A x \in 1..n : x # i => b[x] = a[x]

LEMMA SameWalk ==
  ASSUME NEW n \in Nat, NEW s, NEW b, NEW u \in Seq(Nodes), Len(u) = n,
         \A x \in 1..n : b[s[x]] = u[x]
  PROVE  Walk(s, n, b) = u
BY DEF Walk

LEMMA WalkFirst ==
  ASSUME NEW n \in 0..Cap, NEW s \in Orders(n), NEW j \in 1..n, NEW a, NEW b, NEW h, NEW e,
         Names(a, h, n), Stored(a, b, n, s[j], e)
  PROVE  Walk(First(s, n, j), n, b) = <<e>> \o Drop(Walk(s, n, a), a[s[j]].k)
<1> DEFINE w == Walk(s, n, a)
           k == a[s[j]].k
           v == Walk(First(s, n, j), n, b)
           u == <<e>> \o Drop(w, k)
<1>0. n \in Nat /\ Cap \in Nat BY LinkedAssumption
<1>1. s \in [1..n -> 1..n] /\ \A x, y \in 1..n : s[x] = s[y] => x = y BY DEF Orders
<1>2. /\ w \in Level(Nodes, Cap) /\ Len(w) = n /\ IndexOf(w, k) = j
      /\ \A x \in 1..n : w[x] = a[s[x]]
      /\ k \in KeysIn(w)
  <2>1. /\ w \in Level(Nodes, Cap) /\ Len(w) = n /\ IndexOf(w, k) = j
        /\ \A x \in 1..n : w[x] = a[s[x]]
        /\ KeysIn(w) = {a[i].k : i \in 1..n}
    BY WalkLevel
  <2>2. s[j] \in 1..n BY <1>1
  <2>3. k \in {a[i].k : i \in 1..n} BY <2>2
  <2> QED BY <2>1, <2>3
<1>3. \A x \in 1..n : x # j => b[s[x]] = w[x] BY <1>1, <1>2 DEF Stored
<1>4. \A x \in 1..n : First(s, n, j)[x] = IF x = 1 THEN s[j] ELSE IF x <= j THEN s[x - 1] ELSE s[x]
  BY DEF First
<1>5. e \in Nodes /\ b[s[j]] = e BY DEF Stored
<1> HIDE DEF w, k
<1>6. /\ u \in Seq(Nodes) /\ Len(u) = n
      /\ \A x \in 1..n : u[x] = IF x = 1 THEN e ELSE IF x <= j THEN w[x - 1] ELSE w[x]
  <2>1. /\ <<e>> \o Drop(w, k) \in Seq(Nodes) /\ Len(<<e>> \o Drop(w, k)) = Len(w)
        /\ \A x \in 1..Len(w) :
             (<<e>> \o Drop(w, k))[x]
               = IF x = 1 THEN e ELSE IF x <= IndexOf(w, k) THEN w[x - 1] ELSE w[x]
    <3>1. Cap \in Nat /\ w \in Level(Nodes, Cap) /\ k \in KeysIn(w) /\ e \in Nodes
      BY <1>0, <1>2, <1>5
    <3> QED BY <3>1, HeadPositions
  <2> QED BY <1>2, <2>1
<1> HIDE DEF u
<1>7. ASSUME NEW x \in 1..n PROVE b[First(s, n, j)[x]] = u[x]
  <2>1. CASE x = 1 BY <1>4, <1>5, <1>6, <2>1
  <2>2. CASE x # 1 /\ x <= j
    <3>1. x - 1 \in 1..n /\ x - 1 # j BY <1>0, <2>2
    <3> QED BY <1>3, <1>4, <1>6, <2>2, <3>1
  <2>3. CASE x # 1 /\ ~ (x <= j)
    <3>1. x # j BY <1>0, <2>3
    <3> QED BY <1>3, <1>4, <1>6, <2>3, <3>1
  <2> QED BY <2>1, <2>2, <2>3
<1>8. v = u BY <1>0, <1>6, <1>7, SameWalk
<1> QED BY <1>8 DEF u, v, w, k

LEMMA WalkFinal ==
  ASSUME NEW n \in 0..Cap, NEW s \in Orders(n), NEW j \in 1..n, NEW a, NEW b, NEW h, NEW e,
         Names(a, h, n), Stored(a, b, n, s[j], e)
  PROVE  Walk(Final(s, n, j), n, b) = Drop(Walk(s, n, a), a[s[j]].k) \o <<e>>
<1> DEFINE w == Walk(s, n, a)
           k == a[s[j]].k
           v == Walk(Final(s, n, j), n, b)
           u == Drop(w, k) \o <<e>>
<1>0. n \in Nat /\ Cap \in Nat BY LinkedAssumption
<1>1. s \in [1..n -> 1..n] /\ \A x, y \in 1..n : s[x] = s[y] => x = y BY DEF Orders
<1>2. /\ w \in Level(Nodes, Cap) /\ Len(w) = n /\ IndexOf(w, k) = j
      /\ \A x \in 1..n : w[x] = a[s[x]]
      /\ k \in KeysIn(w)
  <2>1. /\ w \in Level(Nodes, Cap) /\ Len(w) = n /\ IndexOf(w, k) = j
        /\ \A x \in 1..n : w[x] = a[s[x]]
        /\ KeysIn(w) = {a[i].k : i \in 1..n}
    BY WalkLevel
  <2>2. s[j] \in 1..n BY <1>1
  <2>3. k \in {a[i].k : i \in 1..n} BY <2>2
  <2> QED BY <2>1, <2>3
<1>3. \A x \in 1..n : x # j => b[s[x]] = w[x] BY <1>1, <1>2 DEF Stored
<1>4. \A x \in 1..n : Final(s, n, j)[x] = IF x = n THEN s[j] ELSE IF x >= j THEN s[x + 1] ELSE s[x]
  BY DEF Final
<1>5. e \in Nodes /\ b[s[j]] = e BY DEF Stored
<1> HIDE DEF w, k
<1>6. /\ u \in Seq(Nodes) /\ Len(u) = n
      /\ \A x \in 1..n : u[x] = IF x = n THEN e ELSE IF x < j THEN w[x] ELSE w[x + 1]
  <2>1. /\ Drop(w, k) \o <<e>> \in Seq(Nodes) /\ Len(Drop(w, k) \o <<e>>) = Len(w)
        /\ \A x \in 1..Len(w) :
             (Drop(w, k) \o <<e>>)[x]
               = IF x = Len(w) THEN e ELSE IF x < IndexOf(w, k) THEN w[x] ELSE w[x + 1]
    <3>1. Cap \in Nat /\ w \in Level(Nodes, Cap) /\ k \in KeysIn(w) /\ e \in Nodes
      BY <1>0, <1>2, <1>5
    <3> QED BY <3>1, TailPositions
  <2> QED BY <1>2, <2>1
<1> HIDE DEF u
<1>7. ASSUME NEW x \in 1..n PROVE b[Final(s, n, j)[x]] = u[x]
  <2>1. CASE x = n BY <1>4, <1>5, <1>6, <2>1
  <2>2. CASE x # n /\ x >= j
    <3>1. x + 1 \in 1..n /\ x + 1 # j /\ ~ (x < j) BY <1>0, <2>2
    <3> QED BY <1>3, <1>4, <1>6, <2>2, <3>1
  <2>3. CASE x # n /\ ~ (x >= j)
    <3>1. x # j /\ x < j BY <1>0, <2>3
    <3> QED BY <1>3, <1>4, <1>6, <2>3, <3>1
  <2> QED BY <2>1, <2>2, <2>3
<1>8. v = u BY <1>0, <1>6, <1>7, SameWalk
<1> QED BY <1>8 DEF u, v, w, k

(* A new key: the last node of the level is taken over, a new one comes in. *)
LEMMA WalkReplaced ==
  ASSUME NEW n \in 0..Cap, NEW s \in Orders(n), n # 0, NEW a, NEW b, NEW h, NEW e,
         Names(a, h, n), Stored(a, b, n, s[n], e)
  PROVE  /\ Walk(First(s, n, n), n, b) = <<e>> \o Front(Walk(s, n, a))
         /\ Last(Walk(s, n, a)) = a[s[n]]
<1> DEFINE w == Walk(s, n, a)
           r == Front(w)
           g == <<e>>
           u == g \o r
<1>0. n \in Nat /\ Cap \in Nat /\ n \in 1..n BY LinkedAssumption
<1>1. s \in [1..n -> 1..n] /\ \A x, y \in 1..n : s[x] = s[y] => x = y BY DEF Orders
<1>2. /\ w \in Seq(Nodes) /\ Len(w) = n /\ \A x \in 1..n : w[x] = a[s[x]]
  BY WalkLevel DEF Level
<1>3. \A x \in 1..n : x # n => b[s[x]] = w[x] BY <1>0, <1>1, <1>2 DEF Stored
<1>4. \A x \in 1..n : First(s, n, n)[x] = IF x = 1 THEN s[n] ELSE IF x <= n THEN s[x - 1] ELSE s[x]
  BY DEF First
<1>5. Last(w) = a[s[n]] BY <1>0, <1>2 DEF Last
<1>6. e \in Nodes /\ b[s[n]] = e BY DEF Stored
<1> HIDE DEF w
<1>7. r \in Seq(Nodes) /\ Len(r) = n - 1 /\ \A x \in 1..(n - 1) : r[x] = w[x]
  BY <1>0, <1>2 DEF Front
<1> HIDE DEF r
<1>8. g \in Seq(Nodes) /\ Len(g) = 1 /\ g[1] = e BY <1>6
<1> HIDE DEF g
<1>9. /\ u \in Seq(Nodes) /\ Len(u) = 1 + (n - 1)
      /\ \A j \in 1..(1 + (n - 1)) : u[j] = IF j <= 1 THEN g[j] ELSE r[j - 1]
  <2>1. /\ u \in Seq(Nodes) /\ Len(u) = Len(g) + Len(r)
        /\ \A j \in 1..(Len(g) + Len(r)) : u[j] = IF j <= Len(g) THEN g[j] ELSE r[j - Len(g)]
    BY <1>7, <1>8, ConcatProperties
  <2> HIDE DEF u
  <2>2. Len(g) = 1 /\ Len(r) = n - 1 BY <1>7, <1>8
  <2> QED BY <2>1, <2>2
<1> HIDE DEF u
<1>10. ASSUME NEW x \in 1..n PROVE b[First(s, n, n)[x]] = u[x]
  <2>1. x \in 1..(1 + (n - 1)) /\ (x <= 1 <=> x = 1) /\ x <= n BY <1>0
  <2>2. CASE x = 1 BY <1>4, <1>6, <1>8, <1>9, <2>1, <2>2
  <2>3. CASE x # 1
    <3>1. x - 1 \in 1..n /\ x - 1 # n /\ x - 1 \in 1..(n - 1) BY <1>0, <2>3
    <3>2. First(s, n, n)[x] = s[x - 1] BY <1>4, <2>1, <2>3
    <3>3. u[x] = r[x - 1] BY <1>9, <2>1, <2>3
    <3>4. r[x - 1] = w[x - 1] BY <1>7, <3>1
    <3>5. b[s[x - 1]] = w[x - 1] BY <1>3, <3>1
    <3> QED BY <3>2, <3>3, <3>4, <3>5
  <2> QED BY <2>2, <2>3
<1>11. Len(u) = n BY <1>0, <1>9
<1>12. Walk(First(s, n, n), n, b) = u BY <1>0, <1>9, <1>10, <1>11, SameWalk
<1> QED BY <1>5, <1>12 DEF u, g, r, w

LEMMA WalkGrown ==
  ASSUME NEW n \in 0..Cap, NEW s \in Orders(n), NEW a, NEW b, NEW h, NEW e,
         Names(a, h, n), Stored(a, b, n, n + 1, e)
  PROVE  Walk(Grown(s, n), n + 1, b) = <<e>> \o Walk(s, n, a)
<1> DEFINE w == Walk(s, n, a)
           g == <<e>>
           u == g \o w
<1>0. n \in Nat /\ Cap \in Nat BY LinkedAssumption
<1>1. s \in [1..n -> 1..n] BY DEF Orders
<1>2. /\ w \in Seq(Nodes) /\ Len(w) = n /\ \A x \in 1..n : w[x] = a[s[x]]
  BY WalkLevel DEF Level
<1>3. \A x \in 1..n : b[s[x]] = w[x]
  <2>1. \A i \in 1..n : i # n + 1 BY <1>0
  <2> QED BY <1>1, <1>2, <2>1 DEF Stored
<1>4. \A x \in 1..(n + 1) : Grown(s, n)[x] = IF x = 1 THEN n + 1 ELSE s[x - 1] BY DEF Grown
<1>5. e \in Nodes /\ b[n + 1] = e BY DEF Stored
<1> HIDE DEF w
<1>6. g \in Seq(Nodes) /\ Len(g) = 1 /\ g[1] = e BY <1>5
<1> HIDE DEF g
<1>7. /\ u \in Seq(Nodes) /\ Len(u) = 1 + n
      /\ \A j \in 1..(1 + n) : u[j] = IF j <= 1 THEN g[j] ELSE w[j - 1]
  <2>1. /\ u \in Seq(Nodes) /\ Len(u) = Len(g) + Len(w)
        /\ \A j \in 1..(Len(g) + Len(w)) : u[j] = IF j <= Len(g) THEN g[j] ELSE w[j - Len(g)]
    BY <1>2, <1>6, ConcatProperties
  <2> HIDE DEF u
  <2>2. Len(g) = 1 /\ Len(w) = n BY <1>2, <1>6
  <2> QED BY <2>1, <2>2
<1> HIDE DEF u
<1>8. ASSUME NEW x \in 1..(n + 1) PROVE b[Grown(s, n)[x]] = u[x]
  <2>1. x \in 1..(1 + n) /\ (x <= 1 <=> x = 1) BY <1>0
  <2>2. CASE x = 1 BY <1>4, <1>5, <1>6, <1>7, <2>1, <2>2
  <2>3. CASE x # 1
    <3>1. x - 1 \in 1..n BY <1>0, <2>3
    <3> QED BY <1>3, <1>4, <1>7, <2>1, <2>3, <3>1
  <2> QED BY <2>2, <2>3
<1>9. n + 1 \in Nat /\ Len(u) = n + 1 BY <1>0, <1>7
<1>10. Walk(Grown(s, n), n + 1, b) = u BY <1>7, <1>8, <1>9, SameWalk
<1> QED BY <1>10 DEF u, g, w

-----------------------------------------------------------------------------
(* The arrays hold a list: the links run through the first n indices, the   *)
(* map names the index of every key that has one.                           *)
Held(d, n, a, h) ==
  /\ d \in Arrays /\ n \in 0..Cap
  /\ \E s \in Orders(n) : Chained(d, s, n, "p", "n")
  /\ Names(a, h, n)
  /\ h \in [Keys -> 0..Cap]
  /\ \A k \in Keys : h[k] # 0 => h[k] \in 1..n /\ a[h[k]].k = k

LinkedInv == LinkedTypeOK /\ Held(dlnk, last, slots, hmap)

(* WalkOrder of LinkedLevel, for other links and nodes likewise.            *)
WalkIn(d, a) ==
  LET order == CHOOSE q \in Lists : Follow(d, q, "n")
  IN  [i \in 1..Len(order) |-> a[order[i]]]

LEMMA WalkOrderIs ==
  /\ WalkOrder = WalkIn(dlnk, slots)
  /\ WalkOrder' = WalkIn(dlnk', slots')
BY DEF WalkOrder, Follows, WalkIn, Follow

LEMMA WalkInIs ==
  ASSUME NEW d \in Arrays, NEW n \in 0..Cap, NEW s \in Orders(n), Chained(d, s, n, "p", "n"),
         NEW a
  PROVE  WalkIn(d, a) = Walk(s, n, a)
<1> DEFINE order == CHOOSE q \in Lists : Follow(d, q, "n")
<1>1. order = s BY WalkFollows
<1>2. Len(s) = n BY OrderIsList
<1>3. WalkIn(d, a) = [i \in 1..Len(order) |-> a[order[i]]] BY DEF WalkIn
<1> HIDE DEF order
<1> QED BY <1>1, <1>2, <1>3 DEF Walk

(* The operations of the level that RecencyLevel is stated with are those   *)
(* of Lru2.                                                                 *)
LEMMA SameOperations ==
  ASSUME NEW s, NEW e, NEW k, NEW cap
  PROVE  /\ Recency!PutIn(s, e, cap) = PutIn(s, e, cap)
         /\ Recency!EvictedBy(s, e, cap) = EvictedBy(s, e, cap)
         /\ Recency!TouchIn(s, k) = TouchIn(s, k)
         /\ Recency!DelIn(s, k) = DelIn(s, k)
BY DEF Recency!PutIn, PutIn, Recency!EvictedBy, EvictedBy,
       Recency!TouchIn, TouchIn, Recency!DelIn, DelIn,
       Recency!Drop, Drop, Recency!Entry, Entry, Recency!IndexOf, IndexOf,
       Recency!KeysIn, KeysIn, Recency!LiveIn, LiveIn,
       Recency!RemoveAt, RemoveAt, Recency!Front, Front, Recency!Last, Last

LEMMA OrderExists ==
  ASSUME NEW d, NEW n, NEW a, NEW h, Held(d, n, a, h)
  PROVE  \E s \in Orders(n) : /\ Chained(d, s, n, "p", "n")
                              /\ WalkIn(d, a) = Walk(s, n, a)
                              /\ \A k \in Keys : h[k] # 0 => \E j \in 1..n : s[j] = h[k] /\ a[s[j]].k = k
<1>1. PICK s \in Orders(n) : Chained(d, s, n, "p", "n") BY DEF Held
<1>2. WalkIn(d, a) = Walk(s, n, a) BY <1>1, WalkInIs DEF Held
<1>3. ASSUME NEW k \in Keys, h[k] # 0 PROVE \E j \in 1..n : s[j] = h[k] /\ a[s[j]].k = k
  <2>1. h[k] \in 1..n /\ a[h[k]].k = k BY <1>3 DEF Held
  <2>2. PICK j \in 1..n : s[j] = h[k] BY <2>1 DEF Orders
  <2> QED BY <2>1, <2>2
<1> QED BY <1>1, <1>2, <1>3

(* A key has an index exactly if walk meets a node of it.                   *)
LEMMA KeysHeld ==
  ASSUME NEW d, NEW n, NEW a, NEW h, Held(d, n, a, h), NEW s \in Orders(n), NEW k \in Keys
  PROVE  k \in KeysIn(Walk(s, n, a)) <=> h[k] # 0
<1>0. n \in 0..Cap /\ Names(a, h, n) /\ n \in Nat BY LinkedAssumption DEF Held
<1>1. KeysIn(Walk(s, n, a)) = {a[i].k : i \in 1..n} BY <1>0, WalkLevel
<1>2. ASSUME NEW i \in 1..n, a[i].k = k PROVE h[k] # 0
  <2>1. h[a[i].k] = i BY <1>0 DEF Names
  <2> QED BY <1>0, <1>2, <2>1
<1>3. ASSUME h[k] # 0 PROVE \E i \in 1..n : a[i].k = k BY <1>3 DEF Held
<1> QED BY <1>1, <1>2, <1>3

(* A node may change places, and content but for its key.                   *)
LEMMA HeldMoved ==
  ASSUME NEW d, NEW n, NEW a, NEW h, Held(d, n, a, h),
         NEW g \in Arrays, NEW q \in Orders(n), Chained(g, q, n, "p", "n"),
         NEW i \in 1..n, NEW b, NEW e, Stored(a, b, n, i, e), e.k = a[i].k
  PROVE  Held(g, n, b, h)
<1>1. Names(b, h, n)
  <2>1. ASSUME NEW x \in 1..n PROVE b[x] \in Nodes /\ h[b[x].k] = x
    <3>1. a[x] \in Nodes /\ h[a[x].k] = x BY DEF Held, Names
    <3>2. CASE x = i BY <3>1, <3>2 DEF Stored
    <3>3. CASE x # i
      <4>1. b[x] = a[x] BY <3>3 DEF Stored
      <4> QED BY <3>1, <4>1
    <3> QED BY <3>2, <3>3
  <2> QED BY <2>1 DEF Names
<1>2. ASSUME NEW k \in Keys, h[k] # 0 PROVE h[k] \in 1..n /\ b[h[k]].k = k
  <2>1. h[k] \in 1..n /\ a[h[k]].k = k BY <1>2 DEF Held
  <2>2. CASE h[k] = i BY <2>1, <2>2 DEF Stored
  <2>3. CASE h[k] # i
    <3>1. b[h[k]] = a[h[k]] BY <2>1, <2>3 DEF Stored
    <3> QED BY <2>1, <3>1
  <2> QED BY <2>2, <2>3
<1> QED BY <1>1, <1>2 DEF Held

(* From links d and nodes a to g and b: e comes to the head, or goes to the *)
(* tail, in place of the node of k.                                         *)
AtHead(d, n, a, h, k, e, g, b) ==
  Held(g, n, b, h) /\ WalkIn(g, b) = <<e>> \o Drop(WalkIn(d, a), k)
AtTail(d, n, a, h, k, e, g, b) ==
  Held(g, n, b, h) /\ WalkIn(g, b) = Drop(WalkIn(d, a), k) \o <<e>>

(* adjust on the index of a key: its node, with a new content perhaps,      *)
(* leaves its place in the walk for the head, or the tail.                  *)
LEMMA HeadMove ==
  ASSUME NEW d, NEW n, NEW a, NEW h, Held(d, n, a, h), NEW k \in Keys, h[k] # 0,
         NEW b, NEW e, Stored(a, b, n, h[k], e), e.k = k
  PROVE  AtHead(d, n, a, h, k, e, Adjust(d, h[k], "p", "n"), b)
<1> DEFINE i == h[k]
           g == Adjust(d, i, "p", "n")
<1>1. d \in Arrays /\ n \in 0..Cap /\ n \in Nat /\ Names(a, h, n) BY LinkedAssumption DEF Held
<1>2. PICK s \in Orders(n) : /\ Chained(d, s, n, "p", "n") /\ WalkIn(d, a) = Walk(s, n, a)
                             /\ \A y \in Keys : h[y] # 0 => \E j \in 1..n : s[j] = h[y] /\ a[s[j]].k = y
  BY OrderExists
<1>3. PICK j \in 1..n : s[j] = i /\ a[s[j]].k = k BY <1>2
<1>4. i \in 1..n BY <1>1, <1>3, OrderOf
<1>5. Stored(a, b, n, s[j], e) BY <1>3
<1>6. g \in Arrays /\ Chained(g, First(s, n, j), n, "p", "n")
  <2>1. "p" \in Dirs /\ "n" \in Dirs /\ "p" # "n" BY DEF Dirs
  <2> QED BY <1>1, <1>2, <1>3, <2>1, AdjustMoves
<1>7. First(s, n, j) \in Orders(n) BY <1>1, FirstOrders
<1> HIDE DEF g, i
<1>8. Walk(First(s, n, j), n, b) = <<e>> \o Drop(Walk(s, n, a), k)
  <2>1. Walk(First(s, n, j), n, b) = <<e>> \o Drop(Walk(s, n, a), a[s[j]].k)
    BY <1>1, <1>5, WalkFirst
  <2> QED BY <1>3, <2>1
<1>9. WalkIn(g, b) = <<e>> \o Drop(WalkIn(d, a), k)
  <2>1. WalkIn(g, b) = Walk(First(s, n, j), n, b) BY <1>1, <1>6, <1>7, WalkInIs
  <2> QED BY <1>2, <1>8, <2>1
<1>10. Held(g, n, b, h) BY <1>3, <1>4, <1>5, <1>6, <1>7, HeldMoved
<1> QED BY <1>9, <1>10 DEF g, i, AtHead

(* The walk has the node that a key names.                                  *)
LEMMA EntryHeld ==
  ASSUME NEW d, NEW n, NEW a, NEW h, Held(d, n, a, h), NEW k \in Keys, h[k] # 0
  PROVE  k \in KeysIn(WalkIn(d, a)) /\ Entry(WalkIn(d, a), k) = a[h[k]]
<1>1. n \in 0..Cap /\ Names(a, h, n) BY DEF Held
<1>2. PICK s \in Orders(n) : /\ Chained(d, s, n, "p", "n") /\ WalkIn(d, a) = Walk(s, n, a)
                             /\ \A y \in Keys : h[y] # 0 => \E j \in 1..n : s[j] = h[y] /\ a[s[j]].k = y
  BY OrderExists
<1>3. PICK j \in 1..n : s[j] = h[k] /\ a[s[j]].k = k BY <1>2
<1>4. k \in KeysIn(WalkIn(d, a)) BY <1>2, KeysHeld
<1>5. IndexOf(Walk(s, n, a), k) = j /\ Walk(s, n, a)[j] = a[s[j]]
  BY <1>1, <1>3, WalkLevel
<1> QED BY <1>2, <1>3, <1>4, <1>5 DEF Entry

LEMMA TailMove ==
  ASSUME NEW d, NEW n, NEW a, NEW h, Held(d, n, a, h), NEW k \in Keys, h[k] # 0,
         NEW b, NEW e, Stored(a, b, n, h[k], e), e.k = k
  PROVE  AtTail(d, n, a, h, k, e, Adjust(d, h[k], "n", "p"), b)
<1> DEFINE i == h[k]
           g == Adjust(d, i, "n", "p")
<1>1. d \in Arrays /\ n \in 0..Cap /\ n \in Nat /\ Names(a, h, n) BY LinkedAssumption DEF Held
<1>2. PICK s \in Orders(n) : /\ Chained(d, s, n, "p", "n") /\ WalkIn(d, a) = Walk(s, n, a)
                             /\ \A y \in Keys : h[y] # 0 => \E j \in 1..n : s[j] = h[y] /\ a[s[j]].k = y
  BY OrderExists
<1>3. PICK j \in 1..n : s[j] = i /\ a[s[j]].k = k BY <1>2
<1>4. i \in 1..n BY <1>1, <1>3, OrderOf
<1>5. Stored(a, b, n, s[j], e) BY <1>3
<1>6. g \in Arrays /\ Final(s, n, j) \in Orders(n) /\ Chained(g, Final(s, n, j), n, "p", "n")
  <2>1. "p" \in Dirs /\ "n" \in Dirs /\ "p" # "n" BY DEF Dirs
  <2> QED BY <1>1, <1>2, <1>3, <2>1, AdjustMovesBack
<1> HIDE DEF g, i
<1>7. Walk(Final(s, n, j), n, b) = Drop(Walk(s, n, a), k) \o <<e>>
  <2>1. Walk(Final(s, n, j), n, b) = Drop(Walk(s, n, a), a[s[j]].k) \o <<e>>
    BY <1>1, <1>5, WalkFinal
  <2> QED BY <1>3, <2>1
<1>8. WalkIn(g, b) = Drop(WalkIn(d, a), k) \o <<e>>
  <2>1. WalkIn(g, b) = Walk(Final(s, n, j), n, b) BY <1>1, <1>6, WalkInIs
  <2> QED BY <1>2, <1>7, <2>1
<1>9. Held(g, n, b, h) BY <1>3, <1>4, <1>5, <1>6, HeldMoved
<1> QED BY <1>8, <1>9 DEF g, i, AtTail

Slots == [1..Cap -> Nodes \cup {NoNode}]
Outs == [op : {"none", "put", "get", "del"}, k : SUBSET Keys, evicted : SUBSET Nodes]

LEMMA LinkedTypes ==
  /\ LinkedTypeOK <=> /\ dlnk \in Arrays /\ slots \in Slots /\ hmap \in [Keys -> 0..Cap]
                       /\ last \in 0..Cap /\ out \in Outs
  /\ LinkedTypeOK' <=> /\ dlnk' \in Arrays /\ slots' \in Slots /\ hmap' \in [Keys -> 0..Cap]
                        /\ last' \in 0..Cap /\ out' \in Outs
BY LinkedAssumption DEF LinkedTypeOK, Arrays, Slots, Outs, Indices

(* What a step has to do with the arrays and with the walk.                 *)
LEMMA StepIs ==
  ASSUME LinkedInv, slots' \in Slots, out' \in Outs, Held(dlnk', last', slots', hmap')
  PROVE  LinkedInv'
<1>1. /\ dlnk' \in Arrays /\ last' \in 0..Cap /\ hmap' \in [Keys -> 0..Cap] BY DEF Held
<1> QED BY <1>1, LinkedTypes DEF LinkedInv

LEMMA IndexHeld ==
  ASSUME LinkedInv, NEW k \in Keys, hmap[k] # 0
  PROVE  /\ hmap[k] \in 1..last /\ hmap[k] \in 1..Cap /\ slots \in Slots
         /\ slots[hmap[k]] \in Nodes /\ slots[hmap[k]].k = k
         /\ \A e \in Nodes : LET b == [slots EXCEPT ![hmap[k]] = e]
                            IN  b \in Slots /\ Stored(slots, b, last, hmap[k], e)
<1>1. last \in 0..Cap /\ slots \in Slots /\ Cap \in Nat BY LinkedTypes, LinkedAssumption DEF LinkedInv
<1>2. hmap[k] \in 1..last /\ slots[hmap[k]].k = k BY DEF LinkedInv, Held
<1>3. slots[hmap[k]] \in Nodes BY <1>2 DEF LinkedInv, Held, Names
<1>4. \A x \in 1..last : x \in 1..Cap BY <1>1
<1> QED BY <1>1, <1>2, <1>3, <1>4 DEF Slots, Stored

LEMMA UpdateStep ==
  ASSUME LinkedInv, NEW e \in Nodes, Update(e)
  PROVE  LinkedInv' /\ Recency!Put(e)
<1>0. /\ hmap[e.k] # 0 /\ slots' = [slots EXCEPT ![hmap[e.k]] = e]
      /\ dlnk' = Adjust(dlnk, hmap[e.k], "p", "n")
      /\ out' = Did("put", e.k, {}) /\ hmap' = hmap /\ last' = last
      /\ e.k \in Keys
  BY DEF Update, Nodes
<1>1. slots' \in Slots /\ Stored(slots, slots', last, hmap[e.k], e) BY <1>0, IndexHeld
<1>2. Held(dlnk, last, slots, hmap) BY DEF LinkedInv
<1>3. /\ Held(dlnk', last, slots', hmap)
      /\ WalkIn(dlnk', slots') = <<e>> \o Drop(WalkIn(dlnk, slots), e.k)
      /\ e.k \in KeysIn(WalkIn(dlnk, slots))
  <2> DEFINE g == Adjust(dlnk, hmap[e.k], "p", "n")
             b == slots'
  <2>1. Stored(slots, b, last, hmap[e.k], e) BY <1>1
  <2>2. e.k \in Keys /\ hmap[e.k] # 0 BY <1>0
  <2> HIDE DEF b
  <2>3. AtHead(dlnk, last, slots, hmap, e.k, e, g, b) BY <1>2, <2>1, <2>2, HeadMove
  <2>4. e.k \in KeysIn(WalkIn(dlnk, slots)) BY <1>2, <2>2, EntryHeld
  <2> QED BY <1>0, <2>3, <2>4 DEF b, AtHead
<1>4. out' \in Outs BY <1>0 DEF Did, Outs
<1>5. LinkedInv' BY <1>0, <1>1, <1>3, <1>4, StepIs
<1>6. out' = Recency!Did("put", e.k, {}) BY <1>0 DEF Did, Recency!Did
<1>7. /\ WalkIn(dlnk', slots') = PutIn(WalkIn(dlnk, slots), e, Cap)
      /\ EvictedBy(WalkIn(dlnk, slots), e, Cap) = {}
  BY <1>3 DEF PutIn, EvictedBy
<1>8. Recency!Put(e)
  BY <1>6, <1>7, WalkOrderIs, SameOperations DEF Recency!Put
<1> QED BY <1>5, <1>8

LEMMA TouchStep ==
  ASSUME LinkedInv, NEW k \in Keys, Touch(k)
  PROVE  LinkedInv' /\ Recency!Touch(k)
<1> DEFINE e == slots[hmap[k]]
<1>0. /\ hmap[k] # 0 /\ slots' = slots
      /\ dlnk' = Adjust(dlnk, hmap[k], "p", "n")
      /\ out' = Did("get", k, {}) /\ hmap' = hmap /\ last' = last
  BY DEF Touch
<1>1. e \in Nodes /\ e.k = k /\ slots' \in Slots BY <1>0, IndexHeld
<1>2. Stored(slots, slots', last, hmap[k], e) BY <1>0, <1>1 DEF Stored
<1>3. Held(dlnk, last, slots, hmap) BY DEF LinkedInv
<1>4. /\ Held(dlnk', last, slots', hmap)
      /\ WalkIn(dlnk', slots') = <<e>> \o Drop(WalkIn(dlnk, slots), k)
      /\ k \in KeysIn(WalkIn(dlnk, slots)) /\ Entry(WalkIn(dlnk, slots), k) = e
  <2> DEFINE g == Adjust(dlnk, hmap[k], "p", "n")
  <2>1. Stored(slots, slots, last, hmap[k], e) BY <1>0, <1>2
  <2>2. e.k = k BY <1>1
  <2> HIDE DEF e
  <2>3. AtHead(dlnk, last, slots, hmap, k, e, g, slots) BY <1>0, <1>3, <2>1, <2>2, HeadMove
  <2>4. k \in KeysIn(WalkIn(dlnk, slots)) /\ Entry(WalkIn(dlnk, slots), k) = slots[hmap[k]]
    BY <1>0, <1>3, EntryHeld
  <2> QED BY <1>0, <2>3, <2>4 DEF e, AtHead
<1>5. out' \in Outs BY <1>0 DEF Did, Outs
<1>6. LinkedInv' BY <1>0, <1>1, <1>4, <1>5, StepIs
<1>7. out' = Recency!Did("get", k, {}) BY <1>0 DEF Did, Recency!Did
<1>8. WalkIn(dlnk', slots') = TouchIn(WalkIn(dlnk, slots), k) BY <1>4 DEF TouchIn
<1>9. Recency!Touch(k)
  BY <1>7, <1>8, WalkOrderIs, SameOperations DEF Recency!Touch
<1> QED BY <1>6, <1>9

LEMMA DelStep ==
  ASSUME LinkedInv, NEW k \in Keys, Del(k)
  PROVE  LinkedInv' /\ Recency!Del(k)
<1> DEFINE e == [slots[hmap[k]] EXCEPT !.exp = 0]
<1>0. /\ hmap[k] # 0 /\ slots[hmap[k]].exp > 0
      /\ slots' = [slots EXCEPT ![hmap[k]].exp = 0]
      /\ dlnk' = Adjust(dlnk, hmap[k], "n", "p")
      /\ out' = Did("del", k, {}) /\ hmap' = hmap /\ last' = last
  BY DEF Del
<1>1. e \in Nodes /\ e.k = k BY <1>0, IndexHeld, LinkedAssumption DEF Nodes
<1>2. slots' = [slots EXCEPT ![hmap[k]] = e] BY <1>0
<1> HIDE DEF e
<1>3. slots' \in Slots /\ Stored(slots, slots', last, hmap[k], e)
  <2> DEFINE b == [slots EXCEPT ![hmap[k]] = e]
  <2>1. b \in Slots /\ Stored(slots, b, last, hmap[k], e) BY <1>0, <1>1, IndexHeld
  <2> HIDE DEF b
  <2>2. slots' = b BY <1>2 DEF b
  <2> QED BY <2>1, <2>2
<1>4. Held(dlnk, last, slots, hmap) BY DEF LinkedInv
<1> DEFINE b == slots'
           g == Adjust(dlnk, hmap[k], "n", "p")
<1>5. Stored(slots, b, last, hmap[k], e) /\ e.k = k BY <1>1, <1>3
<1> HIDE DEF b
<1>6. /\ Held(dlnk', last, slots', hmap)
      /\ WalkIn(dlnk', slots') = Drop(WalkIn(dlnk, slots), k) \o <<e>>
  <2>1. AtTail(dlnk, last, slots, hmap, k, e, g, b) BY <1>0, <1>4, <1>5, TailMove
  <2> QED BY <1>0, <2>1 DEF b, AtTail
<1>7. k \in KeysIn(WalkIn(dlnk, slots)) /\ Entry(WalkIn(dlnk, slots), k) = slots[hmap[k]]
  BY <1>0, <1>4, EntryHeld
<1>8. out' \in Outs BY <1>0 DEF Did, Outs
<1>9. LinkedInv' BY <1>0, <1>3, <1>6, <1>8, StepIs
<1>10. out' = Recency!Did("del", k, {}) BY <1>0 DEF Did, Recency!Did
<1>11. WalkIn(dlnk', slots') = DelIn(WalkIn(dlnk, slots), k)
  BY <1>0, <1>6, <1>7 DEF DelIn, LiveIn, e
<1>12. Recency!Del(k)
  BY <1>10, <1>11, WalkOrderIs, SameOperations DEF Recency!Del
<1> QED BY <1>9, <1>12

(* The node at i passes from its key to that of e, which had none.          *)
LEMMA HeldRenamed ==
  ASSUME NEW d, NEW n, NEW a, NEW h, Held(d, n, a, h),
         NEW g \in Arrays, NEW q \in Orders(n), Chained(g, q, n, "p", "n"),
         NEW i \in 1..n, NEW b, NEW e, Stored(a, b, n, i, e), h[e.k] = 0
  PROVE  Held(g, n, b, [h EXCEPT ![a[i].k] = 0, ![e.k] = i])
<1> DEFINE l == [h EXCEPT ![a[i].k] = 0, ![e.k] = i]
<1>0. n \in 0..Cap /\ n \in Nat /\ i \in 0..Cap /\ i # 0 /\ 0 \in 0..Cap
  BY LinkedAssumption DEF Held
<1>1. e \in Nodes /\ e.k \in Keys /\ h \in [Keys -> 0..Cap] BY DEF Stored, Nodes, Held
<1>2. \A x \in 1..n : a[x] \in Nodes /\ a[x].k \in Keys /\ h[a[x].k] = x /\ x # 0
  BY <1>0 DEF Held, Names, Nodes
<1>3. /\ l \in [Keys -> 0..Cap]
      /\ \A k \in Keys : l[k] = IF k = e.k THEN i ELSE IF k = a[i].k THEN 0 ELSE h[k]
  BY <1>0, <1>1, <1>2
<1> HIDE DEF l
<1>4. Names(b, l, n)
  <2>1. ASSUME NEW x \in 1..n PROVE b[x] \in Nodes /\ l[b[x].k] = x
    <3>1. CASE x = i BY <1>1, <1>3, <3>1 DEF Stored
    <3>2. CASE x # i
      <4>1. b[x] = a[x] BY <3>2 DEF Stored
      <4>2. a[x].k # e.k /\ a[x].k # a[i].k BY <1>2, <3>2
      <4> QED BY <1>2, <1>3, <4>1, <4>2
    <3> QED BY <3>1, <3>2
  <2> QED BY <2>1 DEF Names
<1>5. ASSUME NEW k \in Keys, l[k] # 0 PROVE l[k] \in 1..n /\ b[l[k]].k = k
  <2>1. CASE k = e.k
    <3>1. l[k] = i BY <1>3, <2>1
    <3>2. b[i] = e BY DEF Stored
    <3> QED BY <2>1, <3>1, <3>2
  <2>2. CASE k # e.k
    <3>1. k # a[i].k /\ l[k] = h[k] BY <1>3, <1>5, <2>2
    <3>2. h[k] \in 1..n /\ a[h[k]].k = k BY <1>5, <3>1 DEF Held
    <3>3. h[k] # i BY <3>1, <3>2
    <3>4. b[h[k]] = a[h[k]] BY <3>2, <3>3 DEF Stored
    <3> QED BY <3>1, <3>2, <3>4
  <2> QED BY <2>1, <2>2
<1>6. Held(g, n, b, l) BY <1>3, <1>4, <1>5 DEF Held
<1> QED BY <1>6 DEF l

(* A node more, of a key that had none.                                     *)
LEMMA HeldGrown ==
  ASSUME NEW d, NEW n, NEW a, NEW h, Held(d, n, a, h), n < Cap,
         NEW g \in Arrays, NEW q \in Orders(n + 1), Chained(g, q, n + 1, "p", "n"),
         NEW b, NEW e, Stored(a, b, n, n + 1, e), h[e.k] = 0
  PROVE  Held(g, n + 1, b, [h EXCEPT ![e.k] = n + 1])
<1> DEFINE l == [h EXCEPT ![e.k] = n + 1]
<1>0. n \in Nat /\ n + 1 \in 0..Cap /\ n + 1 \in 1..(n + 1)
      /\ \A x \in 1..(n + 1) : x # n + 1 => x \in 1..n
  BY LinkedAssumption DEF Held
<1>1. e \in Nodes /\ e.k \in Keys /\ h \in [Keys -> 0..Cap] BY DEF Stored, Nodes, Held
<1>2. \A x \in 1..n : a[x] \in Nodes /\ a[x].k \in Keys /\ h[a[x].k] = x /\ x # 0 /\ x # n + 1
  BY <1>0 DEF Held, Names, Nodes
<1>3. /\ l \in [Keys -> 0..Cap]
      /\ \A k \in Keys : l[k] = IF k = e.k THEN n + 1 ELSE h[k]
  BY <1>0, <1>1
<1> HIDE DEF l
<1>4. Names(b, l, n + 1)
  <2>1. ASSUME NEW x \in 1..(n + 1) PROVE b[x] \in Nodes /\ l[b[x].k] = x
    <3>1. CASE x = n + 1 BY <1>1, <1>3, <3>1 DEF Stored
    <3>2. CASE x # n + 1
      <4>1. x \in 1..n /\ b[x] = a[x] BY <1>0, <3>2 DEF Stored
      <4>2. a[x].k # e.k BY <1>2, <4>1
      <4> QED BY <1>2, <1>3, <4>1, <4>2
    <3> QED BY <3>1, <3>2
  <2> QED BY <2>1 DEF Names
<1>5. ASSUME NEW k \in Keys, l[k] # 0 PROVE l[k] \in 1..(n + 1) /\ b[l[k]].k = k
  <2>1. CASE k = e.k
    <3>1. l[k] = n + 1 BY <1>3, <2>1
    <3>2. b[n + 1] = e BY DEF Stored
    <3> QED BY <1>0, <2>1, <3>1, <3>2
  <2>2. CASE k # e.k
    <3>1. l[k] = h[k] BY <1>3, <2>2
    <3>2. h[k] \in 1..n /\ a[h[k]].k = k BY <1>5, <3>1 DEF Held
    <3>3. h[k] # n + 1 /\ h[k] \in 1..(n + 1) BY <1>0, <3>2
    <3>4. b[h[k]] = a[h[k]] BY <3>2, <3>3 DEF Stored
    <3> QED BY <3>1, <3>2, <3>3, <3>4
  <2> QED BY <2>1, <2>2
<1>6. Held(g, n + 1, b, l) BY <1>0, <1>3, <1>4, <1>5 DEF Held
<1> QED BY <1>6 DEF l

LEMMA ReplaceStep ==
  ASSUME LinkedInv, NEW e \in Nodes, Replace(e)
  PROVE  LinkedInv' /\ Recency!Put(e)
<1> DEFINE i == dlnk[0]["p"]
           gone == {x \in {slots[i]} : x.exp > 0}
           b == slots'
           g == Adjust(dlnk, i, "p", "n")
           l == [hmap EXCEPT ![slots[i].k] = 0, ![e.k] = i]
           w == WalkIn(dlnk, slots)
<1>0. /\ hmap[e.k] = 0 /\ last = Cap /\ out' = Did("put", e.k, gone)
      /\ hmap' = l /\ slots' = [slots EXCEPT ![i] = e] /\ dlnk' = g /\ last' = last
  BY DEF Replace
<1>1. /\ Held(dlnk, last, slots, hmap) /\ dlnk \in Arrays /\ last \in 0..Cap /\ last \in 1..last
      /\ last \in Nat /\ last # 0 /\ Names(slots, hmap, last) /\ slots \in Slots /\ e.k \in Keys
  BY <1>0, LinkedTypes, LinkedAssumption DEF LinkedInv, Held, Nodes
<1>2. PICK s \in Orders(last) : Chained(dlnk, s, last, "p", "n") /\ w = Walk(s, last, slots)
  BY <1>1, OrderExists
<1>3. i = s[last]
  <2>1. Place(s, last, last) = s[last] /\ Place(s, last, last + 1) = 0 BY <1>1, OrderOf
  <2>2. last \in 0..last BY <1>1
  <2> QED BY <1>2, <2>1, <2>2 DEF Chained
<1> DEFINE q == First(s, last, last)
<1>4. i \in 1..last /\ i \in 1..Cap BY <1>1, <1>3, OrderOf
<1>5. slots[i] \in Nodes BY <1>1, <1>4 DEF Names
<1>6. slots' \in Slots /\ Stored(slots, b, last, i, e)
  <2>1. \A x \in 1..last : x \in 1..Cap BY <1>1, LinkedAssumption
  <2> QED BY <1>0, <1>1, <1>4, <2>1 DEF Slots, Stored
<1> HIDE DEF i
<1>7. q \in Orders(last) /\ g \in Arrays /\ Chained(g, q, last, "p", "n")
  <2>1. "p" \in Dirs /\ "n" \in Dirs /\ "p" # "n" BY DEF Dirs
  <2> QED BY <1>1, <1>2, <1>3, <2>1, AdjustMoves, FirstOrders
<1> HIDE DEF g
<1>8. Walk(q, last, b) = <<e>> \o Front(Walk(s, last, slots)) /\ Last(Walk(s, last, slots)) = slots[i]
  <2>1. Stored(slots, b, last, s[last], e) BY <1>3, <1>6
  <2> HIDE DEF b
  <2> QED BY <1>1, <1>3, <2>1, WalkReplaced
<1> HIDE DEF q, b
<1>9. Held(g, last, b, l) BY <1>0, <1>1, <1>4, <1>6, <1>7, HeldRenamed
<1> HIDE DEF l
<1>10. Held(dlnk', last', slots', hmap') BY <1>0, <1>9 DEF b
<1>11. out' \in Outs
  <2>1. gone \in SUBSET Nodes BY <1>5
  <2> QED BY <1>0, <1>1, <2>1 DEF Did, Outs
<1>12. LinkedInv' BY <1>6, <1>10, <1>11, StepIs
<1>13. e.k \notin KeysIn(w) /\ Len(w) = Cap
  <2>1. e.k \notin KeysIn(w) BY <1>0, <1>1, <1>2, KeysHeld
  <2> QED BY <1>0, <1>1, <1>2, <2>1, WalkLevel
<1>14. Front(w) = Front(Walk(s, last, slots)) /\ Last(w) = slots[i] BY <1>2, <1>8
<1> HIDE DEF w
<1>15. WalkIn(dlnk', slots') = PutIn(w, e, Cap)
  <2>1. WalkIn(g, b) = Walk(q, last, b) BY <1>1, <1>7, WalkInIs
  <2> QED BY <1>0, <1>8, <1>13, <1>14, <2>1 DEF PutIn, b
<1>16. EvictedBy(w, e, Cap) = gone BY <1>13, <1>14 DEF EvictedBy
<1>17. out' = Recency!Did("put", e.k, EvictedBy(w, e, Cap))
  BY <1>0, <1>16 DEF Did, Recency!Did
<1>18. Recency!Put(e)
  BY <1>15, <1>17, WalkOrderIs, SameOperations DEF Recency!Put, w
<1> QED BY <1>12, <1>18

LEMMA InsertStep ==
  ASSUME LinkedInv, NEW e \in Nodes, Insert(e)
  PROVE  LinkedInv' /\ Recency!Put(e)
<1> DEFINE i == last + 1
           empty == \A k \in Keys : hmap[k] = 0
           behind == IF empty THEN 0 ELSE dlnk[0]["n"]
           b == slots'
           l == [hmap EXCEPT ![e.k] = i]
           w == WalkIn(dlnk, slots)
<1>0. /\ hmap[e.k] = 0 /\ last < Cap /\ last' = i /\ slots' = [slots EXCEPT ![i] = e]
      /\ hmap' = l
      /\ dlnk' = [dlnk EXCEPT ![behind]["p"] = i, ![i]["p"] = 0, ![i]["n"] = dlnk[0]["n"],
                              ![0]["n"] = i]
      /\ out' = Did("put", e.k, {})
  BY DEF Insert
<1>1. /\ Held(dlnk, last, slots, hmap) /\ dlnk \in Arrays /\ last \in 0..Cap /\ last \in Nat
      /\ i \in 1..Cap /\ Names(slots, hmap, last) /\ slots \in Slots /\ e.k \in Keys
  <2>1. /\ Held(dlnk, last, slots, hmap) /\ dlnk \in Arrays /\ last \in 0..Cap
        /\ Names(slots, hmap, last) /\ slots \in Slots /\ e.k \in Keys
    BY LinkedTypes DEF LinkedInv, Held, Nodes
  <2>2. last < Cap BY <1>0
  <2>3. last \in Nat /\ Cap \in Nat BY <2>1, LinkedAssumption
  <2>4. last + 1 \in 1..Cap BY <2>2, <2>3
  <2> QED BY <2>1, <2>3, <2>4
<1>2. PICK s \in Orders(last) : Chained(dlnk, s, last, "p", "n") /\ w = Walk(s, last, slots)
  BY <1>1, OrderExists
<1>3. behind = Place(s, last, 1)
  <2>1. CASE last = 0
    <3>1. 1 \notin 1..last BY <2>1
    <3>2. empty BY <1>1, <2>1 DEF Held
    <3> QED BY <3>1, <3>2 DEF Place
  <2>2. CASE last # 0
    <3>1. 1 \in 1..last /\ 0 \in 0..last /\ 0 + 1 = 1 BY <1>1, <2>2
    <3>2. slots[1].k \in Keys /\ hmap[slots[1].k] = 1 BY <1>1, <3>1 DEF Names, Nodes
    <3>3. ~ empty BY <3>2
    <3>4. Place(s, last, 0) = 0 BY DEF Place
    <3>5. dlnk[Place(s, last, 0)]["n"] = Place(s, last, 0 + 1) BY <1>2, <3>1 DEF Chained
    <3> QED BY <3>1, <3>3, <3>4, <3>5
  <2> QED BY <2>1, <2>2
<1> HIDE DEF behind, empty
<1> DEFINE q == Grown(s, last)
           g == [dlnk EXCEPT ![Place(s, last, 1)]["p"] = last + 1, ![last + 1]["p"] = 0,
                             ![last + 1]["n"] = dlnk[0]["n"], ![0]["n"] = last + 1]
<1>4. dlnk' = g BY <1>0, <1>3
<1>5. q \in Orders(i) /\ g \in Arrays /\ Chained(g, q, i, "p", "n")
  <2> DEFINE f == g
  <2>1. f = g OBVIOUS
  <2> HIDE DEF f
  <2>2. f \in Arrays /\ q \in Orders(i) /\ Chained(f, q, i, "p", "n")
    BY <1>0, <1>1, <1>2, <2>1, InsertLinks
  <2> QED BY <2>1, <2>2
<1> HIDE DEF g
<1>6. slots' \in Slots /\ Stored(slots, b, last, last + 1, e)
  <2>1. \A x \in 1..last : x \in 1..Cap BY <1>1, LinkedAssumption
  <2> QED BY <1>0, <1>1, <2>1 DEF Slots, Stored
<1> HIDE DEF b
<1>7. Walk(q, i, b) = <<e>> \o Walk(s, last, slots) BY <1>1, <1>6, WalkGrown
<1>8. Held(g, i, b, l) BY <1>0, <1>1, <1>5, <1>6, HeldGrown
<1> HIDE DEF q, l
<1>9. Held(dlnk', last', slots', hmap') BY <1>0, <1>4, <1>8 DEF b
<1>10. out' \in Outs BY <1>0, <1>1 DEF Did, Outs
<1>11. LinkedInv' BY <1>6, <1>9, <1>10, StepIs
<1>12. e.k \notin KeysIn(w) /\ Len(w) # Cap
  <2>1. e.k \notin KeysIn(w) BY <1>0, <1>1, <1>2, KeysHeld
  <2>2. Len(w) = last BY <1>1, <1>2, WalkLevel
  <2>3. last # Cap BY <1>0, <1>1, LinkedAssumption
  <2> QED BY <2>1, <2>2, <2>3
<1>13. WalkIn(dlnk', slots') = PutIn(w, e, Cap) /\ EvictedBy(w, e, Cap) = {}
  <2>1. WalkIn(g, b) = Walk(q, i, b)
    <3>1. i \in 0..Cap BY <1>1
    <3> QED BY <1>5, <3>1, WalkInIs
  <2>2. WalkIn(dlnk', slots') = <<e>> \o w BY <1>2, <1>4, <1>7, <2>1 DEF b
  <2> HIDE DEF w
  <2> QED BY <1>12, <2>2 DEF PutIn, EvictedBy
<1>14. out' = Recency!Did("put", e.k, {}) BY <1>0 DEF Did, Recency!Did
<1>15. Recency!Put(e)
  BY <1>13, <1>14, WalkOrderIs, SameOperations DEF Recency!Put
<1> QED BY <1>11, <1>15

LEMMA LinkedStarts == LinkedInit => LinkedInv /\ Recency!Init
<1> SUFFICES ASSUME LinkedInit PROVE LinkedInv /\ Recency!Init OBVIOUS
<1> DEFINE s == [x \in 1..0 |-> 1]
<1>0. Cap \in Nat /\ 0 \in 0..Cap /\ 0 \in Nat BY LinkedAssumption
<1>1. /\ dlnk = [i \in 0..Cap |-> [dir \in Dirs |-> 0]]
      /\ slots = [i \in 1..Cap |-> NoNode] /\ hmap = [k \in Keys |-> 0]
      /\ last = 0 /\ out = [op |-> "none", k |-> {}, evicted |-> {}]
  BY DEF LinkedInit, Indices, Nothing
<1>2. dlnk \in Arrays /\ slots \in Slots /\ hmap \in [Keys -> 0..Cap] /\ out \in Outs
  BY <1>0, <1>1 DEF Arrays, Slots, Outs
<1>3. s \in Orders(0) BY DEF Orders
<1>4. Chained(dlnk, s, 0, "p", "n")
  <2>1. Place(s, 0, 0) = 0 /\ Place(s, 0, 1) = 0 BY DEF Place
  <2>2. \A i \in 0..0 : i = 0 /\ i + 1 = 1 BY <1>0
  <2>3. dlnk[0]["n"] = 0 /\ dlnk[0]["p"] = 0 BY <1>0, <1>1 DEF Dirs
  <2> HIDE DEF s
  <2> QED BY <2>1, <2>2, <2>3 DEF Chained
<1>5. Held(dlnk, last, slots, hmap)
  <2> HIDE DEF s
  <2> QED BY <1>0, <1>1, <1>2, <1>3, <1>4 DEF Held, Names
<1>6. LinkedInv BY <1>0, <1>1, <1>2, <1>5, LinkedTypes DEF LinkedInv
<1>7. WalkIn(dlnk, slots) = <<>>
  <2>1. WalkIn(dlnk, slots) = Walk(s, 0, slots)
    <3> HIDE DEF s
    <3> QED BY <1>0, <1>2, <1>3, <1>4, WalkInIs
  <2> QED BY <2>1 DEF Walk
<1>8. Recency!Init BY <1>1, <1>7, WalkOrderIs DEF Recency!Init
<1> QED BY <1>6, <1>8

LEMMA LinkedStep ==
  LinkedInv /\ [LinkedNext]_linkedVars => LinkedInv' /\ [Recency!Next]_Recency!vars
<1> SUFFICES ASSUME LinkedInv, [LinkedNext]_linkedVars
             PROVE  LinkedInv' /\ [Recency!Next]_Recency!vars
  OBVIOUS
<1>0. Recency!Nodes = Nodes BY DEF Recency!Nodes, Nodes
<1>1. ASSUME NEW e \in Nodes, Put(e) PROVE LinkedInv' /\ Recency!Put(e)
  BY <1>1, UpdateStep, ReplaceStep, InsertStep DEF Put
<1>2. ASSUME NEW k \in Keys, Touch(k) PROVE LinkedInv' /\ Recency!Touch(k)
  BY <1>2, TouchStep
<1>3. ASSUME NEW k \in Keys, Del(k) PROVE LinkedInv' /\ Recency!Del(k)
  BY <1>3, DelStep
<1>4. CASE UNCHANGED linkedVars
  <2>1. /\ dlnk' = dlnk /\ slots' = slots /\ hmap' = hmap /\ last' = last /\ out' = out
    BY <1>4 DEF linkedVars
  <2>2. LinkedInv'
    <3>1. Held(dlnk', last', slots', hmap') BY <2>1 DEF LinkedInv
    <3>2. slots' \in Slots /\ out' \in Outs BY <2>1, LinkedTypes DEF LinkedInv
    <3> QED BY <3>1, <3>2, StepIs
  <2>3. WalkOrder' = WalkOrder BY <2>1, WalkOrderIs
  <2> QED BY <2>1, <2>2, <2>3 DEF Recency!vars
<1>5. CASE LinkedNext
  <2>1. \/ \E e \in Nodes : Put(e)
        \/ \E k \in Keys : Touch(k) \/ Del(k)
    BY <1>5, LinkedAssumption DEF LinkedNext
  <2> QED BY <1>0, <1>1, <1>2, <1>3, <2>1 DEF Recency!Next
<1> QED BY <1>4, <1>5

(* Place every moment the links chain the indices in some order, and hmap and  *)
(* the nodes name each other (store/lru2.go:251-331): what the next two     *)
(* theorems follow from.                                                    *)
THEOREM LinkedInvariance == LinkedSpec => []LinkedInv
<1>1. LinkedInit => LinkedInv BY LinkedStarts
<1>2. LinkedInv /\ [LinkedNext]_linkedVars => LinkedInv' BY LinkedStep
<1> QED BY <1>1, <1>2, PTL DEF LinkedSpec

(* No adjust loses a node or closes a cycle: the list runs through every    *)
(* node taken from the array once, the same way in both directions, and     *)
(* hmap names exactly those nodes (store/lru2.go:251-331).                  *)
THEOREM LevelWellLinked == LinkedSpec => []WellLinked
<1>1. LinkedInv => WellLinked
  <2> SUFFICES ASSUME LinkedInv PROVE WellLinked OBVIOUS
  <2>1. /\ LinkedTypeOK /\ Held(dlnk, last, slots, hmap) /\ dlnk \in Arrays /\ last \in 0..Cap
        /\ last \in Nat
    BY LinkedAssumption DEF LinkedInv, Held
  <2>2. PICK s \in Orders(last) : Chained(dlnk, s, last, "p", "n") BY <2>1 DEF Held
  <2>3. /\ s \in Lists /\ Len(s) = last /\ ToSet(s) = 1..last BY <2>1, <2>2, OrderIsList
  <2>4. Follow(dlnk, s, "n") /\ Follow(dlnk, Reverse(s), "p")
    BY <2>1, <2>2, WalkFollows
  <2>5. Follows(s, "n") /\ Follows(Reverse(s), "p")
    BY <2>4 DEF Follow, Follows
  <2>7. ASSUME NEW k \in Keys, hmap[k] # 0
        PROVE  slots[hmap[k]] # NoNode /\ slots[hmap[k]].k = k
    BY <2>7, IndexHeld, LinkedAssumption
  <2>8. ASSUME NEW i \in 1..last PROVE slots[i] # NoNode /\ hmap[slots[i].k] = i
    BY <2>1, LinkedAssumption DEF Held, Names
  <2> QED BY <2>1, <2>3, <2>5, <2>7, <2>8 DEF WellLinked
<1> QED BY <1>1, LinkedInvariance, PTL

(* The arrays implement the bounded recency list that Lru2 is built from:   *)
(* every put, get and del has the effect of the abstract operation on the   *)
(* order of the walk and evicts the same node (store/lru2.go:251-331).      *)
THEOREM LevelRefinesRecency == LinkedSpec => ImplementsRecency
<1>1. LinkedInit => Recency!Init BY LinkedStarts
<1>2. LinkedInv /\ [LinkedNext]_linkedVars => [Recency!Next]_Recency!vars BY LinkedStep
<1> QED BY <1>1, <1>2, LinkedInvariance, PTL
        DEF LinkedSpec, ImplementsRecency, Recency!Spec
=============================================================================
