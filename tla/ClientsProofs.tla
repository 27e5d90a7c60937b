----------------------------- MODULE ClientsProofs -----------------------------
(***************************************************************************)
(* The clients: the phone, for any workspaces, conversations, coding       *)
(* workflows and requests that fail; and the home page of the web client,  *)
(* for any conversations, messages, fetches and calls that get lost.       *)
(***************************************************************************)
EXTENDS MCClients, FiniteSetTheorems, SequenceTheorems, WellFoundedInduction,
        FunctionTheorems, TLAPS

-----------------------------------------------------------------------------
(***************************************************************************)
(* Requests without an answer.                                             *)
(***************************************************************************)
Elements(s) == {s[i] : i \in DOMAIN s}
NoneOf(s, k) == \A i \in DOMAIN s : s[i].kind # k
IsLast(s, k, r) ==
    \E i \in DOMAIN s : /\ s[i] = r /\ s[i].kind = k
                        /\ \A j \in DOMAIN s : j > i => s[j].kind # k

\* The steps of a decision: the decision itself, then its list, then its thread.
Deciding(r) == r.kind = "decide" \/ (r.kind # "decide" /\ r.by = "decision")
SomeDecide(s) == \E i \in DOMAIN s : Deciding(s[i])
OneDecides(s) == \A i, j \in DOMAIN s : Deciding(s[i]) /\ Deciding(s[j]) => i = j

LEMMA Removed ==
    ASSUME NEW S, NEW s \in Seq(S), NEW i \in 1..Len(s)
    PROVE  /\ Phone!RemoveAt(s, i) \in Seq(S) /\ Len(Phone!RemoveAt(s, i)) = Len(s) - 1
           /\ \A j \in 1..(i - 1) : Phone!RemoveAt(s, i)[j] = s[j]
           /\ \A j \in i..(Len(s) - 1) : Phone!RemoveAt(s, i)[j] = s[j + 1]
<1> DEFINE a == SubSeq(s, 1, i - 1)
           b == SubSeq(s, i + 1, Len(s))
<1>1. /\ a \in Seq(S) /\ Len(a) = i - 1
      /\ \A j \in 1..(i - 1) : a[j] = s[j]
  OBVIOUS
<1>2. /\ b \in Seq(S) /\ Len(b) = Len(s) - i
      /\ \A j \in 1..(Len(s) - i) : b[j] = s[i + j]
  OBVIOUS
<1>3. Phone!RemoveAt(s, i) = a \o b  BY DEF Phone!RemoveAt
<1> HIDE DEF a, b
<1>4. /\ a \o b \in Seq(S) /\ Len(a \o b) = Len(a) + Len(b)
      /\ \A j \in 1..Len(a) : (a \o b)[j] = a[j]
      /\ \A j \in (Len(a) + 1)..(Len(a) + Len(b)) : (a \o b)[j] = b[j - Len(a)]
  <2>1. a \in Seq(S) /\ b \in Seq(S)  BY <1>1, <1>2
  <2>2. a \o b \in Seq(S) /\ Len(a \o b) = Len(a) + Len(b)  BY <2>1
  <2>3. ASSUME NEW j \in 1..Len(a) PROVE (a \o b)[j] = a[j]  BY <2>1
  <2>4. ASSUME NEW j \in (Len(a) + 1)..(Len(a) + Len(b)) PROVE (a \o b)[j] = b[j - Len(a)]
    BY <2>1
  <2>5. QED  BY <2>2, <2>3, <2>4
<1>5. Len(a \o b) = Len(s) - 1  BY <1>1, <1>2, <1>4
<1>6. ASSUME NEW j \in i..(Len(s) - 1) PROVE (a \o b)[j] = s[j + 1]
  <2>1. (a \o b)[j] = b[j - Len(a)]  BY <1>1, <1>2, <1>4
  <2>2. j - Len(a) \in 1..(Len(s) - i)  BY <1>1
  <2>3. b[j - Len(a)] = s[i + (j - Len(a))]  BY <1>2, <2>2
  <2>4. i + (j - Len(a)) = j + 1  BY <1>1
  <2>5. QED  BY <2>1, <2>3, <2>4
<1>7. QED  BY <1>1, <1>3, <1>4, <1>5, <1>6

LEMMA Joined ==
    ASSUME NEW S, NEW s \in Seq(S), NEW q \in Seq(S)
    PROVE  /\ s \o q \in Seq(S) /\ DOMAIN (s \o q) = 1..(Len(s) + Len(q))
           /\ \A j \in 1..Len(s) : (s \o q)[j] = s[j]
           /\ \A j \in 1..Len(q) : (s \o q)[Len(s) + j] = q[j]
           /\ \A j \in DOMAIN (s \o q) : j \in 1..Len(s) \/ \E m \in 1..Len(q) : j = Len(s) + m
<1>1. s \o q \in Seq(S) /\ Len(s \o q) = Len(s) + Len(q)  OBVIOUS
<1>2. DOMAIN (s \o q) = 1..(Len(s) + Len(q))  BY <1>1
<1>3. \A j \in 1..Len(s) : (s \o q)[j] = s[j]  OBVIOUS
<1>4. \A j \in 1..Len(q) : (s \o q)[Len(s) + j] = q[j]  OBVIOUS
<1>5. ASSUME NEW j \in DOMAIN (s \o q)
      PROVE  j \in 1..Len(s) \/ \E m \in 1..Len(q) : j = Len(s) + m
  <2>1. j \in 1..(Len(s) + Len(q)) /\ Len(s) \in Nat /\ Len(q) \in Nat  BY <1>2
  <2>2. CASE j > Len(s)
    <3>1. j - Len(s) \in 1..Len(q) /\ j = Len(s) + (j - Len(s))  BY <2>1, <2>2
    <3>2. QED  BY <3>1
  <2>3. QED  BY <2>1, <2>2
<1>6. QED  BY <1>1, <1>2, <1>3, <1>4, <1>5

\* Requests that were made are the last ones, or leave the last ones alone.
LEMMA RequestsAdded ==
    ASSUME NEW S, NEW s \in Seq(S), NEW q \in Seq(S)
    PROVE  /\ s \o q \in Seq(S)
           /\ Elements(s \o q) = Elements(s) \cup Elements(q)
           /\ SomeDecide(s \o q) <=> SomeDecide(s) \/ SomeDecide(q)
           /\ OneDecides(s) /\ OneDecides(q) /\ ~(SomeDecide(s) /\ SomeDecide(q))
                 => OneDecides(s \o q)
           /\ \A k : /\ NoneOf(s \o q, k) <=> NoneOf(s, k) /\ NoneOf(q, k)
                     /\ NoneOf(q, k) => \A r : IsLast(s \o q, k, r) => IsLast(s, k, r)
                     /\ ~NoneOf(q, k) => \A r : IsLast(s \o q, k, r) => IsLast(q, k, r)
<1> DEFINE t == s \o q
<1>1. /\ t \in Seq(S) /\ DOMAIN t = 1..(Len(s) + Len(q))
      /\ \A j \in 1..Len(s) : t[j] = s[j]
      /\ \A j \in 1..Len(q) : t[Len(s) + j] = q[j]
      /\ \A j \in DOMAIN t : j \in 1..Len(s) \/ \E m \in 1..Len(q) : j = Len(s) + m
  BY Joined
<1>2. DOMAIN s = 1..Len(s) /\ DOMAIN q = 1..Len(q) /\ Len(s) \in Nat /\ Len(q) \in Nat
  OBVIOUS
<1> HIDE DEF t
<1>3. /\ \A j \in DOMAIN s : j \in DOMAIN t /\ t[j] = s[j]
      /\ \A m \in DOMAIN q : Len(s) + m \in DOMAIN t /\ t[Len(s) + m] = q[m]
  BY <1>1, <1>2
<1>4. ASSUME NEW j \in DOMAIN t
      PROVE  \/ j \in DOMAIN s /\ t[j] = s[j]
             \/ \E m \in DOMAIN q : j = Len(s) + m /\ t[j] = q[m]
  BY <1>1, <1>2
<1>5. Elements(t) = Elements(s) \cup Elements(q)
  BY <1>3, <1>4 DEF Elements
<1>6. SomeDecide(t) <=> SomeDecide(s) \/ SomeDecide(q)
  BY <1>3, <1>4 DEF SomeDecide
<1>7. ASSUME OneDecides(s), OneDecides(q), ~(SomeDecide(s) /\ SomeDecide(q))
      PROVE  OneDecides(t)
  <2> SUFFICES ASSUME NEW i \in DOMAIN t, NEW j \in DOMAIN t, Deciding(t[i]), Deciding(t[j])
               PROVE  i = j
    BY DEF OneDecides
  <2>1. CASE i \in DOMAIN s /\ t[i] = s[i] /\ j \in DOMAIN s /\ t[j] = s[j]
    BY <1>7, <2>1 DEF OneDecides
  <2>2. CASE (\E m \in DOMAIN q : i = Len(s) + m /\ t[i] = q[m])
               /\ \E m \in DOMAIN q : j = Len(s) + m /\ t[j] = q[m]
    BY <1>7, <2>2 DEF OneDecides
  <2>3. CASE (i \in DOMAIN s /\ t[i] = s[i]) /\ \E m \in DOMAIN q : t[j] = q[m]
    BY <1>7, <2>3 DEF SomeDecide
  <2>4. CASE (j \in DOMAIN s /\ t[j] = s[j]) /\ \E m \in DOMAIN q : t[i] = q[m]
    BY <1>7, <2>4 DEF SomeDecide
  <2>5. QED  BY <1>4, <2>1, <2>2, <2>3, <2>4
<1>8. ASSUME NEW k
      PROVE  /\ NoneOf(t, k) <=> NoneOf(s, k) /\ NoneOf(q, k)
             /\ NoneOf(q, k) => \A r : IsLast(t, k, r) => IsLast(s, k, r)
             /\ ~NoneOf(q, k) => \A r : IsLast(t, k, r) => IsLast(q, k, r)
  <2>1. NoneOf(t, k) <=> NoneOf(s, k) /\ NoneOf(q, k)
    BY <1>3, <1>4 DEF NoneOf
  <2>2. ASSUME NoneOf(q, k), NEW r, IsLast(t, k, r) PROVE IsLast(s, k, r)
    <3>1. PICK i \in DOMAIN t : /\ t[i] = r /\ t[i].kind = k
                                /\ \A j \in DOMAIN t : j > i => t[j].kind # k
      BY <2>2 DEF IsLast
    <3>2. i \in DOMAIN s /\ t[i] = s[i]
      BY <1>4, <2>2, <3>1 DEF NoneOf
    <3>3. \A j \in DOMAIN s : j > i => s[j].kind # k
      BY <1>3, <3>1
    <3>4. QED  BY <3>1, <3>2, <3>3 DEF IsLast
  <2>3. ASSUME ~NoneOf(q, k), NEW r, IsLast(t, k, r) PROVE IsLast(q, k, r)
    <3>1. PICK i \in DOMAIN t : /\ t[i] = r /\ t[i].kind = k
                                /\ \A j \in DOMAIN t : j > i => t[j].kind # k
      BY <2>3 DEF IsLast
    <3>2. PICK n \in DOMAIN q : q[n].kind = k  BY <2>3 DEF NoneOf
    <3>3. ~(Len(s) + n > i)
      BY <1>3, <3>1, <3>2
    <3>4. PICK m \in DOMAIN q : i = Len(s) + m /\ t[i] = q[m]
      BY <1>2, <1>4, <3>3
    <3>5. \A j \in DOMAIN q : j > m => q[j].kind # k
      <4> SUFFICES ASSUME NEW j \in DOMAIN q, j > m PROVE q[j].kind # k
        OBVIOUS
      <4>1. Len(s) + j > i  BY <1>2, <3>4
      <4>2. QED  BY <1>3, <3>1, <4>1
    <3>6. QED  BY <3>1, <3>4, <3>5 DEF IsLast
  <2>4. QED  BY <2>1, <2>2, <2>3
<1>9. QED  BY <1>1, <1>5, <1>6, <1>7, <1>8 DEF t

\* An answered request that came first of its kind was the last one or leaves it alone.
LEMMA RequestRemoved ==
    ASSUME NEW S, NEW s \in Seq(S), NEW i \in DOMAIN s
    PROVE  /\ Phone!RemoveAt(s, i) \in Seq(S)
           /\ Elements(Phone!RemoveAt(s, i)) \subseteq Elements(s)
           /\ \A r \in Elements(s) : r = s[i] \/ r \in Elements(Phone!RemoveAt(s, i))
           /\ OneDecides(s) => OneDecides(Phone!RemoveAt(s, i))
           /\ OneDecides(s) /\ Deciding(s[i]) => ~SomeDecide(Phone!RemoveAt(s, i))
           /\ ~Deciding(s[i]) => (SomeDecide(Phone!RemoveAt(s, i)) <=> SomeDecide(s))
           /\ \A k : s[i].kind # k =>
                 /\ NoneOf(Phone!RemoveAt(s, i), k) <=> NoneOf(s, k)
                 /\ \A r : IsLast(Phone!RemoveAt(s, i), k, r) => IsLast(s, k, r)
           /\ \A k : s[i].kind = k /\ (\A j \in 1..(i - 1) : s[j].kind # k) =>
                 \/ NoneOf(Phone!RemoveAt(s, i), k) /\ IsLast(s, k, s[i])
                 \/ /\ ~NoneOf(Phone!RemoveAt(s, i), k)
                    /\ \A r : IsLast(Phone!RemoveAt(s, i), k, r) => IsLast(s, k, r)
<1> DEFINE t == Phone!RemoveAt(s, i)
           Old(j) == IF j < i THEN j ELSE j + 1
           New(j) == IF j < i THEN j ELSE j - 1
<1>1. i \in 1..Len(s) /\ DOMAIN s = 1..Len(s) /\ Len(s) \in Nat  OBVIOUS
<1>2. /\ t \in Seq(S) /\ Len(t) = Len(s) - 1
      /\ \A j \in 1..(i - 1) : t[j] = s[j]
      /\ \A j \in i..(Len(s) - 1) : t[j] = s[j + 1]
  BY <1>1, Removed
<1> HIDE DEF t
<1>3. DOMAIN t = 1..(Len(s) - 1)  BY <1>2
<1>4. ASSUME NEW j \in DOMAIN t
      PROVE  Old(j) \in DOMAIN s /\ Old(j) # i /\ t[j] = s[Old(j)] /\ New(Old(j)) = j
  BY <1>1, <1>2, <1>3
<1>5. ASSUME NEW j \in DOMAIN s, j # i
      PROVE  New(j) \in DOMAIN t /\ t[New(j)] = s[j] /\ Old(New(j)) = j
  <2>1. CASE j < i  BY <1>1, <1>2, <1>3, <2>1
  <2>2. CASE j > i
    <3>1. j - 1 \in i..(Len(s) - 1) /\ New(j) = j - 1 /\ (j - 1) + 1 = j
      BY <1>1, <2>2
    <3>2. t[j - 1] = s[j]  BY <1>2, <3>1
    <3>3. QED  BY <1>1, <1>3, <3>1, <3>2
  <2>3. QED  BY <1>1, <1>5, <2>1, <2>2
<1>6. \A j, n \in Nat : j < n => Old(j) < Old(n)  BY <1>1
<1>7. \A j \in DOMAIN t : j \in Nat  BY <1>3
<1>8. \A j, n \in DOMAIN s : j > n /\ j # i /\ n # i => New(j) > New(n)  BY <1>1
<1> HIDE DEF Old, New
<1>9. Elements(t) \subseteq Elements(s) /\ \A r \in Elements(s) : r = s[i] \/ r \in Elements(t)
  BY <1>4, <1>5 DEF Elements
<1>10. OneDecides(s) => OneDecides(t)
  <2> SUFFICES ASSUME OneDecides(s), NEW j \in DOMAIN t, NEW n \in DOMAIN t,
                      Deciding(t[j]), Deciding(t[n])
               PROVE  j = n
    BY DEF OneDecides
  <2>1. Old(j) = Old(n)  BY <1>4 DEF OneDecides
  <2>2. QED  BY <1>4, <2>1
<1>11. OneDecides(s) /\ Deciding(s[i]) => ~SomeDecide(t)
  BY <1>4 DEF OneDecides, SomeDecide
<1>12. ~Deciding(s[i]) => (SomeDecide(t) <=> SomeDecide(s))
  BY <1>4, <1>5 DEF SomeDecide
<1>13. ASSUME NEW k, NEW r, IsLast(t, k, r), s[i].kind # k \/ ~IsLast(s, k, s[i])
       PROVE  IsLast(s, k, r)
  <2>1. PICK n \in DOMAIN t : /\ t[n] = r /\ t[n].kind = k
                              /\ \A j \in DOMAIN t : j > n => t[j].kind # k
    BY <1>13 DEF IsLast
  <2>2. Old(n) \in DOMAIN s /\ s[Old(n)] = r /\ s[Old(n)].kind = k
    BY <1>4, <2>1
  <2>3. ASSUME NEW j \in DOMAIN s, j > Old(n), j # i PROVE s[j].kind # k
    <3>1. New(j) > New(Old(n))  BY <1>4, <1>8, <2>2, <2>3
    <3>2. New(j) > n  BY <1>4, <3>1
    <3>3. QED  BY <1>5, <2>1, <2>3, <3>2
  <2>4. i > Old(n) => s[i].kind # k
    <3> SUFFICES ASSUME i > Old(n), s[i].kind = k PROVE FALSE
      OBVIOUS
    <3>1. \A j \in DOMAIN s : j > i => s[j].kind # k
      BY <1>1, <2>2, <2>3
    <3>2. QED  BY <1>13, <3>1 DEF IsLast
  <2>5. QED  BY <2>2, <2>3, <2>4 DEF IsLast
<1>14. ASSUME NEW k, s[i].kind # k
       PROVE  /\ NoneOf(t, k) <=> NoneOf(s, k)
              /\ \A r : IsLast(t, k, r) => IsLast(s, k, r)
  BY <1>4, <1>5, <1>13, <1>14 DEF NoneOf
<1>15. ASSUME NEW k, s[i].kind = k, \A j \in 1..(i - 1) : s[j].kind # k
       PROVE  \/ NoneOf(t, k) /\ IsLast(s, k, s[i])
              \/ ~NoneOf(t, k) /\ \A r : IsLast(t, k, r) => IsLast(s, k, r)
  <2>1. CASE IsLast(s, k, s[i]) /\ NoneOf(t, k)
    BY <2>1
  <2>2. CASE \E j \in DOMAIN s : j > i /\ s[j].kind = k
    <3>1. PICK j \in DOMAIN s : j > i /\ s[j].kind = k  BY <2>2
    <3>2. ~NoneOf(t, k)  BY <1>1, <1>5, <3>1 DEF NoneOf
    <3>3. ASSUME NEW r, IsLast(t, k, r) PROVE IsLast(s, k, r)
      <4>1. PICK n \in DOMAIN t : /\ t[n] = r /\ t[n].kind = k
                                  /\ \A m \in DOMAIN t : m > n => t[m].kind # k
        BY <3>3 DEF IsLast
      <4>2. Old(n) \in DOMAIN s /\ s[Old(n)] = r /\ s[Old(n)].kind = k /\ Old(n) # i
        BY <1>4, <4>1
      <4>3. Old(n) > i  BY <1>1, <1>15, <4>2
      <4>4. ASSUME NEW m \in DOMAIN s, m > Old(n) PROVE s[m].kind # k
        <5>1. m # i  BY <1>1, <4>2, <4>3, <4>4
        <5>2. New(m) > n  BY <1>4, <1>8, <4>2, <4>4, <5>1
        <5>3. QED  BY <1>5, <4>1, <5>1, <5>2
      <4>5. QED  BY <4>2, <4>4 DEF IsLast
    <3>4. QED  BY <3>2, <3>3
  <2>3. CASE ~\E j \in DOMAIN s : j > i /\ s[j].kind = k
    <3>1. \A j \in DOMAIN s : j # i => s[j].kind # k
      BY <1>1, <1>15, <2>3
    <3>2. NoneOf(t, k)  BY <1>4, <3>1 DEF NoneOf
    <3>3. IsLast(s, k, s[i])  BY <1>15, <2>3 DEF IsLast
    <3>4. QED  BY <3>2, <3>3
  <2>4. QED  BY <2>2, <2>3
<1>16. QED
  BY <1>2, <1>9, <1>10, <1>11, <1>12, <1>14, <1>15 DEF t

\* A request that was served keeps its place.
LEMMA RequestServed ==
    ASSUME NEW S, NEW s \in Seq(S), NEW i \in DOMAIN s, NEW x \in S,
           x.kind = s[i].kind, Deciding(x) <=> Deciding(s[i])
    PROVE  LET t == [s EXCEPT ![i] = x]
           IN  /\ t \in Seq(S)
               /\ Elements(t) \subseteq Elements(s) \cup {x}
               /\ x \in Elements(t)
               /\ \A r \in Elements(s) : r = s[i] \/ r \in Elements(t)
               /\ SomeDecide(t) <=> SomeDecide(s)
               /\ OneDecides(s) => OneDecides(t)
               /\ \A k : /\ NoneOf(t, k) <=> NoneOf(s, k)
                         /\ \A r : IsLast(t, k, r) =>
                               IsLast(s, k, r) \/ (r = x /\ IsLast(s, k, s[i]))
<1> DEFINE t == [s EXCEPT ![i] = x]
<1>1. /\ t \in Seq(S) /\ DOMAIN t = DOMAIN s
      /\ t[i] = x /\ \A j \in DOMAIN s : j # i => t[j] = s[j]
  OBVIOUS
<1> HIDE DEF t
<1>2. \A j \in DOMAIN s : t[j].kind = s[j].kind /\ (Deciding(t[j]) <=> Deciding(s[j]))
  BY <1>1
<1>3. /\ Elements(t) \subseteq Elements(s) \cup {x} /\ x \in Elements(t)
      /\ \A r \in Elements(s) : r = s[i] \/ r \in Elements(t)
  BY <1>1 DEF Elements
<1>4. (SomeDecide(t) <=> SomeDecide(s)) /\ (OneDecides(s) => OneDecides(t))
  BY <1>1, <1>2 DEF SomeDecide, OneDecides
<1>5. ASSUME NEW k
      PROVE  /\ NoneOf(t, k) <=> NoneOf(s, k)
             /\ \A r : IsLast(t, k, r) => IsLast(s, k, r) \/ (r = x /\ IsLast(s, k, s[i]))
  BY <1>1, <1>2 DEF NoneOf, IsLast
<1>6. QED  BY <1>1, <1>3, <1>4, <1>5 DEF t

LEMMA FewRequests ==
    ASSUME NEW S, NEW x \in S, NEW y \in S
    PROVE  /\ << >> \in Seq(S) /\ <<x>> \in Seq(S) /\ <<x, y>> \in Seq(S)
           /\ Elements(<< >>) = {} /\ Elements(<<x>>) = {x} /\ Elements(<<x, y>>) = {x, y}
           /\ ~SomeDecide(<< >>) /\ OneDecides(<< >>)
           /\ OneDecides(<<x>>) /\ (SomeDecide(<<x>>) <=> Deciding(x))
           /\ \A k : /\ NoneOf(<< >>, k) /\ (NoneOf(<<x>>, k) <=> x.kind # k)
                     /\ NoneOf(<<x, y>>, k) <=> (x.kind # k /\ y.kind # k)
           /\ ~Deciding(x) /\ ~Deciding(y) => ~SomeDecide(<<x, y>>) /\ OneDecides(<<x, y>>)
<1>1. /\ DOMAIN << >> = {} /\ DOMAIN <<x>> = {1} /\ DOMAIN <<x, y>> = {1, 2}
      /\ <<x>>[1] = x /\ <<x, y>>[1] = x /\ <<x, y>>[2] = y
      /\ << >> \in Seq(S) /\ <<x>> \in Seq(S) /\ <<x, y>> \in Seq(S)
  OBVIOUS
<1>2. Elements(<< >>) = {} /\ Elements(<<x>>) = {x} /\ Elements(<<x, y>>) = {x, y}
  BY <1>1 DEF Elements
<1>3. /\ ~SomeDecide(<< >>) /\ OneDecides(<< >>)
      /\ OneDecides(<<x>>) /\ (SomeDecide(<<x>>) <=> Deciding(x))
      /\ ~Deciding(x) /\ ~Deciding(y) => ~SomeDecide(<<x, y>>) /\ OneDecides(<<x, y>>)
  BY <1>1 DEF SomeDecide, OneDecides
<1>4. \A k : /\ NoneOf(<< >>, k) /\ (NoneOf(<<x>>, k) <=> x.kind # k)
             /\ NoneOf(<<x, y>>, k) <=> (x.kind # k /\ y.kind # k)
  BY <1>1 DEF NoneOf
<1>5. QED  BY <1>1, <1>2, <1>3, <1>4

LEMMA LastIsOneOfThem ==
    \A s, k, r : /\ IsLast(s, k, r) => r \in Elements(s) /\ r.kind = k /\ ~NoneOf(s, k)
                 /\ NoneOf(s, k) <=> \A x \in Elements(s) : x.kind # k
  BY DEF IsLast, Elements, NoneOf

-----------------------------------------------------------------------------
(***************************************************************************)
(* The inductive invariant.                                                *)
(***************************************************************************)
\* One decision is under way at a time, and its list knows the conversation of the tap.
DecisionsComeSingly ==
    /\ busy <=> SomeDecide(requests)
    /\ OneDecides(requests)
    /\ \A r \in Elements(requests) : r.kind = "list" /\ r.by = "decision" => r.sel # None

\* Before a workspace has been chosen nothing is shown or asked for.
EntryComesFirst ==
    /\ entry.at \in {"workspaces", "list"} => session
    /\ ~session \/ entry.at \in {"session", "workspaces"} => workspace = None
    /\ workspace = None =>
          listed.ws = None /\ conversation = None /\ thread = None /\ requests = << >>

\* Only the last plan of a workflow may await its decision, and after ours it does not.
GatesAreDecided ==
    \A c \in Coding :
        /\ gate[c] # << >>
        /\ \A n \in 1..(Len(gate[c]) - 1) : gate[c][n] = "revision_requested"
        /\ c \in decided => Phone!Current(c) \in Phone!Answers

\* The screen is still where the decision was made.
DecisionStays ==
    \A r \in Elements(requests) : Deciding(r) =>
        /\ r.ws = workspace /\ conversation # None
        /\ conversation = IF r.kind = "list" THEN r.sel ELSE r.conv

\* The lists that were asked for last, or came last, are those of the workspace.
ListsFollow ==
    /\ \A r : IsLast(requests, "list", r) => r.ws = workspace
    /\ NoneOf(requests, "list") =>
          listed.ws = workspace /\ (conversation # None => Home[conversation] = workspace)

\* The thread that was asked for last, or came last, is that of the selection; one of another
\* workspace is empty, and a list is on its way that will select another.
ThreadsFollow ==
    /\ conversation = None => thread = None /\ NoneOf(requests, "thread")
    /\ \A r : IsLast(requests, "thread", r) => r.ws = workspace /\ r.conv = conversation
    /\ NoneOf(requests, "thread") =>
          thread = conversation \/ (conversation # None /\ Home[conversation] # workspace)

NoPending(cards) == \A i \in DOMAIN cards : cards[i] # "pending"

\* An accepted decision has not been answered, or the last list was or will be read after it.
DecisionsShow ==
    \A c \in decided :
        \/ \E r \in Elements(requests) : r.kind = "decide" /\ r.conv = c /\ r.at = "accepted"
        \/ /\ ~NoneOf(requests, "list")
           /\ \A r : IsLast(requests, "list", r) /\ r.read => NoPending(r.cards[c])
        \/ NoneOf(requests, "list") /\ NoPending(listed.cards[c])

Following == DecisionStays /\ ListsFollow /\ ThreadsFollow /\ DecisionsShow

PhoneInv ==
    /\ Phone!TypeOK /\ DecisionsComeSingly /\ EntryComesFirst /\ GatesAreDecided
    /\ Phone!Orderly => Following

-----------------------------------------------------------------------------
(***************************************************************************)
(* Types.                                                                  *)
(***************************************************************************)
LEMMA CardsFacts ==
    /\ \A cards \in Phone!Cards : \A c \in Coding :
          cards[c] \in Seq(Phone!CardStates) /\ Len(cards[c]) <= MaxPlans
    /\ \A f : /\ f \in [Coding -> Seq(Phone!CardStates)]
              /\ \A c \in Coding : Len(f[c]) <= MaxPlans
              => f \in Phone!Cards
    /\ Phone!NoCards \in Phone!Cards
<1>1. MaxPlans \in Nat  BY PhoneConstants DEF Phone!MobileAssumption
<1>2. ASSUME NEW cards \in Phone!Cards, NEW c \in Coding
      PROVE  cards[c] \in Seq(Phone!CardStates) /\ Len(cards[c]) <= MaxPlans
  <2>1. PICK n \in 0..MaxPlans : cards[c] \in [1..n -> Phone!CardStates]
    BY DEF Phone!Cards
  <2>2. QED  BY <1>1, <2>1
<1>3. ASSUME NEW f, f \in [Coding -> Seq(Phone!CardStates)], \A c \in Coding : Len(f[c]) <= MaxPlans
      PROVE  f \in Phone!Cards
  <2>1. ASSUME NEW c \in Coding PROVE f[c] \in UNION {[1..n -> Phone!CardStates] : n \in 0..MaxPlans}
    <3>1. f[c] \in [1..Len(f[c]) -> Phone!CardStates] /\ Len(f[c]) \in 0..MaxPlans
      BY <1>1, <1>3
    <3>2. QED  BY <3>1
  <2>2. QED  BY <1>3, <2>1 DEF Phone!Cards
<1>4. Phone!NoCards \in Phone!Cards
  <2>1. Phone!NoCards \in [Coding -> Seq(Phone!CardStates)] /\ \A c \in Coding : Len(Phone!NoCards[c]) = 0
    BY DEF Phone!NoCards
  <2>2. \A c \in Coding : Len(Phone!NoCards[c]) <= MaxPlans  BY <1>1, <2>1
  <2>3. QED  BY <1>3, <2>1, <2>2
<1>5. QED  BY <1>2, <1>3, <1>4

LEMMA RequestTypes ==
    \A r \in Phone!Requests :
        /\ r.kind \in {"list", "thread", "decide"} /\ r.ws \in Workspaces
        /\ r.kind = "list" => /\ r.read \in BOOLEAN /\ r.cards \in Phone!Cards /\ r.by \in Phone!Askers
                              /\ r.sel \in Conversations \cup {None}
        /\ r.kind = "thread" => r.conv \in Conversations /\ r.by \in Phone!Askers
        /\ r.kind = "decide" => /\ r.conv \in Coding /\ r.answer \in Phone!Answers
                                /\ r.at \in {"asked", "accepted", "refused"}
  BY DEF Phone!Requests

LEMMA LoadTypes ==
    /\ \A w \in Workspaces, by \in Phone!Askers, sel \in Conversations \cup {None} :
          /\ Phone!ListLoad(w, by, sel) \in Phone!Requests
          /\ Phone!ListLoad(w, by, sel).kind = "list" /\ Phone!ListLoad(w, by, sel).ws = w
          /\ Phone!ListLoad(w, by, sel).by = by /\ Phone!ListLoad(w, by, sel).sel = sel
          /\ ~Phone!ListLoad(w, by, sel).read
          /\ Deciding(Phone!ListLoad(w, by, sel)) <=> by = "decision"
    /\ \A w \in Workspaces, c \in Conversations, by \in Phone!Askers :
          /\ Phone!ThreadLoad(w, c, by) \in Phone!Requests
          /\ Phone!ThreadLoad(w, c, by).kind = "thread" /\ Phone!ThreadLoad(w, c, by).ws = w
          /\ Phone!ThreadLoad(w, c, by).conv = c
          /\ Deciding(Phone!ThreadLoad(w, c, by)) <=> by = "decision"
<1>1. ASSUME NEW w \in Workspaces, NEW by \in Phone!Askers, NEW sel \in Conversations \cup {None}
      PROVE  /\ Phone!ListLoad(w, by, sel) \in Phone!Requests
             /\ Phone!ListLoad(w, by, sel).kind = "list" /\ Phone!ListLoad(w, by, sel).ws = w
             /\ Phone!ListLoad(w, by, sel).by = by /\ Phone!ListLoad(w, by, sel).sel = sel
             /\ ~Phone!ListLoad(w, by, sel).read
  BY CardsFacts DEF Phone!ListLoad, Phone!Requests
<1>2. ASSUME NEW w \in Workspaces, NEW c \in Conversations, NEW by \in Phone!Askers
      PROVE  /\ Phone!ThreadLoad(w, c, by) \in Phone!Requests
             /\ Phone!ThreadLoad(w, c, by).kind = "thread" /\ Phone!ThreadLoad(w, c, by).ws = w
             /\ Phone!ThreadLoad(w, c, by).conv = c /\ Phone!ThreadLoad(w, c, by).by = by
  BY DEF Phone!ThreadLoad, Phone!Requests
<1>3. QED  BY <1>1, <1>2 DEF Deciding

LEMMA Elemental ==
    ASSUME Phone!TypeOK
    PROVE  /\ \A r \in Elements(requests) : r \in Phone!Requests
           /\ \A i \in Phone!Open : /\ i \in Nat /\ i >= 1
                              /\ requests[i] \in Elements(requests) /\ requests[i] \in Phone!Requests
           /\ requests \in Seq(Phone!Requests)
           /\ requests = << >> <=> Elements(requests) = {}
<1>1. requests \in Seq(Phone!Requests)  BY DEF Phone!TypeOK
<1>2. \A i \in Phone!Open : i \in Nat /\ i >= 1 /\ requests[i] \in Phone!Requests
  BY <1>1 DEF Phone!Open
<1>3. requests = << >> <=> Phone!Open = {}  BY <1>1 DEF Phone!Open
<1>4. QED  BY <1>1, <1>2, <1>3 DEF Elements, Phone!Open

\* What the effect of a selection asks for.
LEMMA EffectTypes ==
    ASSUME NEW w \in Workspaces, NEW c \in Conversations \cup {None}
    PROVE  LET q == Phone!SelectionEffect(w, c)
           IN  /\ q \in Seq(Phone!Requests) /\ ~SomeDecide(q) /\ OneDecides(q)
               /\ NoneOf(q, "list") /\ NoneOf(q, "decide") /\ (NoneOf(q, "thread") <=> c = None)
               /\ \A r \in Elements(q) : r.kind = "thread" /\ r.ws = w /\ r.conv = c
<1>1. CASE c = None
  <2>1. Phone!SelectionEffect(w, c) = << >>  BY <1>1 DEF Phone!SelectionEffect
  <2>2. QED  BY <1>1, <2>1, FewRequests DEF Elements, NoneOf, SomeDecide, OneDecides
<1>2. CASE c # None
  <2> DEFINE x == Phone!ThreadLoad(w, c, "screen")
  <2>1. Phone!SelectionEffect(w, c) = <<x>>  BY <1>2 DEF Phone!SelectionEffect
  <2>2. "screen" \in Phone!Askers  BY DEF Phone!Askers
  <2>3. x \in Phone!Requests /\ x.kind = "thread" /\ x.ws = w /\ x.conv = c /\ ~Deciding(x)
    BY <1>2, <2>2, LoadTypes
  <2> HIDE DEF x
  <2>4. /\ <<x>> \in Seq(Phone!Requests) /\ Elements(<<x>>) = {x} /\ OneDecides(<<x>>)
        /\ SomeDecide(<<x>>) <=> Deciding(x)
        /\ \A k : NoneOf(<<x>>, k) <=> x.kind # k
    BY <2>3, FewRequests
  <2>5. QED  BY <1>2, <2>1, <2>3, <2>4
<1>3. QED  BY <1>1, <1>2

-----------------------------------------------------------------------------
(***************************************************************************)
(* Signing in.                                                             *)
(***************************************************************************)
\* What the screen shows does not depend on how far the entry is.
LEMMA EntryFrame ==
    ASSUME PhoneInv, UNCHANGED <<Phone!serverVars, workspace, listed, conversation, thread, busy, moved,
                                 Phone!netVars>>,
           Phone!TypeOK', EntryComesFirst', failures' = 0 => failures = 0
    PROVE  PhoneInv'
<1>1. /\ gate' = gate /\ decided' = decided /\ workspace' = workspace /\ listed' = listed
      /\ conversation' = conversation /\ thread' = thread /\ busy' = busy /\ moved' = moved
      /\ requests' = requests /\ outrun' = outrun
  BY DEF Phone!serverVars, Phone!netVars
<1>2. DecisionsComeSingly'  BY <1>1 DEF PhoneInv, DecisionsComeSingly
<1>3. GatesAreDecided'  BY <1>1 DEF PhoneInv, GatesAreDecided, Phone!Current
<1>4. Phone!Orderly' => Phone!Orderly  BY <1>1 DEF Phone!Orderly
<1>5. Following => Following'
  BY <1>1 DEF Following, DecisionStays, ListsFollow, ThreadsFollow, DecisionsShow
<1>6. QED  BY <1>2, <1>3, <1>4, <1>5 DEF PhoneInv

LEMMA EntrySteps ==
    ASSUME PhoneInv, Phone!SessionLoaded \/ Phone!Login \/ Phone!LoggedIn \/ Phone!EntryFails PROVE PhoneInv'
<1> USE DEF PhoneInv
<1>1. /\ UNCHANGED <<Phone!serverVars, workspace, listed, conversation, thread, busy, moved, Phone!netVars>>
      /\ failures' = 0 => failures = 0
  BY DEF Phone!SessionLoaded, Phone!Login, Phone!LoggedIn, Phone!EntryFails, Phone!Fault,
     Phone!TypeOK
<1>2. Phone!TypeOK'
  <2>1. /\ gate' = gate /\ decided' = decided /\ workspace' = workspace /\ listed' = listed
        /\ conversation' = conversation /\ thread' = thread /\ busy' = busy /\ moved' = moved
        /\ requests' = requests /\ outrun' = outrun
    BY <1>1 DEF Phone!serverVars, Phone!netVars
  <2>2. /\ session' \in BOOLEAN
        /\ entry' \in [by : {"boot", "login"}, at : {"session", "workspaces", "list", "done"}]
    <3>1. session' \in BOOLEAN
      BY DEF Phone!SessionLoaded, Phone!Login, Phone!LoggedIn, Phone!EntryFails, Phone!TypeOK
    <3>2. entry \in [by : {"boot", "login"}, at : {"session", "workspaces", "list", "done"}]
      BY DEF Phone!TypeOK
    <3>3. \/ \E at \in {"workspaces", "done"} : entry' = [entry EXCEPT !.at = at]
          \/ entry' = [by |-> "login", at |-> "session"]
      BY DEF Phone!SessionLoaded, Phone!Login, Phone!LoggedIn, Phone!EntryFails
    <3>4. QED  BY <3>1, <3>2, <3>3
  <2>3. taps' \in 0..MaxTaps /\ failures' \in 0..MaxFaults
    BY PhoneConstants DEF Phone!MobileAssumption, Phone!SessionLoaded, Phone!Login,
       Phone!LoggedIn, Phone!EntryFails, Phone!TypeOK, Phone!Fault
  <2>4. QED  BY <2>1, <2>2, <2>3 DEF Phone!TypeOK
<1>3. EntryComesFirst'
  <2>1. /\ workspace' = workspace /\ listed' = listed
        /\ conversation' = conversation /\ thread' = thread /\ requests' = requests
    BY <1>1 DEF Phone!netVars
  <2>2. /\ entry'.at \in {"workspaces", "list"} => session'
        /\ ~session' \/ entry'.at \in {"session", "workspaces"} => workspace = None
    BY DEF Phone!SessionLoaded, Phone!Login, Phone!LoggedIn, Phone!EntryFails, Phone!TypeOK,
       EntryComesFirst
  <2>3. QED  BY <2>1, <2>2 DEF EntryComesFirst
<1>4. QED  BY <1>1, <1>2, <1>3, EntryFrame

LEMMA WorkspacesLoadedStep == ASSUME PhoneInv, Phone!WorkspacesLoaded PROVE PhoneInv'
<1> USE DEF PhoneInv
<1>1. PICK w \in Workspaces :
        /\ workspace' = w
        /\ requests' = requests \o <<Phone!ListLoad(w, "entry", None),
                                     Phone!ListLoad(w, "screen", None)>>
  BY DEF Phone!WorkspacesLoaded
<1> DEFINE x == Phone!ListLoad(w, "entry", None)
           y == Phone!ListLoad(w, "screen", None)
<1>2. /\ x \in Phone!Requests /\ x.kind = "list" /\ x.ws = w /\ ~x.read /\ ~Deciding(x)
      /\ y \in Phone!Requests /\ y.kind = "list" /\ y.ws = w /\ ~y.read /\ ~Deciding(y)
  BY LoadTypes DEF Phone!Askers
<1>3. /\ entry.at = "workspaces" /\ entry' = [entry EXCEPT !.at = "list"]
      /\ gate' = gate /\ decided' = decided /\ session' = session /\ listed' = listed
      /\ conversation' = conversation /\ thread' = thread /\ busy' = busy /\ moved' = moved
      /\ outrun' = outrun /\ taps' = taps /\ failures' = failures
  BY DEF Phone!WorkspacesLoaded, Phone!serverVars
<1>4. /\ workspace = None /\ conversation = None /\ thread = None /\ requests = << >>
      /\ session
  BY <1>3 DEF EntryComesFirst
<1>5. requests' = <<x, y>>
  <2>1. <<x, y>> \in Seq(Phone!Requests)  BY <1>2
  <2>2. << >> \o <<x, y>> = <<x, y>>  BY <2>1
  <2>3. QED  BY <1>1, <1>4, <2>2
<1> HIDE DEF x, y
<1>6. /\ requests' \in Seq(Phone!Requests) /\ Elements(requests') = {x, y}
      /\ ~SomeDecide(requests') /\ OneDecides(requests')
      /\ ~NoneOf(requests', "list") /\ NoneOf(requests', "thread")
  BY <1>2, <1>5, FewRequests
<1>7. Phone!TypeOK'
  BY <1>1, <1>3, <1>6 DEF Phone!TypeOK
<1>8. ~SomeDecide(requests) /\ ~busy
  BY <1>4, FewRequests DEF DecisionsComeSingly, SomeDecide
<1>9. DecisionsComeSingly'
  <2>1. \A r \in {x, y} : ~Deciding(r) /\ r.kind = "list"  BY <1>2
  <2>2. \A r \in {x, y} : ~(r.kind = "list" /\ r.by = "decision")  BY <2>1 DEF Deciding
  <2>3. QED  BY <1>3, <1>6, <1>8, <2>2 DEF DecisionsComeSingly
<1>10. EntryComesFirst'
  BY <1>1, <1>3, <1>4, PhoneConstants DEF Phone!MobileAssumption, EntryComesFirst, Phone!TypeOK
<1>11. GatesAreDecided'  BY <1>3 DEF GatesAreDecided, Phone!Current
<1>12. ASSUME Phone!Orderly' PROVE Following'
  <2>1. Following  BY <1>3, <1>12 DEF Phone!Orderly
  <2>2. \A r : IsLast(requests', "list", r) => r \in {x, y}
    BY <1>6, LastIsOneOfThem
  <2>3. \A r : ~IsLast(requests', "thread", r)
    BY <1>6, LastIsOneOfThem
  <2>4. DecisionStays'  BY <1>2, <1>6 DEF DecisionStays
  <2>5. ListsFollow'  BY <1>1, <1>2, <1>6, <2>2 DEF ListsFollow
  <2>6. ThreadsFollow'  BY <1>3, <1>4, <1>6, <2>3 DEF ThreadsFollow
  <2>7. DecisionsShow'
    BY <1>2, <1>6, <2>2 DEF DecisionsShow
  <2>8. QED  BY <2>4, <2>5, <2>6, <2>7 DEF Following
<1>13. QED  BY <1>7, <1>9, <1>10, <1>11, <1>12

-----------------------------------------------------------------------------
(***************************************************************************)
(* Taps.                                                                   *)
(***************************************************************************)
LEMMA AppendJoins == \A S : \A s \in Seq(S), x \in S : Append(s, x) = s \o <<x>>
  OBVIOUS

\* What every tap leaves alone; the entry has been done by then.
LEMMA TapFacts ==
    ASSUME PhoneInv, Phone!Tap
    PROVE  /\ gate' = gate /\ decided' = decided /\ session' = session /\ entry' = entry
           /\ listed' = listed /\ thread' = thread /\ outrun' = outrun /\ failures' = failures
           /\ taps' \in 0..MaxTaps
           /\ workspace \in Workspaces /\ workspace # None
           /\ session /\ entry.at \notin {"session", "workspaces"}
           /\ requests \in Seq(Phone!Requests) /\ listed.ws \in Workspaces \cup {None}
           /\ conversation \in Conversations \cup {None}
<1>1. taps' \in 0..MaxTaps
  BY PhoneConstants DEF Phone!MobileAssumption, Phone!Tap, PhoneInv, Phone!TypeOK
<1>2. QED
  BY <1>1, PhoneConstants DEF Phone!MobileAssumption, Phone!Tap, Phone!Visible,
     Phone!serverVars, PhoneInv, Phone!TypeOK, EntryComesFirst

LEMMA SwitchStep ==
    ASSUME PhoneInv, NEW w \in Workspaces, Phone!SwitchWorkspace(w) PROVE PhoneInv'
<1> USE DEF PhoneInv
<1> DEFINE x == Phone!ListLoad(w, "screen", None)
           q == Phone!SelectionEffect(w, conversation)
<1>1. /\ Phone!Tap /\ workspace' = w /\ conversation' = conversation /\ busy' = busy
      /\ requests' = requests \o <<x>> \o q
      /\ moved' = (moved \/ busy)
  BY DEF Phone!SwitchWorkspace
<1>2. /\ gate' = gate /\ decided' = decided /\ session' = session /\ entry' = entry
      /\ listed' = listed /\ thread' = thread /\ outrun' = outrun /\ failures' = failures
      /\ taps' \in 0..MaxTaps /\ session /\ entry.at \notin {"session", "workspaces"}
      /\ requests \in Seq(Phone!Requests) /\ conversation \in Conversations \cup {None}
  BY <1>1, TapFacts
<1>3. x \in Phone!Requests /\ x.kind = "list" /\ x.ws = w /\ ~x.read /\ ~Deciding(x)
  BY LoadTypes DEF Phone!Askers
<1>4. /\ q \in Seq(Phone!Requests) /\ ~SomeDecide(q) /\ OneDecides(q)
      /\ NoneOf(q, "list") /\ NoneOf(q, "decide") /\ (NoneOf(q, "thread") <=> conversation = None)
      /\ \A r \in Elements(q) : r.kind = "thread" /\ r.ws = w /\ r.conv = conversation
  BY <1>2, EffectTypes
<1> HIDE DEF x, q
<1> DEFINE s == requests \o <<x>>
<1>5. /\ <<x>> \in Seq(Phone!Requests) /\ Elements(<<x>>) = {x}
      /\ OneDecides(<<x>>) /\ ~SomeDecide(<<x>>)
      /\ ~NoneOf(<<x>>, "list") /\ NoneOf(<<x>>, "thread")
  BY <1>3, FewRequests
<1>6. /\ s \in Seq(Phone!Requests) /\ Elements(s) = Elements(requests) \cup {x}
      /\ SomeDecide(s) <=> SomeDecide(requests)
      /\ OneDecides(requests) => OneDecides(s)
      /\ ~NoneOf(s, "list") /\ (NoneOf(s, "thread") <=> NoneOf(requests, "thread"))
      /\ \A r : IsLast(s, "list", r) => IsLast(<<x>>, "list", r)
      /\ \A r : IsLast(s, "thread", r) => IsLast(requests, "thread", r)
  BY <1>2, <1>5, RequestsAdded
<1>7. \A r : IsLast(<<x>>, "list", r) => r = x
  BY <1>5, LastIsOneOfThem
<1> HIDE DEF s
<1>8. /\ requests' \in Seq(Phone!Requests)
      /\ Elements(requests') = Elements(requests) \cup {x} \cup Elements(q)
      /\ SomeDecide(requests') <=> SomeDecide(requests)
      /\ OneDecides(requests) => OneDecides(requests')
      /\ ~NoneOf(requests', "list")
      /\ NoneOf(requests', "thread") <=> NoneOf(requests, "thread") /\ conversation = None
      /\ \A r : IsLast(requests', "list", r) => r = x
      /\ conversation = None => \A r : IsLast(requests', "thread", r) => IsLast(requests, "thread", r)
      /\ conversation # None => \A r : IsLast(requests', "thread", r) => IsLast(q, "thread", r)
  <2>1. requests' = s \o q  BY <1>1 DEF s
  <2>2. /\ s \o q \in Seq(Phone!Requests)
        /\ Elements(s \o q) = Elements(s) \cup Elements(q)
        /\ SomeDecide(s \o q) <=> SomeDecide(s) \/ SomeDecide(q)
        /\ OneDecides(s) /\ OneDecides(q) /\ ~(SomeDecide(s) /\ SomeDecide(q))
              => OneDecides(s \o q)
        /\ \A k : /\ NoneOf(s \o q, k) <=> NoneOf(s, k) /\ NoneOf(q, k)
                  /\ NoneOf(q, k) => \A r : IsLast(s \o q, k, r) => IsLast(s, k, r)
                  /\ ~NoneOf(q, k) => \A r : IsLast(s \o q, k, r) => IsLast(q, k, r)
    BY <1>4, <1>6, RequestsAdded
  <2>3. QED  BY <1>4, <1>6, <1>7, <2>1, <2>2
<1>9. Phone!TypeOK'  BY <1>1, <1>2, <1>8 DEF Phone!TypeOK
<1>10. DecisionsComeSingly'
  <2>1. \A r \in Elements(requests') : r.kind = "list" /\ r.by = "decision" => r.sel # None
    BY <1>3, <1>4, <1>8 DEF DecisionsComeSingly, Deciding
  <2>2. QED  BY <1>1, <1>8, <2>1 DEF DecisionsComeSingly
<1>11. EntryComesFirst'
  BY <1>1, <1>2, PhoneConstants DEF Phone!MobileAssumption, EntryComesFirst
<1>12. GatesAreDecided'  BY <1>2 DEF GatesAreDecided, Phone!Current
<1>13. ASSUME Phone!Orderly' PROVE Following'
  <2>1. Following /\ ~busy  BY <1>1, <1>2, <1>13 DEF Phone!Orderly, Phone!TypeOK
  <2>2. ~SomeDecide(requests')  BY <1>8, <2>1 DEF DecisionsComeSingly
  <2>3. DecisionStays'  BY <2>2 DEF DecisionStays, SomeDecide, Elements
  <2>4. ListsFollow'  BY <1>1, <1>3, <1>8 DEF ListsFollow
  <2>5. ThreadsFollow'
    <3>1. CASE conversation = None
      BY <1>1, <1>2, <1>8, <2>1, <3>1, LastIsOneOfThem DEF ThreadsFollow, Following
    <3>2. CASE conversation # None
      BY <1>1, <1>2, <1>4, <1>8, <3>2, LastIsOneOfThem DEF ThreadsFollow
    <3>3. QED  BY <3>1, <3>2
  <2>6. DecisionsShow'  BY <1>2, <1>3, <1>8 DEF DecisionsShow
  <2>7. QED  BY <2>3, <2>4, <2>5, <2>6 DEF Following
<1>14. QED  BY <1>9, <1>10, <1>11, <1>12, <1>13

LEMMA SelectStep ==
    ASSUME PhoneInv, NEW c \in Conversations, Phone!Select(c) PROVE PhoneInv'
<1> USE DEF PhoneInv
<1> DEFINE q == Phone!SelectionEffect(workspace, c)
<1>1. /\ Phone!Tap /\ workspace' = workspace /\ conversation' = c /\ busy' = busy
      /\ requests' = requests \o q
      /\ moved' = (moved \/ busy) /\ Home[c] = listed.ws
  BY DEF Phone!Select, Phone!Listed
<1>2. /\ gate' = gate /\ decided' = decided /\ session' = session /\ entry' = entry
      /\ listed' = listed /\ thread' = thread /\ outrun' = outrun /\ failures' = failures
      /\ taps' \in 0..MaxTaps /\ session /\ entry.at \notin {"session", "workspaces"}
      /\ workspace \in Workspaces /\ workspace # None /\ requests \in Seq(Phone!Requests)
  BY <1>1, TapFacts
<1>3. c # None  BY PhoneConstants DEF Phone!MobileAssumption
<1>4. /\ q \in Seq(Phone!Requests) /\ ~SomeDecide(q) /\ OneDecides(q)
      /\ NoneOf(q, "list") /\ ~NoneOf(q, "thread")
      /\ \A r \in Elements(q) : r.kind = "thread" /\ r.ws = workspace /\ r.conv = c
  BY <1>2, <1>3, EffectTypes
<1> HIDE DEF q
<1>5. /\ requests' \in Seq(Phone!Requests)
      /\ Elements(requests') = Elements(requests) \cup Elements(q)
      /\ SomeDecide(requests') <=> SomeDecide(requests)
      /\ OneDecides(requests) => OneDecides(requests')
      /\ NoneOf(requests', "list") <=> NoneOf(requests, "list")
      /\ ~NoneOf(requests', "thread")
      /\ \A r : IsLast(requests', "list", r) => IsLast(requests, "list", r)
      /\ \A r : IsLast(requests', "thread", r) => IsLast(q, "thread", r)
  BY <1>1, <1>2, <1>4, RequestsAdded
<1>6. Phone!TypeOK'  BY <1>1, <1>2, <1>5 DEF Phone!TypeOK
<1>7. DecisionsComeSingly'
  BY <1>1, <1>4, <1>5 DEF DecisionsComeSingly
<1>8. EntryComesFirst'
  BY <1>1, <1>2 DEF EntryComesFirst
<1>9. GatesAreDecided'  BY <1>2 DEF GatesAreDecided, Phone!Current
<1>10. ASSUME Phone!Orderly' PROVE Following'
  <2>1. Following /\ ~busy  BY <1>1, <1>2, <1>10 DEF Phone!Orderly, Phone!TypeOK
  <2>2. ~SomeDecide(requests')  BY <1>5, <2>1 DEF DecisionsComeSingly
  <2>3. DecisionStays'  BY <2>2 DEF DecisionStays, SomeDecide, Elements
  <2>4. ListsFollow'  BY <1>1, <1>2, <1>5, <2>1 DEF ListsFollow, Following
  <2>5. ThreadsFollow'
    BY <1>1, <1>3, <1>4, <1>5, LastIsOneOfThem DEF ThreadsFollow
  <2>6. DecisionsShow'  BY <1>2, <1>5, <2>1 DEF DecisionsShow, Following
  <2>7. QED  BY <2>3, <2>4, <2>5, <2>6 DEF Following
<1>11. QED  BY <1>6, <1>7, <1>8, <1>9, <1>10

LEMMA RefreshStep == ASSUME PhoneInv, Phone!Refresh PROVE PhoneInv'
<1> USE DEF PhoneInv
<1> DEFINE x == Phone!ListLoad(workspace, "screen", None)
<1>1. /\ Phone!Tap /\ workspace' = workspace /\ conversation' = conversation /\ busy' = busy /\ moved' = moved
      /\ requests' = Append(requests, x)
  BY DEF Phone!Refresh
<1>2. /\ gate' = gate /\ decided' = decided /\ session' = session /\ entry' = entry
      /\ listed' = listed /\ thread' = thread /\ outrun' = outrun /\ failures' = failures
      /\ taps' \in 0..MaxTaps /\ session /\ entry.at \notin {"session", "workspaces"}
      /\ workspace \in Workspaces /\ workspace # None /\ requests \in Seq(Phone!Requests)
  BY <1>1, TapFacts
<1>3. x \in Phone!Requests /\ x.kind = "list" /\ x.ws = workspace /\ ~x.read /\ ~Deciding(x)
  BY <1>2, LoadTypes DEF Phone!Askers
<1> HIDE DEF x
<1>4. /\ <<x>> \in Seq(Phone!Requests) /\ Elements(<<x>>) = {x}
      /\ OneDecides(<<x>>) /\ ~SomeDecide(<<x>>)
      /\ ~NoneOf(<<x>>, "list") /\ NoneOf(<<x>>, "thread")
  BY <1>3, FewRequests
<1>5. requests' = requests \o <<x>>  BY <1>1, <1>2, <1>3, AppendJoins
<1>6. /\ requests' \in Seq(Phone!Requests) /\ Elements(requests') = Elements(requests) \cup {x}
      /\ SomeDecide(requests') <=> SomeDecide(requests)
      /\ OneDecides(requests) => OneDecides(requests')
      /\ ~NoneOf(requests', "list") /\ (NoneOf(requests', "thread") <=> NoneOf(requests, "thread"))
      /\ \A r : IsLast(requests', "list", r) => IsLast(<<x>>, "list", r)
      /\ \A r : IsLast(requests', "thread", r) => IsLast(requests, "thread", r)
  BY <1>2, <1>4, <1>5, RequestsAdded
<1>7. \A r : IsLast(requests', "list", r) => r = x
  BY <1>4, <1>6, LastIsOneOfThem
<1>8. Phone!TypeOK'  BY <1>1, <1>2, <1>6 DEF Phone!TypeOK
<1>9. DecisionsComeSingly'
  BY <1>1, <1>3, <1>6 DEF DecisionsComeSingly, Deciding
<1>10. EntryComesFirst'
  BY <1>1, <1>2 DEF EntryComesFirst
<1>11. GatesAreDecided'  BY <1>2 DEF GatesAreDecided, Phone!Current
<1>12. ASSUME Phone!Orderly' PROVE Following'
  <2>1. Following  BY <1>1, <1>2, <1>12 DEF Phone!Orderly
  <2>2. DecisionStays'  BY <1>1, <1>3, <1>6, <2>1 DEF DecisionStays, Following
  <2>3. ListsFollow'  BY <1>1, <1>3, <1>6, <1>7 DEF ListsFollow
  <2>4. ThreadsFollow'  BY <1>1, <1>2, <1>6, <2>1 DEF ThreadsFollow, Following
  <2>5. DecisionsShow'  BY <1>2, <1>3, <1>6, <1>7 DEF DecisionsShow
  <2>6. QED  BY <2>2, <2>3, <2>4, <2>5 DEF Following
<1>13. QED  BY <1>8, <1>9, <1>10, <1>11, <1>12

LEMMA DecideStep ==
    ASSUME PhoneInv, NEW c \in Coding, NEW answer \in Phone!Answers, Phone!Decide(c, answer) PROVE PhoneInv'
<1> USE DEF PhoneInv
<1> DEFINE x == [kind |-> "decide", ws |-> workspace, conv |-> c, answer |-> answer, at |-> "asked"]
<1>1. /\ Phone!Tap /\ workspace' = workspace /\ conversation' = conversation /\ ~busy /\ busy' = TRUE
      /\ c = conversation /\ moved' = moved
      /\ requests' = Append(requests, x)
  BY DEF Phone!Decide
<1>2. /\ gate' = gate /\ decided' = decided /\ session' = session /\ entry' = entry
      /\ listed' = listed /\ thread' = thread /\ outrun' = outrun /\ failures' = failures
      /\ taps' \in 0..MaxTaps /\ session /\ entry.at \notin {"session", "workspaces"}
      /\ workspace \in Workspaces /\ workspace # None /\ requests \in Seq(Phone!Requests)
  BY <1>1, TapFacts
<1>3. /\ x \in Phone!Requests /\ x.kind = "decide" /\ x.ws = workspace /\ x.conv = conversation
      /\ x.at = "asked" /\ Deciding(x) /\ conversation # None
  BY <1>1, <1>2, PhoneConstants DEF Phone!MobileAssumption, Phone!Requests, Deciding
<1> HIDE DEF x
<1>4. /\ <<x>> \in Seq(Phone!Requests) /\ Elements(<<x>>) = {x}
      /\ OneDecides(<<x>>) /\ SomeDecide(<<x>>)
      /\ NoneOf(<<x>>, "list") /\ NoneOf(<<x>>, "thread")
  BY <1>3, FewRequests
<1>5. requests' = requests \o <<x>>  BY <1>1, <1>2, <1>3, AppendJoins
<1>6. /\ requests' \in Seq(Phone!Requests) /\ Elements(requests') = Elements(requests) \cup {x}
      /\ SomeDecide(requests')
      /\ OneDecides(requests) /\ ~SomeDecide(requests) => OneDecides(requests')
      /\ NoneOf(requests', "list") <=> NoneOf(requests, "list")
      /\ NoneOf(requests', "thread") <=> NoneOf(requests, "thread")
      /\ \A r : IsLast(requests', "list", r) => IsLast(requests, "list", r)
      /\ \A r : IsLast(requests', "thread", r) => IsLast(requests, "thread", r)
  BY <1>2, <1>4, <1>5, RequestsAdded
<1>7. ~SomeDecide(requests)  BY <1>1 DEF DecisionsComeSingly
<1>8. Phone!TypeOK'  BY <1>1, <1>2, <1>6 DEF Phone!TypeOK
<1>9. DecisionsComeSingly'
  BY <1>1, <1>3, <1>6, <1>7 DEF DecisionsComeSingly
<1>10. EntryComesFirst'
  BY <1>1, <1>2 DEF EntryComesFirst
<1>11. GatesAreDecided'  BY <1>2 DEF GatesAreDecided, Phone!Current
<1>12. ASSUME Phone!Orderly' PROVE Following'
  <2>1. Following  BY <1>1, <1>2, <1>12 DEF Phone!Orderly
  <2>2. DecisionStays'
    <3>1. \A r \in Elements(requests) : ~Deciding(r)  BY <1>7 DEF SomeDecide, Elements
    <3>2. QED  BY <1>1, <1>3, <1>6, <3>1 DEF DecisionStays
  <2>3. ListsFollow'  BY <1>1, <1>2, <1>6, <2>1 DEF ListsFollow, Following
  <2>4. ThreadsFollow'  BY <1>1, <1>2, <1>6, <2>1 DEF ThreadsFollow, Following
  <2>5. DecisionsShow'  BY <1>2, <1>6, <2>1 DEF DecisionsShow, Following
  <2>6. QED  BY <2>2, <2>3, <2>4, <2>5 DEF Following
<1>13. QED  BY <1>8, <1>9, <1>10, <1>11, <1>12

-----------------------------------------------------------------------------
(***************************************************************************)
(* The API.                                                                *)
(***************************************************************************)
LEMMA GateFacts ==
    ASSUME Phone!TypeOK, GatesAreDecided, NEW c \in Coding
    PROVE  /\ gate \in Phone!Cards /\ gate \in [Coding -> Seq(Phone!CardStates)]
           /\ gate[c] \in Seq(Phone!CardStates) /\ Len(gate[c]) \in 1..MaxPlans
           /\ Phone!Current(c) = gate[c][Len(gate[c])]
           /\ \A d \in Coding : Len(gate[d]) <= MaxPlans
<1>1. gate \in Phone!Cards  BY DEF Phone!TypeOK
<1>2. \A d \in Coding : gate[d] \in Seq(Phone!CardStates) /\ Len(gate[d]) <= MaxPlans
  BY <1>1, CardsFacts
<1>3. gate \in [Coding -> Seq(Phone!CardStates)]
  BY <1>1, <1>2 DEF Phone!Cards
<1>4. gate[c] # << >>  BY DEF GatesAreDecided
<1>5. MaxPlans \in Nat  BY PhoneConstants DEF Phone!MobileAssumption
<1>6. QED  BY <1>1, <1>2, <1>3, <1>4, <1>5 DEF Phone!Current

\* The gate of one workflow gets one more answer, or one more plan.
LEMMA AnsweredGate ==
    ASSUME Phone!TypeOK, GatesAreDecided, NEW c \in Coding, NEW answer \in Phone!Answers
    PROVE  LET g == Phone!Answered(c, answer)
           IN  /\ g \in Phone!Cards
               /\ \A d \in Coding : d # c => g[d] = gate[d]
               /\ g[c] # << >> /\ Len(g[c]) = Len(gate[c])
               /\ \A n \in 1..(Len(g[c]) - 1) : g[c][n] = "revision_requested"
               /\ g[c][Len(g[c])] = answer
<1> DEFINE g == Phone!Answered(c, answer)
           n == Len(gate[c])
<1>1. /\ gate \in [Coding -> Seq(Phone!CardStates)] /\ gate[c] \in Seq(Phone!CardStates) /\ n \in 1..MaxPlans
      /\ \A d \in Coding : Len(gate[d]) <= MaxPlans
  BY GateFacts
<1>2. answer \in Phone!CardStates  BY DEF Phone!Answers, Phone!CardStates
<1>3. g = [gate EXCEPT ![c] = [gate[c] EXCEPT ![n] = answer]]
  BY <1>1 DEF Phone!Answered
<1>4. /\ g \in [Coding -> Seq(Phone!CardStates)]
      /\ g[c] = [gate[c] EXCEPT ![n] = answer]
      /\ \A d \in Coding : d # c => g[d] = gate[d]
  <2>1. [gate[c] EXCEPT ![n] = answer] \in Seq(Phone!CardStates)  BY <1>1, <1>2
  <2>2. QED  BY <1>1, <1>3, <2>1
<1>5. Len(g[c]) = n /\ g[c][n] = answer /\ \A m \in 1..(n - 1) : g[c][m] = gate[c][m]
  BY <1>1, <1>4
<1>6. \A d \in Coding : Len(g[d]) <= MaxPlans  BY <1>1, <1>4, <1>5
<1>7. g \in Phone!Cards  BY <1>4, <1>6, CardsFacts
<1>8. g[c] # << >>  BY <1>1, <1>5
<1>9. \A m \in 1..(n - 1) : gate[c][m] = "revision_requested"  BY DEF GatesAreDecided
<1> HIDE DEF g
<1>10. QED  BY <1>4, <1>5, <1>7, <1>8, <1>9 DEF g

LEMMA RevisedGate ==
    ASSUME Phone!TypeOK, GatesAreDecided, NEW c \in Coding, Len(gate[c]) < MaxPlans
    PROVE  LET g == Phone!Revised(c)
           IN  /\ g \in Phone!Cards
               /\ \A d \in Coding : d # c => g[d] = gate[d]
               /\ g[c] # << >> /\ Len(g[c]) = Len(gate[c]) + 1
               /\ \A n \in 1..(Len(g[c]) - 1) : g[c][n] = "revision_requested"
<1> DEFINE g == Phone!Revised(c)
           n == Len(gate[c])
           f == [gate[c] EXCEPT ![n] = "revision_requested"]
<1>1. /\ gate \in [Coding -> Seq(Phone!CardStates)] /\ gate[c] \in Seq(Phone!CardStates) /\ n \in 1..MaxPlans
      /\ \A d \in Coding : Len(gate[d]) <= MaxPlans
  BY GateFacts
<1>2. "revision_requested" \in Phone!CardStates /\ "pending" \in Phone!CardStates  BY DEF Phone!CardStates
<1>3. f \in Seq(Phone!CardStates) /\ Len(f) = n
      /\ f[n] = "revision_requested" /\ \A m \in 1..(n - 1) : f[m] = gate[c][m]
  BY <1>1, <1>2
<1>4. g = [gate EXCEPT ![c] = Append(f, "pending")]
  BY <1>1 DEF Phone!Revised
<1> HIDE DEF f
<1>5. /\ Append(f, "pending") \in Seq(Phone!CardStates) /\ Len(Append(f, "pending")) = n + 1
      /\ \A m \in 1..n : Append(f, "pending")[m] = f[m]
  BY <1>1, <1>2, <1>3
<1>6. /\ g \in [Coding -> Seq(Phone!CardStates)] /\ g[c] = Append(f, "pending")
      /\ \A d \in Coding : d # c => g[d] = gate[d]
  BY <1>1, <1>4, <1>5
<1>7. MaxPlans \in Nat  BY PhoneConstants DEF Phone!MobileAssumption
<1>8. \A d \in Coding : Len(g[d]) <= MaxPlans  BY <1>1, <1>5, <1>6, <1>7
<1>9. g \in Phone!Cards  BY <1>6, <1>8, CardsFacts
<1>10. \A m \in 1..(n - 1) : gate[c][m] = "revision_requested"  BY DEF GatesAreDecided
<1>11. \A m \in 1..n : g[c][m] = "revision_requested"
  <2> SUFFICES ASSUME NEW m \in 1..n PROVE f[m] = "revision_requested"
    BY <1>5, <1>6
  <2>1. m = n \/ m \in 1..(n - 1)  BY <1>1
  <2>2. QED  BY <1>3, <1>10, <2>1
<1>12. g[c] # << >> /\ Len(g[c]) = n + 1 /\ (n + 1) - 1 = n
  BY <1>1, <1>5, <1>6
<1> HIDE DEF g
<1>13. QED  BY <1>6, <1>9, <1>11, <1>12 DEF g

\* A decided workflow has no plan that awaits its decision.
LEMMA DecidedGate ==
    ASSUME Phone!TypeOK, GatesAreDecided, NEW c \in decided
    PROVE  NoPending(gate[c]) /\ Phone!Current(c) # "pending"
<1>1. c \in Coding  BY DEF Phone!TypeOK
<1>2. /\ gate[c] \in Seq(Phone!CardStates) /\ Len(gate[c]) \in 1..MaxPlans
      /\ Phone!Current(c) = gate[c][Len(gate[c])] /\ MaxPlans \in Nat
  BY <1>1, GateFacts, PhoneConstants DEF Phone!MobileAssumption
<1>3. Phone!Current(c) \in Phone!Answers /\ \A n \in 1..(Len(gate[c]) - 1) : gate[c][n] = "revision_requested"
  BY <1>1 DEF GatesAreDecided
<1>4. ASSUME NEW n \in DOMAIN gate[c] PROVE gate[c][n] # "pending"
  <2>1. n \in 1..(Len(gate[c]) - 1) \/ n = Len(gate[c])  BY <1>2
  <2>2. QED  BY <1>2, <1>3, <2>1 DEF Phone!Answers
<1>5. QED  BY <1>3, <1>4 DEF NoPending, Phone!Answers

LEMMA OthersDecideStep ==
    ASSUME PhoneInv, NEW c \in Coding, Phone!OthersDecide(c) PROVE PhoneInv'
<1> USE DEF PhoneInv
<1>1. /\ decided' = decided /\ session' = session /\ entry' = entry /\ workspace' = workspace
      /\ listed' = listed /\ conversation' = conversation /\ thread' = thread /\ busy' = busy
      /\ moved' = moved /\ requests' = requests /\ outrun' = outrun
      /\ taps' = taps /\ failures' = failures
  BY DEF Phone!OthersDecide, Phone!screenVars, Phone!netVars
<1>2. c \notin decided  BY DecidedGate DEF Phone!OthersDecide
<1>3. /\ gate' \in Phone!Cards
      /\ \A d \in Coding : d # c => gate'[d] = gate[d]
      /\ gate'[c] # << >>
      /\ \A n \in 1..(Len(gate'[c]) - 1) : gate'[c][n] = "revision_requested"
  BY AnsweredGate, RevisedGate DEF Phone!OthersDecide
<1>4. Phone!TypeOK'  BY <1>1, <1>3 DEF Phone!TypeOK
<1>5. GatesAreDecided'
  BY <1>1, <1>2, <1>3 DEF GatesAreDecided, Phone!Current
<1>6. DecisionsComeSingly' /\ EntryComesFirst'
  BY <1>1 DEF DecisionsComeSingly, EntryComesFirst
<1>7. Phone!Orderly' => Following'
  BY <1>1 DEF Phone!Orderly, Following, DecisionStays, ListsFollow, ThreadsFollow, DecisionsShow
<1>8. QED  BY <1>4, <1>5, <1>6, <1>7

LEMMA ServeDecisionStep ==
    ASSUME PhoneInv, NEW i \in Phone!Open, Phone!ServeDecision(i) PROVE PhoneInv'
<1> USE DEF PhoneInv
<1> DEFINE r == requests[i]
           c == r.conv
           accepted == Home[c] = r.ws /\ Phone!Allows(c, r.answer)
           x == [r EXCEPT !.at = IF accepted THEN "accepted" ELSE "refused"]
<1>1. /\ session' = session /\ entry' = entry /\ workspace' = workspace
      /\ listed' = listed /\ conversation' = conversation /\ thread' = thread /\ busy' = busy
      /\ moved' = moved /\ outrun' = outrun /\ taps' = taps /\ failures' = failures
      /\ r.kind = "decide" /\ r.at = "asked"
      /\ gate' = IF accepted THEN Phone!Answered(c, r.answer) ELSE gate
      /\ decided' = IF accepted THEN decided \cup {c} ELSE decided
      /\ requests' = [requests EXCEPT ![i].at = IF accepted THEN "accepted" ELSE "refused"]
  BY DEF Phone!ServeDecision, Phone!screenVars
<1>2. /\ requests \in Seq(Phone!Requests) /\ r \in Phone!Requests /\ r \in Elements(requests)
      /\ i \in DOMAIN requests
  BY Elemental DEF Phone!Open
<1>3. c \in Coding /\ r.answer \in Phone!Answers  BY <1>1, <1>2, RequestTypes
<1>4. /\ x \in Phone!Requests /\ x.kind = "decide" /\ x.ws = r.ws /\ x.conv = r.conv
      /\ x.at = (IF accepted THEN "accepted" ELSE "refused")
  BY <1>1, <1>2 DEF Phone!Requests
<1>5. requests' = [requests EXCEPT ![i] = x]
  BY <1>1, <1>2
<1>6. Deciding(x) /\ Deciding(r)  BY <1>1, <1>4 DEF Deciding
<1>6a. x.kind = requests[i].kind /\ (Deciding(x) <=> Deciding(requests[i]))
  BY <1>1, <1>4, <1>6
<1> HIDE DEF x, r, accepted
<1>7. /\ requests' \in Seq(Phone!Requests)
      /\ Elements(requests') \subseteq Elements(requests) \cup {x} /\ x \in Elements(requests')
      /\ \A e \in Elements(requests) : e = r \/ e \in Elements(requests')
      /\ SomeDecide(requests') <=> SomeDecide(requests)
      /\ OneDecides(requests) => OneDecides(requests')
      /\ \A k : /\ NoneOf(requests', k) <=> NoneOf(requests, k)
                /\ \A e : IsLast(requests', k, e) =>
                      IsLast(requests, k, e) \/ (e = x /\ IsLast(requests, k, r))
  <2> DEFINE t == [requests EXCEPT ![i] = x]
  <2>1. /\ t \in Seq(Phone!Requests)
        /\ Elements(t) \subseteq Elements(requests) \cup {x} /\ x \in Elements(t)
        /\ \A e \in Elements(requests) : e = requests[i] \/ e \in Elements(t)
        /\ SomeDecide(t) <=> SomeDecide(requests)
        /\ OneDecides(requests) => OneDecides(t)
        /\ \A k : /\ NoneOf(t, k) <=> NoneOf(requests, k)
                  /\ \A e : IsLast(t, k, e) =>
                        IsLast(requests, k, e) \/ (e = x /\ IsLast(requests, k, requests[i]))
    BY <1>2, <1>4, <1>6a, RequestServed
  <2>2. requests' = t  BY <1>5
  <2> HIDE DEF t
  <2>3. QED  BY <2>1, <2>2 DEF r
<1>8. \A e : IsLast(requests', "list", e) => IsLast(requests, "list", e)
  BY <1>4, <1>7, LastIsOneOfThem
<1>9. \A e : IsLast(requests', "thread", e) => IsLast(requests, "thread", e)
  BY <1>4, <1>7, LastIsOneOfThem
<1>10. /\ gate' \in Phone!Cards /\ GatesAreDecided'
  <2>1. CASE accepted
    <3>1. /\ gate' \in Phone!Cards
          /\ \A d \in Coding : d # c => gate'[d] = gate[d]
          /\ gate'[c] # << >>
          /\ \A n \in 1..(Len(gate'[c]) - 1) : gate'[c][n] = "revision_requested"
          /\ gate'[c][Len(gate'[c])] \in Phone!Answers
      BY <1>1, <1>3, <2>1, AnsweredGate
    <3>2. QED  BY <1>1, <2>1, <3>1 DEF GatesAreDecided, Phone!Current
  <2>2. CASE ~accepted
    BY <1>1, <2>2 DEF GatesAreDecided, Phone!Current, Phone!TypeOK
  <2>3. QED  BY <2>1, <2>2
<1>11. Phone!TypeOK'
  BY <1>1, <1>3, <1>7, <1>10 DEF Phone!TypeOK
<1>12. DecisionsComeSingly'
  BY <1>1, <1>4, <1>7 DEF DecisionsComeSingly
<1>13. EntryComesFirst'
  <2>1. requests # << >>  BY <1>2, Elemental
  <2>2. workspace # None  BY <2>1 DEF EntryComesFirst
  <2>3. QED  BY <1>1, <2>2 DEF EntryComesFirst
<1>14. ASSUME Phone!Orderly' PROVE Following'
  <2>1. Following  BY <1>1, <1>14 DEF Phone!Orderly
  <2>2. DecisionStays'
    BY <1>1, <1>2, <1>4, <1>6, <1>7, <2>1 DEF DecisionStays, Following
  <2>3. ListsFollow'  BY <1>1, <1>7, <1>8, <2>1 DEF ListsFollow, Following
  <2>4. ThreadsFollow'  BY <1>1, <1>7, <1>9, <2>1 DEF ThreadsFollow, Following
  <2>5. DecisionsShow'
    <3> SUFFICES ASSUME NEW d \in decided'
                 PROVE  \/ \E e \in Elements(requests') :
                              e.kind = "decide" /\ e.conv = d /\ e.at = "accepted"
                        \/ /\ ~NoneOf(requests', "list")
                           /\ \A e : IsLast(requests', "list", e) /\ e.read
                                        => NoPending(e.cards[d])
                        \/ NoneOf(requests', "list") /\ NoPending(listed'.cards[d])
      BY DEF DecisionsShow
    <3>1. CASE d = c /\ accepted
      BY <1>4, <1>7, <3>1
    <3>2. CASE d \in decided
      <4>1. CASE \E e \in Elements(requests) : e.kind = "decide" /\ e.conv = d /\ e.at = "accepted"
        BY <1>1, <1>7, <4>1
      <4>2. CASE /\ ~NoneOf(requests, "list")
                 /\ \A e : IsLast(requests, "list", e) /\ e.read => NoPending(e.cards[d])
        BY <1>7, <1>8, <4>2
      <4>3. CASE NoneOf(requests, "list") /\ NoPending(listed.cards[d])
        BY <1>1, <1>7, <4>3
      <4>4. QED  BY <2>1, <3>2, <4>1, <4>2, <4>3 DEF Following, DecisionsShow
    <3>3. QED  BY <1>1, <3>1, <3>2
  <2>6. QED  BY <2>2, <2>3, <2>4, <2>5 DEF Following
<1>15. QED  BY <1>10, <1>11, <1>12, <1>13, <1>14

LEMMA ServeListStep ==
    ASSUME PhoneInv, NEW i \in Phone!Open, Phone!ServeList(i) PROVE PhoneInv'
<1> USE DEF PhoneInv
<1> DEFINE r == requests[i]
           cards == Phone!CardsOf(r.ws)
           x == [r EXCEPT !.read = TRUE, !.cards = cards]
<1>1. /\ gate' = gate /\ decided' = decided
      /\ session' = session /\ entry' = entry /\ workspace' = workspace
      /\ listed' = listed /\ conversation' = conversation /\ thread' = thread /\ busy' = busy
      /\ moved' = moved /\ outrun' = outrun /\ taps' = taps /\ failures' = failures
      /\ r.kind = "list" /\ ~r.read
      /\ requests' = [requests EXCEPT ![i].read = TRUE, ![i].cards = cards]
  BY DEF Phone!ServeList, Phone!screenVars, Phone!serverVars
<1>2. /\ requests \in Seq(Phone!Requests) /\ r \in Phone!Requests /\ r \in Elements(requests)
      /\ i \in DOMAIN requests
  BY Elemental DEF Phone!Open
<1>3. cards \in Phone!Cards /\ \A c \in decided : NoPending(cards[c])
  <2>1. /\ gate \in Phone!Cards
        /\ \A c \in Coding : gate[c] \in Seq(Phone!CardStates) /\ Len(gate[c]) <= MaxPlans
    BY CardsFacts DEF Phone!TypeOK
  <2>2. \A c \in Coding : cards[c] = IF Home[c] = r.ws THEN gate[c] ELSE << >>
    BY DEF Phone!CardsOf
  <2>3. cards \in [Coding -> Seq(Phone!CardStates)]
    BY <2>1 DEF Phone!CardsOf
  <2>4. MaxPlans \in Nat /\ Len(<< >>) = 0  BY PhoneConstants DEF Phone!MobileAssumption
  <2>5. \A c \in Coding : Len(cards[c]) <= MaxPlans  BY <2>1, <2>2, <2>4
  <2>6. cards \in Phone!Cards  BY <2>3, <2>5, CardsFacts
  <2>7. ASSUME NEW c \in decided PROVE NoPending(cards[c])
    <3>1. c \in Coding  BY DEF Phone!TypeOK
    <3>2. NoPending(gate[c])  BY DecidedGate
    <3>3. NoPending(<< >>)  BY DEF NoPending
    <3>4. QED  BY <2>2, <3>1, <3>2, <3>3
  <2>8. QED  BY <2>6, <2>7
<1> HIDE DEF cards
<1>4. /\ x \in Phone!Requests /\ x.kind = "list" /\ x.ws = r.ws /\ x.by = r.by /\ x.sel = r.sel
      /\ x.cards = cards
  BY <1>1, <1>2, <1>3 DEF Phone!Requests
<1>5. requests' = [requests EXCEPT ![i] = x]
  BY <1>1, <1>2
<1>6. Deciding(x) <=> Deciding(r)  BY <1>1, <1>4 DEF Deciding
<1>6a. x.kind = requests[i].kind /\ (Deciding(x) <=> Deciding(requests[i]))
  BY <1>1, <1>4, <1>6
<1> HIDE DEF x, r
<1>7. /\ requests' \in Seq(Phone!Requests)
      /\ Elements(requests') \subseteq Elements(requests) \cup {x} /\ x \in Elements(requests')
      /\ \A e \in Elements(requests) : e = r \/ e \in Elements(requests')
      /\ SomeDecide(requests') <=> SomeDecide(requests)
      /\ OneDecides(requests) => OneDecides(requests')
      /\ \A k : /\ NoneOf(requests', k) <=> NoneOf(requests, k)
                /\ \A e : IsLast(requests', k, e) =>
                      IsLast(requests, k, e) \/ (e = x /\ IsLast(requests, k, r))
  <2> DEFINE t == [requests EXCEPT ![i] = x]
  <2>1. /\ t \in Seq(Phone!Requests)
        /\ Elements(t) \subseteq Elements(requests) \cup {x} /\ x \in Elements(t)
        /\ \A e \in Elements(requests) : e = requests[i] \/ e \in Elements(t)
        /\ SomeDecide(t) <=> SomeDecide(requests)
        /\ OneDecides(requests) => OneDecides(t)
        /\ \A k : /\ NoneOf(t, k) <=> NoneOf(requests, k)
                  /\ \A e : IsLast(t, k, e) =>
                        IsLast(requests, k, e) \/ (e = x /\ IsLast(requests, k, requests[i]))
    BY <1>2, <1>4, <1>6a, RequestServed
  <2>2. requests' = t  BY <1>5
  <2> HIDE DEF t
  <2>3. QED  BY <2>1, <2>2 DEF r
<1>8. \A e : IsLast(requests', "thread", e) => IsLast(requests, "thread", e)
  BY <1>4, <1>7, LastIsOneOfThem
<1>9. Phone!TypeOK'
  BY <1>1, <1>7 DEF Phone!TypeOK
<1>10. DecisionsComeSingly'
  BY <1>1, <1>2, <1>4, <1>7 DEF DecisionsComeSingly
<1>11. EntryComesFirst'
  <2>1. requests # << >>  BY <1>2, Elemental
  <2>2. workspace # None  BY <2>1 DEF EntryComesFirst
  <2>3. QED  BY <1>1, <2>2 DEF EntryComesFirst
<1>12. GatesAreDecided'  BY <1>1 DEF GatesAreDecided, Phone!Current
<1>13. ASSUME Phone!Orderly' PROVE Following'
  <2>1. Following  BY <1>1, <1>13 DEF Phone!Orderly
  <2>2. DecisionStays'
    BY <1>1, <1>2, <1>4, <1>6, <1>7, <2>1 DEF DecisionStays, Following
  <2>3. ListsFollow'
    <3>1. \A e : IsLast(requests', "list", e) => e.ws = workspace
      BY <1>4, <1>7, <2>1 DEF ListsFollow, Following
    <3>2. QED  BY <1>1, <1>7, <2>1, <3>1 DEF ListsFollow, Following
  <2>4. ThreadsFollow'  BY <1>1, <1>7, <1>8, <2>1 DEF ThreadsFollow, Following
  <2>5. DecisionsShow'
    <3> SUFFICES ASSUME NEW d \in decided
                 PROVE  \/ \E e \in Elements(requests') :
                              e.kind = "decide" /\ e.conv = d /\ e.at = "accepted"
                        \/ /\ ~NoneOf(requests', "list")
                           /\ \A e : IsLast(requests', "list", e) /\ e.read
                                        => NoPending(e.cards[d])
                        \/ NoneOf(requests', "list") /\ NoPending(listed'.cards[d])
      BY <1>1 DEF DecisionsShow
    <3>1. CASE \E e \in Elements(requests) : e.kind = "decide" /\ e.conv = d /\ e.at = "accepted"
      BY <1>1, <1>7, <3>1
    <3>2. CASE /\ ~NoneOf(requests, "list")
               /\ \A e : IsLast(requests, "list", e) /\ e.read => NoPending(e.cards[d])
      BY <1>3, <1>4, <1>7, <3>2
    <3>3. CASE NoneOf(requests, "list") /\ NoPending(listed.cards[d])
      BY <1>1, <1>7, <3>3
    <3>4. QED  BY <2>1, <3>1, <3>2, <3>3 DEF Following, DecisionsShow
  <2>6. QED  BY <2>2, <2>3, <2>4, <2>5 DEF Following
<1>14. QED  BY <1>9, <1>10, <1>11, <1>12, <1>13

-----------------------------------------------------------------------------
(***************************************************************************)
(* Answers.                                                                *)
(***************************************************************************)
\* What is left when request i has been answered.
LEMMA LeftFacts ==
    ASSUME Phone!TypeOK, NEW i \in Phone!Open
    PROVE  /\ requests[i] \in Phone!Requests /\ requests[i] \in Elements(requests)
           /\ Phone!Left(i) \in Seq(Phone!Requests)
           /\ Elements(Phone!Left(i)) \subseteq Elements(requests)
           /\ \A r \in Elements(requests) : r = requests[i] \/ r \in Elements(Phone!Left(i))
           /\ OneDecides(requests) => OneDecides(Phone!Left(i))
           /\ OneDecides(requests) /\ Deciding(requests[i]) => ~SomeDecide(Phone!Left(i))
           /\ ~Deciding(requests[i]) => (SomeDecide(Phone!Left(i)) <=> SomeDecide(requests))
           /\ \A k : requests[i].kind # k =>
                 /\ NoneOf(Phone!Left(i), k) <=> NoneOf(requests, k)
                 /\ \A r : IsLast(Phone!Left(i), k, r) => IsLast(requests, k, r)
           /\ \A k : requests[i].kind = k /\ (\A j \in 1..(i - 1) : requests[j].kind # k) =>
                 \/ NoneOf(Phone!Left(i), k) /\ IsLast(requests, k, requests[i])
                 \/ /\ ~NoneOf(Phone!Left(i), k)
                    /\ \A r : IsLast(Phone!Left(i), k, r) => IsLast(requests, k, r)
<1>1. /\ requests \in Seq(Phone!Requests) /\ i \in DOMAIN requests
      /\ requests[i] \in Phone!Requests /\ requests[i] \in Elements(requests)
  BY Elemental DEF Phone!Open
<1> DEFINE s == Phone!RemoveAt(requests, i)
<1>2. /\ s \in Seq(Phone!Requests)
      /\ Elements(s) \subseteq Elements(requests)
      /\ \A r \in Elements(requests) : r = requests[i] \/ r \in Elements(s)
      /\ OneDecides(requests) => OneDecides(s)
      /\ OneDecides(requests) /\ Deciding(requests[i]) => ~SomeDecide(s)
      /\ ~Deciding(requests[i]) => (SomeDecide(s) <=> SomeDecide(requests))
      /\ \A k : requests[i].kind # k =>
            /\ NoneOf(s, k) <=> NoneOf(requests, k)
            /\ \A r : IsLast(s, k, r) => IsLast(requests, k, r)
      /\ \A k : requests[i].kind = k /\ (\A j \in 1..(i - 1) : requests[j].kind # k) =>
            \/ NoneOf(s, k) /\ IsLast(requests, k, requests[i])
            \/ /\ ~NoneOf(s, k)
               /\ \A r : IsLast(s, k, r) => IsLast(requests, k, r)
  BY <1>1, RequestRemoved
<1>3. Phone!Left(i) = s  BY DEF Phone!Left
<1> HIDE DEF s
<1>4. QED  BY <1>1, <1>2, <1>3

\* What a list of a decision is followed by.
LEMMA AfterListFacts ==
    ASSUME PhoneInv, NEW i \in Phone!Open, requests[i].kind = "list"
    PROVE  LET r == requests[i]
               q == Phone!AfterList(r)
           IN  /\ q \in Seq(Phone!Requests) /\ OneDecides(q) /\ (SomeDecide(q) <=> Deciding(r))
               /\ NoneOf(q, "list") /\ (NoneOf(q, "thread") <=> ~Deciding(r))
               /\ \A e \in Elements(q) : e.kind = "thread" /\ e.ws = r.ws /\ e.conv = r.sel
<1> DEFINE r == requests[i]
           x == Phone!ThreadLoad(r.ws, r.sel, "decision")
<1>1. r \in Phone!Requests /\ r \in Elements(requests)  BY Elemental DEF PhoneInv
<1>2. Deciding(r) <=> r.by = "decision"  BY DEF Deciding
<1>3. CASE ~Deciding(r)
  <2>1. Phone!AfterList(r) = << >>  BY <1>2, <1>3 DEF Phone!AfterList
  <2>2. QED  BY <1>3, <2>1, FewRequests DEF Elements, NoneOf, SomeDecide, OneDecides
<1>4. CASE Deciding(r)
  <2>1. Phone!AfterList(r) = <<x>>  BY <1>2, <1>4 DEF Phone!AfterList
  <2>2. r.ws \in Workspaces /\ r.sel \in Conversations
    BY <1>1, <1>2, <1>4, RequestTypes DEF PhoneInv, DecisionsComeSingly
  <2>3. x \in Phone!Requests /\ x.kind = "thread" /\ x.ws = r.ws /\ x.conv = r.sel /\ Deciding(x)
    BY <2>2, LoadTypes DEF Phone!Askers
  <2> HIDE DEF x
  <2>4. /\ <<x>> \in Seq(Phone!Requests) /\ Elements(<<x>>) = {x} /\ OneDecides(<<x>>)
        /\ SomeDecide(<<x>>) <=> Deciding(x)
        /\ \A k : NoneOf(<<x>>, k) <=> x.kind # k
    BY <2>3, FewRequests
  <2>5. QED  BY <1>4, <2>1, <2>3, <2>4
<1>5. QED  BY <1>3, <1>4

\* An answer that goes on to others comes after the entry has chosen a workspace.
LEMMA EntryDone ==
    ASSUME PhoneInv, NEW i \in Phone!Open,
           session' = session, workspace' = workspace,
           entry' = entry \/ entry' = [entry EXCEPT !.at = "done"]
    PROVE  /\ EntryComesFirst' /\ workspace \in Workspaces /\ workspace # None
           /\ entry' \in [by : {"boot", "login"}, at : {"session", "workspaces", "list", "done"}]
<1>1. requests # << >>  BY Elemental DEF PhoneInv, Phone!Open
<1>2. workspace # None /\ workspace \in Workspaces
  BY <1>1 DEF PhoneInv, EntryComesFirst, Phone!TypeOK
<1>3. /\ entry \in [by : {"boot", "login"}, at : {"session", "workspaces", "list", "done"}]
      /\ session /\ entry.at \notin {"session", "workspaces"}
  BY <1>2 DEF PhoneInv, Phone!TypeOK, EntryComesFirst
<1>4. /\ entry' \in [by : {"boot", "login"}, at : {"session", "workspaces", "list", "done"}]
      /\ entry'.at \notin {"session", "workspaces"}
  BY <1>3
<1>5. QED  BY <1>2, <1>3, <1>4 DEF EntryComesFirst

LEMMA ApplyListStep == ASSUME PhoneInv, NEW i \in Phone!Open, Phone!ApplyList(i) PROVE PhoneInv'
<1> USE DEF PhoneInv
<1> DEFINE r == requests[i]
           q == Phone!AfterList(r)
           p == IF conversation' = conversation THEN << >> ELSE Phone!SelectionEffect(workspace, conversation')
           s == Phone!Left(i)
<1>1. /\ gate' = gate /\ decided' = decided /\ session' = session /\ workspace' = workspace
      /\ thread' = thread /\ busy' = busy /\ taps' = taps /\ failures' = failures
      /\ r.kind = "list" /\ r.read
      /\ listed' = [ws |-> r.ws, cards |-> r.cards]
      /\ requests' = s \o q \o p
      /\ moved' = (moved \/ (busy /\ conversation' # conversation))
      /\ outrun' = (outrun \/ \E j \in 1..(i - 1) : requests[j].kind = r.kind)
      /\ entry' = IF r.by = "entry" THEN [entry EXCEPT !.at = "done"] ELSE entry
  BY DEF Phone!ApplyList, Phone!serverVars, Phone!Applied, Phone!EntryEnds
<1>2. /\ conversation' \in Phone!Listed(r.ws) /\ (conversation \in Phone!Listed(r.ws) => conversation' = conversation)
      /\ conversation' # None /\ conversation' \in Conversations /\ Home[conversation'] = r.ws
  <2>1. conversation' \in Phone!Listed(r.ws) /\ (conversation \in Phone!Listed(r.ws) => conversation' = conversation)
    BY DEF Phone!ApplyList
  <2>2. QED  BY <2>1, PhoneConstants DEF Phone!MobileAssumption, Phone!Listed
<1>3. /\ r \in Phone!Requests /\ r \in Elements(requests)
      /\ s \in Seq(Phone!Requests)
      /\ Elements(s) \subseteq Elements(requests)
      /\ \A e \in Elements(requests) : e = r \/ e \in Elements(s)
      /\ OneDecides(s)
      /\ Deciding(r) => ~SomeDecide(s)
      /\ ~Deciding(r) => (SomeDecide(s) <=> SomeDecide(requests))
      /\ NoneOf(s, "thread") <=> NoneOf(requests, "thread")
      /\ \A e : IsLast(s, "thread", e) => IsLast(requests, "thread", e)
      /\ (\A j \in 1..(i - 1) : requests[j].kind # "list") =>
            \/ NoneOf(s, "list") /\ IsLast(requests, "list", r)
            \/ /\ ~NoneOf(s, "list")
               /\ \A e : IsLast(s, "list", e) => IsLast(requests, "list", e)
  BY <1>1, LeftFacts DEF DecisionsComeSingly
<1>4. /\ q \in Seq(Phone!Requests) /\ OneDecides(q) /\ (SomeDecide(q) <=> Deciding(r))
      /\ NoneOf(q, "list") /\ (NoneOf(q, "thread") <=> ~Deciding(r))
      /\ \A e \in Elements(q) : e.kind = "thread" /\ e.ws = r.ws /\ e.conv = r.sel
  BY <1>1, AfterListFacts
<1>5. /\ EntryComesFirst' /\ workspace \in Workspaces /\ workspace # None
      /\ entry' \in [by : {"boot", "login"}, at : {"session", "workspaces", "list", "done"}]
  BY <1>1, EntryDone
<1>6. /\ p \in Seq(Phone!Requests) /\ ~SomeDecide(p) /\ OneDecides(p) /\ NoneOf(p, "list")
      /\ NoneOf(p, "thread") <=> conversation' = conversation
      /\ \A e \in Elements(p) : e.kind = "thread" /\ e.ws = workspace /\ e.conv = conversation'
  <2>1. CASE conversation' = conversation
    <3>1. p = << >>  BY <2>1
    <3>2. QED  BY <2>1, <3>1, FewRequests DEF Elements, NoneOf, SomeDecide, OneDecides
  <2>2. CASE conversation' # conversation
    <3> DEFINE f == Phone!SelectionEffect(workspace, conversation')
    <3>1. \A c \in Conversations : c # None =>
             LET e == Phone!SelectionEffect(workspace, c)
             IN  /\ e \in Seq(Phone!Requests) /\ ~SomeDecide(e) /\ OneDecides(e)
                 /\ NoneOf(e, "list") /\ ~NoneOf(e, "thread")
                 /\ \A x \in Elements(e) : x.kind = "thread" /\ x.ws = workspace /\ x.conv = c
      BY <1>5, EffectTypes
    <3>2. p = Phone!SelectionEffect(workspace, conversation')  BY <2>2
    <3>3. QED  BY <1>2, <2>2, <3>1, <3>2
  <2>3. QED  BY <2>1, <2>2
<1> HIDE DEF r, q, p, s
<1> DEFINE t == s \o q
<1>7. /\ t \in Seq(Phone!Requests)
      /\ Elements(t) = Elements(s) \cup Elements(q)
      /\ SomeDecide(t) <=> SomeDecide(requests)
      /\ OneDecides(t)
      /\ NoneOf(t, "list") <=> NoneOf(s, "list")
      /\ \A e : IsLast(t, "list", e) => IsLast(s, "list", e)
      /\ NoneOf(t, "thread") <=> NoneOf(s, "thread") /\ ~Deciding(r)
      /\ ~Deciding(r) => \A e : IsLast(t, "thread", e) => IsLast(s, "thread", e)
      /\ Deciding(r) => \A e : IsLast(t, "thread", e) => IsLast(q, "thread", e)
  <2>1. /\ t \in Seq(Phone!Requests)
        /\ Elements(t) = Elements(s) \cup Elements(q)
        /\ SomeDecide(t) <=> SomeDecide(s) \/ SomeDecide(q)
        /\ OneDecides(s) /\ OneDecides(q) /\ ~(SomeDecide(s) /\ SomeDecide(q)) => OneDecides(t)
        /\ \A k : /\ NoneOf(t, k) <=> NoneOf(s, k) /\ NoneOf(q, k)
                  /\ NoneOf(q, k) => \A e : IsLast(t, k, e) => IsLast(s, k, e)
                  /\ ~NoneOf(q, k) => \A e : IsLast(t, k, e) => IsLast(q, k, e)
    BY <1>3, <1>4, RequestsAdded
  <2> HIDE DEF t
  <2>2. Deciding(r) => SomeDecide(requests)
    BY <1>3 DEF SomeDecide, Elements
  <2>3. QED  BY <1>3, <1>4, <2>1, <2>2
<1> HIDE DEF t
<1>8. /\ requests' \in Seq(Phone!Requests)
      /\ Elements(requests') = Elements(s) \cup Elements(q) \cup Elements(p)
      /\ SomeDecide(requests') <=> SomeDecide(requests)
      /\ OneDecides(requests')
      /\ NoneOf(requests', "list") <=> NoneOf(s, "list")
      /\ \A e : IsLast(requests', "list", e) => IsLast(s, "list", e)
      /\ NoneOf(requests', "thread") <=> NoneOf(t, "thread") /\ conversation' = conversation
      /\ conversation' = conversation => \A e : IsLast(requests', "thread", e) => IsLast(t, "thread", e)
      /\ conversation' # conversation => \A e : IsLast(requests', "thread", e) => IsLast(p, "thread", e)
  <2>1. /\ t \o p \in Seq(Phone!Requests)
        /\ Elements(t \o p) = Elements(t) \cup Elements(p)
        /\ SomeDecide(t \o p) <=> SomeDecide(t) \/ SomeDecide(p)
        /\ OneDecides(t) /\ OneDecides(p) /\ ~(SomeDecide(t) /\ SomeDecide(p))
              => OneDecides(t \o p)
        /\ \A k : /\ NoneOf(t \o p, k) <=> NoneOf(t, k) /\ NoneOf(p, k)
                  /\ NoneOf(p, k) => \A e : IsLast(t \o p, k, e) => IsLast(t, k, e)
                  /\ ~NoneOf(p, k) => \A e : IsLast(t \o p, k, e) => IsLast(p, k, e)
    BY <1>6, <1>7, RequestsAdded
  <2>2. requests' = t \o p  BY <1>1 DEF t
  <2>3. QED  BY <1>6, <1>7, <2>1, <2>2
<1>9. Phone!TypeOK'
  <2>1. r.ws \in Workspaces /\ r.cards \in Phone!Cards  BY <1>1, <1>3, RequestTypes
  <2>2. outrun' \in BOOLEAN /\ moved' \in BOOLEAN  BY <1>1 DEF Phone!TypeOK
  <2>3. QED  BY <1>1, <1>2, <1>5, <1>8, <2>1, <2>2 DEF Phone!TypeOK
<1>10. DecisionsComeSingly'
  BY <1>1, <1>3, <1>4, <1>6, <1>8 DEF DecisionsComeSingly
<1>11. GatesAreDecided'  BY <1>1 DEF GatesAreDecided, Phone!Current
<1>12. ASSUME Phone!Orderly' PROVE Following'
  <2>1. /\ Following /\ (busy => conversation' = conversation)
        /\ \A j \in 1..(i - 1) : requests[j].kind # "list"
    BY <1>1, <1>12 DEF Phone!Orderly
  <2>2. \/ NoneOf(s, "list") /\ IsLast(requests, "list", r)
        \/ /\ ~NoneOf(s, "list")
           /\ \A e : IsLast(s, "list", e) => IsLast(requests, "list", e)
    BY <1>3, <2>1
  <2>3. \A e \in Elements(requests) : Deciding(e) =>
           /\ conversation' = conversation /\ e.ws = workspace /\ conversation # None
           /\ conversation = IF e.kind = "list" THEN e.sel ELSE e.conv
    <3>1. \A e \in Elements(requests) : Deciding(e) => busy
      BY DEF DecisionsComeSingly, SomeDecide, Elements
    <3>2. QED  BY <2>1, <3>1 DEF Following, DecisionStays
  <2>4. Deciding(r) => /\ r.ws = workspace /\ r.sel = conversation /\ conversation' = conversation
                       /\ \A e \in Elements(q) : e.kind = "thread" /\ e.ws = workspace
                                                 /\ e.conv = conversation
    BY <1>1, <1>3, <1>4, <2>3
  <2>5. ~Deciding(r) => \A e \in Elements(q) : ~Deciding(e)
    BY <1>4 DEF SomeDecide, Elements
  <2>6. \A e \in Elements(p) : ~Deciding(e)
    BY <1>6 DEF SomeDecide, Elements
  <2>7. DecisionStays'
    <3> SUFFICES ASSUME NEW e \in Elements(requests'), Deciding(e)
                 PROVE  /\ e.ws = workspace' /\ conversation' # None
                        /\ conversation' = IF e.kind = "list" THEN e.sel ELSE e.conv
      BY DEF DecisionStays
    <3>1. CASE e \in Elements(s)  BY <1>1, <1>3, <2>3, <3>1
    <3>2. CASE e \in Elements(q)  BY <1>1, <1>2, <2>4, <2>5, <3>2
    <3>3. QED  BY <1>8, <2>6, <3>1, <3>2
  <2>8. ListsFollow'
    <3>1. CASE NoneOf(s, "list") /\ IsLast(requests, "list", r)
      <4>1. r.ws = workspace  BY <2>1, <3>1 DEF Following, ListsFollow
      <4>2. NoneOf(requests', "list") /\ \A e : ~IsLast(requests', "list", e)
        BY <1>8, <3>1, LastIsOneOfThem
      <4>3. QED  BY <1>1, <1>2, <4>1, <4>2 DEF ListsFollow
    <3>2. CASE /\ ~NoneOf(s, "list")
               /\ \A e : IsLast(s, "list", e) => IsLast(requests, "list", e)
      BY <1>1, <1>8, <2>1, <3>2 DEF Following, ListsFollow
    <3>3. QED  BY <2>2, <3>1, <3>2
  <2>9. ThreadsFollow'
    <3>1. CASE conversation' # conversation
      <4>1. \A e : IsLast(requests', "thread", e) => e \in Elements(p)
        BY <1>8, <3>1, LastIsOneOfThem
      <4>2. \A e : IsLast(requests', "thread", e) => e.ws = workspace /\ e.conv = conversation'
        BY <1>6, <4>1
      <4>3. ~NoneOf(requests', "thread")  BY <1>8, <3>1
      <4>4. QED  BY <1>1, <1>2, <4>2, <4>3 DEF ThreadsFollow
    <3>2. CASE conversation' = conversation /\ Deciding(r)
      <4>1. \A e : IsLast(requests', "thread", e) => e \in Elements(q)
        BY <1>7, <1>8, <3>2, LastIsOneOfThem
      <4>2. \A e : IsLast(requests', "thread", e) => e.ws = workspace /\ e.conv = conversation'
        BY <2>4, <3>2, <4>1
      <4>3. ~NoneOf(requests', "thread")  BY <1>7, <1>8, <3>2
      <4>4. QED  BY <1>1, <1>2, <4>2, <4>3 DEF ThreadsFollow
    <3>3. CASE conversation' = conversation /\ ~Deciding(r)
      <4>1. \A e : IsLast(requests', "thread", e) => IsLast(requests, "thread", e)
        BY <1>3, <1>7, <1>8, <3>3
      <4>2. NoneOf(requests', "thread") <=> NoneOf(requests, "thread")
        BY <1>3, <1>7, <1>8, <3>3
      <4>3. QED  BY <1>1, <1>2, <2>1, <3>3, <4>1, <4>2 DEF Following, ThreadsFollow
    <3>4. QED  BY <3>1, <3>2, <3>3
  <2>10. DecisionsShow'
    <3> SUFFICES ASSUME NEW d \in decided
                 PROVE  \/ \E e \in Elements(requests') :
                              e.kind = "decide" /\ e.conv = d /\ e.at = "accepted"
                        \/ /\ ~NoneOf(requests', "list")
                           /\ \A e : IsLast(requests', "list", e) /\ e.read
                                        => NoPending(e.cards[d])
                        \/ NoneOf(requests', "list") /\ NoPending(listed'.cards[d])
      BY <1>1 DEF DecisionsShow
    <3>1. CASE \E e \in Elements(requests) : e.kind = "decide" /\ e.conv = d /\ e.at = "accepted"
      BY <1>1, <1>3, <1>8, <3>1
    <3>2. CASE /\ ~NoneOf(requests, "list")
               /\ \A e : IsLast(requests, "list", e) /\ e.read => NoPending(e.cards[d])
      <4>1. CASE NoneOf(s, "list") /\ IsLast(requests, "list", r)
        <5>1. NoPending(r.cards[d])  BY <1>1, <3>2, <4>1
        <5>2. listed'.cards = r.cards  BY <1>1
        <5>3. QED  BY <1>8, <4>1, <5>1, <5>2
      <4>2. CASE /\ ~NoneOf(s, "list")
                 /\ \A e : IsLast(s, "list", e) => IsLast(requests, "list", e)
        BY <1>8, <3>2, <4>2
      <4>3. QED  BY <2>2, <4>1, <4>2
    <3>3. ~NoneOf(requests, "list")  BY <1>1, <1>3, LastIsOneOfThem
    <3>4. QED  BY <2>1, <3>1, <3>2, <3>3 DEF Following, DecisionsShow
  <2>11. QED  BY <2>7, <2>8, <2>9, <2>10 DEF Following
<1>13. QED  BY <1>5, <1>9, <1>10, <1>11, <1>12

LEMMA ListFailsStep == ASSUME PhoneInv, NEW i \in Phone!Open, Phone!ListFails(i) PROVE PhoneInv'
<1> USE DEF PhoneInv
<1> DEFINE r == requests[i]
           q == Phone!AfterList(r)
           s == Phone!Left(i)
<1>1. /\ gate' = gate /\ decided' = decided /\ session' = session /\ workspace' = workspace
      /\ listed' = listed /\ conversation' = conversation /\ thread' = thread /\ busy' = busy
      /\ moved' = moved /\ outrun' = outrun /\ taps' = taps
      /\ failures < MaxFaults /\ failures' = failures + 1
      /\ r.kind = "list" /\ requests' = s \o q
      /\ entry' = IF r.by = "entry" THEN [entry EXCEPT !.at = "done"] ELSE entry
  BY DEF Phone!ListFails, Phone!serverVars, Phone!Fault, Phone!EntryEnds
<1>2. /\ r \in Elements(requests) /\ s \in Seq(Phone!Requests)
      /\ Elements(s) \subseteq Elements(requests) /\ OneDecides(s)
      /\ Deciding(r) => ~SomeDecide(s)
      /\ ~Deciding(r) => (SomeDecide(s) <=> SomeDecide(requests))
  BY <1>1, LeftFacts DEF DecisionsComeSingly
<1>3. /\ q \in Seq(Phone!Requests) /\ OneDecides(q) /\ (SomeDecide(q) <=> Deciding(r))
      /\ \A e \in Elements(q) : e.kind = "thread"
  BY <1>1, AfterListFacts
<1>4. /\ EntryComesFirst'
      /\ entry' \in [by : {"boot", "login"}, at : {"session", "workspaces", "list", "done"}]
  BY <1>1, EntryDone
<1> HIDE DEF r, q, s
<1>5. /\ requests' \in Seq(Phone!Requests) /\ Elements(requests') = Elements(s) \cup Elements(q)
      /\ SomeDecide(requests') <=> SomeDecide(s) \/ SomeDecide(q)
      /\ OneDecides(requests')
  BY <1>1, <1>2, <1>3, RequestsAdded
<1>6. Deciding(r) => SomeDecide(requests)
  BY <1>2 DEF SomeDecide, Elements
<1>7. failures' \in 0..MaxFaults /\ failures' # 0
  BY <1>1, PhoneConstants DEF Phone!MobileAssumption, Phone!TypeOK
<1>8. Phone!TypeOK'  BY <1>1, <1>4, <1>5, <1>7 DEF Phone!TypeOK
<1>9. DecisionsComeSingly'
  BY <1>1, <1>2, <1>3, <1>5, <1>6 DEF DecisionsComeSingly
<1>10. GatesAreDecided'  BY <1>1 DEF GatesAreDecided, Phone!Current
<1>11. QED  BY <1>4, <1>7, <1>8, <1>9, <1>10 DEF Phone!Orderly

LEMMA ThreadStep ==
    ASSUME PhoneInv, NEW i \in Phone!Open, Phone!ApplyThread(i) \/ Phone!ThreadFails(i) PROVE PhoneInv'
<1> USE DEF PhoneInv
<1> DEFINE r == requests[i]
<1>1. /\ gate' = gate /\ decided' = decided /\ session' = session /\ entry' = entry
      /\ workspace' = workspace /\ listed' = listed /\ conversation' = conversation /\ moved' = moved
      /\ taps' = taps /\ r.kind = "thread" /\ requests' = Phone!Left(i)
      /\ busy' = (busy /\ r.by # "decision")
      /\ outrun' = (outrun \/ \E j \in 1..(i - 1) : requests[j].kind = r.kind)
      /\ \/ failures' = failures /\ thread' = IF Home[r.conv] = r.ws THEN r.conv ELSE None
         \/ failures < MaxFaults /\ failures' = failures + 1 /\ thread' = None
  BY DEF Phone!ApplyThread, Phone!ThreadFails, Phone!serverVars, Phone!Fault, Phone!Applied,
     Phone!EndOfDecision
<1>2. /\ r \in Phone!Requests /\ r \in Elements(requests)
      /\ requests' \in Seq(Phone!Requests)
      /\ Elements(requests') \subseteq Elements(requests)
      /\ \A e \in Elements(requests) : e = r \/ e \in Elements(requests')
      /\ OneDecides(requests')
      /\ Deciding(r) => ~SomeDecide(requests')
      /\ ~Deciding(r) => (SomeDecide(requests') <=> SomeDecide(requests))
      /\ NoneOf(requests', "list") <=> NoneOf(requests, "list")
      /\ \A e : IsLast(requests', "list", e) => IsLast(requests, "list", e)
      /\ (\A j \in 1..(i - 1) : requests[j].kind # "thread") =>
            \/ NoneOf(requests', "thread") /\ IsLast(requests, "thread", r)
            \/ /\ ~NoneOf(requests', "thread")
               /\ \A e : IsLast(requests', "thread", e) => IsLast(requests, "thread", e)
  BY <1>1, LeftFacts DEF DecisionsComeSingly
<1>3. EntryComesFirst'  BY <1>1, EntryDone
<1>4. r.conv \in Conversations  BY <1>1, <1>2, RequestTypes
<1>5. Deciding(r) <=> r.by = "decision"  BY <1>1 DEF Deciding
<1> HIDE DEF r
<1>6. Phone!TypeOK'
  <2>1. /\ thread' \in Conversations \cup {None} /\ busy' \in BOOLEAN /\ outrun' \in BOOLEAN
        /\ failures' \in 0..MaxFaults
    BY <1>1, <1>4, PhoneConstants DEF Phone!MobileAssumption, Phone!TypeOK
  <2>2. QED  BY <1>1, <1>2, <2>1 DEF Phone!TypeOK
<1>7. DecisionsComeSingly'
  BY <1>1, <1>2, <1>5 DEF DecisionsComeSingly
<1>8. GatesAreDecided'  BY <1>1 DEF GatesAreDecided, Phone!Current
<1>9. ASSUME Phone!Orderly' PROVE Following'
  <2>1. /\ Following /\ \A j \in 1..(i - 1) : requests[j].kind # "thread"
        /\ thread' = IF Home[r.conv] = r.ws THEN r.conv ELSE None
    <3>1. ~outrun' /\ ~moved' /\ failures' = 0  BY <1>9 DEF Phone!Orderly
    <3>2. failures \in Nat /\ ~(failures + 1 = 0)  BY PhoneConstants DEF Phone!MobileAssumption, Phone!TypeOK
    <3>3. failures = 0 /\ thread' = IF Home[r.conv] = r.ws THEN r.conv ELSE None
      BY <1>1, <3>1, <3>2
    <3>4. ~outrun /\ \A j \in 1..(i - 1) : requests[j].kind # "thread"  BY <1>1, <3>1
    <3>5. ~moved  BY <1>1, <3>1
    <3>6. QED  BY <3>3, <3>4, <3>5 DEF Phone!Orderly
  <2>2. DecisionStays'  BY <1>1, <1>2, <2>1 DEF DecisionStays, Following
  <2>3. ListsFollow'  BY <1>1, <1>2, <2>1 DEF ListsFollow, Following
  <2>4. ThreadsFollow'
    <3>1. conversation # None
      BY <1>1, <1>2, <2>1, LastIsOneOfThem DEF ThreadsFollow, Following
    <3>2. CASE NoneOf(requests', "thread") /\ IsLast(requests, "thread", r)
      <4>1. r.ws = workspace /\ r.conv = conversation  BY <2>1, <3>2 DEF ThreadsFollow,
                                                          Following
      <4>2. \A e : ~IsLast(requests', "thread", e)  BY <3>2, LastIsOneOfThem
      <4>3. QED  BY <1>1, <2>1, <3>1, <4>1, <4>2 DEF ThreadsFollow
    <3>3. CASE /\ ~NoneOf(requests', "thread")
               /\ \A e : IsLast(requests', "thread", e) => IsLast(requests, "thread", e)
      BY <1>1, <2>1, <3>1, <3>3 DEF ThreadsFollow, Following
    <3>4. QED  BY <1>2, <2>1, <3>2, <3>3
  <2>5. DecisionsShow'
    <3> SUFFICES ASSUME NEW d \in decided
                 PROVE  \/ \E e \in Elements(requests') :
                              e.kind = "decide" /\ e.conv = d /\ e.at = "accepted"
                        \/ /\ ~NoneOf(requests', "list")
                           /\ \A e : IsLast(requests', "list", e) /\ e.read
                                        => NoPending(e.cards[d])
                        \/ NoneOf(requests', "list") /\ NoPending(listed'.cards[d])
      BY <1>1 DEF DecisionsShow
    <3>1. CASE \E e \in Elements(requests) : e.kind = "decide" /\ e.conv = d /\ e.at = "accepted"
      BY <1>1, <1>2, <3>1
    <3>2. CASE /\ ~NoneOf(requests, "list")
               /\ \A e : IsLast(requests, "list", e) /\ e.read => NoPending(e.cards[d])
      BY <1>2, <3>2
    <3>3. CASE NoneOf(requests, "list") /\ NoPending(listed.cards[d])
      BY <1>1, <1>2, <3>3
    <3>4. QED  BY <2>1, <3>1, <3>2, <3>3 DEF Following, DecisionsShow
  <2>6. QED  BY <2>2, <2>3, <2>4, <2>5 DEF Following
<1>10. QED  BY <1>3, <1>6, <1>7, <1>8, <1>9

LEMMA DecisionEnds ==
    ASSUME PhoneInv, NEW i \in Phone!Open, requests[i].kind = "decide",
           requests' = Phone!Left(i), busy' = FALSE, failures' \in 0..MaxFaults,
           \/ failures' # 0
           \/ requests[i].at = "refused" /\ failures' = failures,
           UNCHANGED <<Phone!serverVars, session, entry, workspace, listed, conversation, thread, moved,
                       outrun, taps>>
    PROVE  PhoneInv'
<1> USE DEF PhoneInv
<1> DEFINE r == requests[i]
<1>1. /\ gate' = gate /\ decided' = decided /\ session' = session /\ entry' = entry
      /\ workspace' = workspace /\ listed' = listed /\ conversation' = conversation /\ moved' = moved
      /\ thread' = thread /\ outrun' = outrun /\ taps' = taps
  BY DEF Phone!serverVars
<1>2. Deciding(r)  BY DEF Deciding
<1>3. /\ r \in Elements(requests)
      /\ requests' \in Seq(Phone!Requests)
      /\ Elements(requests') \subseteq Elements(requests)
      /\ \A e \in Elements(requests) : e = r \/ e \in Elements(requests')
      /\ OneDecides(requests') /\ ~SomeDecide(requests')
      /\ \A k \in {"list", "thread"} :
            /\ NoneOf(requests', k) <=> NoneOf(requests, k)
            /\ \A e : IsLast(requests', k, e) => IsLast(requests, k, e)
  BY <1>2, LeftFacts DEF DecisionsComeSingly
<1>4. EntryComesFirst'  BY <1>1, EntryDone
<1> HIDE DEF r
<1>5. Phone!TypeOK'  BY <1>1, <1>3 DEF Phone!TypeOK
<1>6. DecisionsComeSingly'  BY <1>3 DEF DecisionsComeSingly
<1>7. GatesAreDecided'  BY <1>1 DEF GatesAreDecided, Phone!Current
<1>8. ASSUME Phone!Orderly' PROVE Following'
  <2>1. Following /\ r.at = "refused"  BY <1>1, <1>8 DEF Phone!Orderly, r
  <2>2. DecisionStays'  BY <1>1, <1>3, <2>1 DEF DecisionStays, Following
  <2>3. ListsFollow'  BY <1>1, <1>3, <2>1 DEF ListsFollow, Following
  <2>4. ThreadsFollow'  BY <1>1, <1>3, <2>1 DEF ThreadsFollow, Following
  <2>5. DecisionsShow'
    <3> SUFFICES ASSUME NEW d \in decided
                 PROVE  \/ \E e \in Elements(requests') :
                              e.kind = "decide" /\ e.conv = d /\ e.at = "accepted"
                        \/ /\ ~NoneOf(requests', "list")
                           /\ \A e : IsLast(requests', "list", e) /\ e.read
                                        => NoPending(e.cards[d])
                        \/ NoneOf(requests', "list") /\ NoPending(listed'.cards[d])
      BY <1>1 DEF DecisionsShow
    <3>1. CASE \E e \in Elements(requests) : e.kind = "decide" /\ e.conv = d /\ e.at = "accepted"
      BY <1>1, <1>3, <2>1, <3>1
    <3>2. CASE /\ ~NoneOf(requests, "list")
               /\ \A e : IsLast(requests, "list", e) /\ e.read => NoPending(e.cards[d])
      BY <1>3, <3>2
    <3>3. CASE NoneOf(requests, "list") /\ NoPending(listed.cards[d])
      BY <1>1, <1>3, <3>3
    <3>4. QED  BY <2>1, <3>1, <3>2, <3>3 DEF Following, DecisionsShow
  <2>6. QED  BY <2>2, <2>3, <2>4, <2>5 DEF Following
<1>9. QED  BY <1>4, <1>5, <1>6, <1>7, <1>8

\* An accepted decision gives way to the list that will be read after it.
LEMMA AcceptedStep ==
    ASSUME PhoneInv, NEW i \in Phone!Open, requests[i].kind = "decide", requests[i].at = "accepted",
           requests' = Append(Phone!Left(i), Phone!ListLoad(requests[i].ws, "decision", requests[i].conv)),
           busy' = busy,
           UNCHANGED <<Phone!serverVars, session, entry, workspace, listed, conversation, thread, moved,
                       outrun, taps, failures>>
    PROVE  PhoneInv'
<1> USE DEF PhoneInv
<1> DEFINE r == requests[i]
           x == Phone!ListLoad(r.ws, "decision", r.conv)
           s == Phone!Left(i)
<1>1. /\ gate' = gate /\ decided' = decided /\ session' = session /\ entry' = entry
      /\ workspace' = workspace /\ listed' = listed /\ conversation' = conversation /\ moved' = moved
      /\ thread' = thread /\ outrun' = outrun /\ taps' = taps /\ failures' = failures
  BY DEF Phone!serverVars
<1>2. Deciding(r)  BY DEF Deciding
<1>3. /\ r \in Phone!Requests /\ r \in Elements(requests) /\ s \in Seq(Phone!Requests)
      /\ Elements(s) \subseteq Elements(requests)
      /\ OneDecides(s) /\ ~SomeDecide(s)
      /\ NoneOf(s, "thread") <=> NoneOf(requests, "thread")
      /\ \A e : IsLast(s, "thread", e) => IsLast(requests, "thread", e)
  BY <1>2, LeftFacts DEF DecisionsComeSingly
<1>4. r.ws \in Workspaces /\ r.conv \in Conversations /\ r.conv # None
  BY <1>3, RequestTypes, PhoneConstants DEF Phone!MobileAssumption
<1>5. /\ x \in Phone!Requests /\ x.kind = "list" /\ x.ws = r.ws /\ ~x.read /\ Deciding(x)
      /\ x.sel = r.conv
  BY <1>4, LoadTypes DEF Phone!Askers
<1>6. EntryComesFirst'  BY <1>1, EntryDone
<1>7. requests' = s \o <<x>>  BY <1>3, <1>5, AppendJoins
<1>8. r.kind # "list"  OBVIOUS
<1> HIDE DEF x, r, s
<1>9. /\ <<x>> \in Seq(Phone!Requests) /\ Elements(<<x>>) = {x}
      /\ OneDecides(<<x>>) /\ SomeDecide(<<x>>)
      /\ ~NoneOf(<<x>>, "list") /\ NoneOf(<<x>>, "thread")
  BY <1>5, FewRequests
<1>10. /\ requests' \in Seq(Phone!Requests) /\ Elements(requests') = Elements(s) \cup {x}
       /\ SomeDecide(requests') /\ OneDecides(requests')
       /\ ~NoneOf(requests', "list") /\ (NoneOf(requests', "thread") <=> NoneOf(s, "thread"))
       /\ \A e : IsLast(requests', "list", e) => IsLast(<<x>>, "list", e)
       /\ \A e : IsLast(requests', "thread", e) => IsLast(s, "thread", e)
  <2>1. s \in Seq(Phone!Requests) /\ <<x>> \in Seq(Phone!Requests)  BY <1>3, <1>9
  <2>2. /\ s \o <<x>> \in Seq(Phone!Requests) /\ Elements(s \o <<x>>) = Elements(s) \cup {x}
        /\ SomeDecide(s \o <<x>>)
        /\ ~NoneOf(s \o <<x>>, "list")
        /\ NoneOf(s \o <<x>>, "thread") <=> NoneOf(s, "thread")
        /\ \A e : IsLast(s \o <<x>>, "list", e) => IsLast(<<x>>, "list", e)
        /\ \A e : IsLast(s \o <<x>>, "thread", e) => IsLast(s, "thread", e)
    BY <1>9, <2>1, RequestsAdded
  <2>3. OneDecides(s \o <<x>>)
    BY <1>3, <1>9, <2>1, RequestsAdded
  <2>4. QED  BY <1>7, <2>2, <2>3
<1>11. \A e : IsLast(requests', "list", e) => e = x
  BY <1>9, <1>10, LastIsOneOfThem
<1>12. busy  BY <1>2, <1>3 DEF DecisionsComeSingly, SomeDecide, Elements
<1>13. Phone!TypeOK'  BY <1>1, <1>10 DEF Phone!TypeOK
<1>14. DecisionsComeSingly'
  BY <1>3, <1>4, <1>5, <1>10, <1>12 DEF DecisionsComeSingly
<1>15. GatesAreDecided'  BY <1>1 DEF GatesAreDecided, Phone!Current
<1>16. ASSUME Phone!Orderly' PROVE Following'
  <2>1. Following  BY <1>1, <1>16 DEF Phone!Orderly
  <2>2. r.ws = workspace /\ r.conv = conversation /\ conversation # None
    BY <1>2, <1>3, <1>8, <2>1 DEF Following, DecisionStays
  <2>3. DecisionStays'
    BY <1>1, <1>3, <1>5, <1>10, <2>1, <2>2 DEF DecisionStays, Following
  <2>4. ListsFollow'  BY <1>1, <1>5, <1>10, <1>11, <2>2 DEF ListsFollow
  <2>5. ThreadsFollow'  BY <1>1, <1>3, <1>10, <2>1 DEF ThreadsFollow, Following
  <2>6. DecisionsShow'  BY <1>1, <1>5, <1>10, <1>11 DEF DecisionsShow
  <2>7. QED  BY <2>3, <2>4, <2>5, <2>6 DEF Following
<1>17. QED  BY <1>6, <1>13, <1>14, <1>15, <1>16

LEMMA DecisionSteps ==
    ASSUME PhoneInv, NEW i \in Phone!Open, Phone!DecisionAnswered(i) \/ Phone!DecisionFails(i) PROVE PhoneInv'
<1>1. CASE Phone!DecisionFails(i)
  <2>1. /\ requests[i].kind = "decide" /\ requests' = Phone!Left(i) /\ busy' = FALSE
        /\ failures < MaxFaults /\ failures' = failures + 1
        /\ UNCHANGED <<Phone!serverVars, session, entry, workspace, listed, conversation, thread, moved,
                       outrun, taps>>
    BY <1>1 DEF Phone!DecisionFails, Phone!Fault
  <2>2. failures' \in 0..MaxFaults /\ failures' # 0
    BY <2>1, PhoneConstants DEF Phone!MobileAssumption, PhoneInv, Phone!TypeOK
  <2>3. QED  BY <2>1, <2>2, DecisionEnds
<1>2. CASE Phone!DecisionAnswered(i) /\ requests[i].at = "refused"
  <2>1. /\ requests[i].kind = "decide" /\ requests' = Phone!Left(i) /\ busy' = FALSE
        /\ failures' = failures
        /\ UNCHANGED <<Phone!serverVars, session, entry, workspace, listed, conversation, thread, moved,
                       outrun, taps>>
    BY <1>2 DEF Phone!DecisionAnswered
  <2>2. failures' \in 0..MaxFaults  BY <2>1 DEF PhoneInv, Phone!TypeOK
  <2>3. QED  BY <1>2, <2>1, <2>2, DecisionEnds
<1>3. CASE Phone!DecisionAnswered(i) /\ requests[i].at = "accepted"
  <2>1. /\ requests[i].kind = "decide" /\ busy' = busy
        /\ requests' = Append(Phone!Left(i), Phone!ListLoad(requests[i].ws, "decision", requests[i].conv))
        /\ UNCHANGED <<Phone!serverVars, session, entry, workspace, listed, conversation, thread, moved,
                       outrun, taps, failures>>
    BY <1>3 DEF Phone!DecisionAnswered
  <2>2. QED  BY <1>3, <2>1, AcceptedStep
<1>4. QED  BY <1>1, <1>2, <1>3 DEF Phone!DecisionAnswered

-----------------------------------------------------------------------------
LEMMA PhoneInit == Phone!Init => PhoneInv
<1> SUFFICES ASSUME Phone!Init PROVE PhoneInv
  OBVIOUS
<1>1. gate \in Phone!Cards /\ GatesAreDecided
  <2>1. MaxPlans \in Nat \ {0}  BY PhoneConstants DEF Phone!MobileAssumption
  <2>2. /\ <<"pending">> \in Seq(Phone!CardStates) /\ Len(<<"pending">>) = 1 /\ <<"pending">> # << >>
    BY DEF Phone!CardStates
  <2>3. gate = [c \in Coding |-> <<"pending">>] /\ decided = {}  BY DEF Phone!Init
  <2>4. gate \in [Coding -> Seq(Phone!CardStates)] /\ \A c \in Coding : Len(gate[c]) <= MaxPlans
    BY <2>1, <2>2, <2>3
  <2>5. gate \in Phone!Cards  BY <2>4, CardsFacts
  <2>6. \A c \in Coding : gate[c] = <<"pending">>  BY <2>3
  <2>7. GatesAreDecided
    <3> SUFFICES ASSUME NEW c \in Coding
                 PROVE  /\ gate[c] # << >>
                        /\ \A n \in 1..(Len(gate[c]) - 1) : gate[c][n] = "revision_requested"
      BY <2>3 DEF GatesAreDecided
    <3>0. Len(gate[c]) = 1  BY <2>2, <2>6
    <3>1. 1..(Len(gate[c]) - 1) = {}  BY <3>0
    <3>2. QED  BY <2>2, <2>6, <3>1
  <2>8. QED  BY <2>5, <2>7
<1>2. requests \in Seq(Phone!Requests) /\ requests = << >>  BY DEF Phone!Init
<1>3. Phone!TypeOK
  <2>1. Phone!NoCards \in Phone!Cards
    <3>1. Phone!NoCards \in [Coding -> Seq(Phone!CardStates)] /\ \A c \in Coding : Len(Phone!NoCards[c]) <= MaxPlans
      BY PhoneConstants DEF Phone!MobileAssumption, Phone!NoCards
    <3>2. QED  BY <3>1, CardsFacts
  <2>2. taps \in 0..MaxTaps /\ failures \in 0..MaxFaults  BY PhoneConstants DEF Phone!MobileAssumption, Phone!Init
  <2>3. listed \in [ws : Workspaces \cup {None}, cards : Phone!Cards]  BY <2>1 DEF Phone!Init
  <2>4. QED  BY <1>1, <1>2, <2>2, <2>3 DEF Phone!Init, Phone!TypeOK
<1>4. /\ ~SomeDecide(requests) /\ OneDecides(requests) /\ Elements(requests) = {}
      /\ \A k : NoneOf(requests, k)
  BY <1>2 DEF SomeDecide, OneDecides, Elements, NoneOf
<1>5. DecisionsComeSingly  BY <1>4 DEF Phone!Init, DecisionsComeSingly
<1>6. EntryComesFirst  BY DEF Phone!Init, EntryComesFirst
<1>7. Following
  <2>1. \A k, r : ~IsLast(requests, k, r)  BY <1>4, LastIsOneOfThem
  <2>2. QED
    BY <1>4, <2>1 DEF Phone!Init, Following, DecisionStays, ListsFollow, ThreadsFollow,
       DecisionsShow
<1>8. QED  BY <1>1, <1>3, <1>5, <1>6, <1>7 DEF PhoneInv

LEMMA PhoneNext == PhoneInv /\ [Phone!Next]_phoneVars => PhoneInv'
<1> SUFFICES ASSUME PhoneInv, [Phone!Next]_phoneVars PROVE PhoneInv'
  OBVIOUS
<1>1. CASE Phone!SessionLoaded \/ Phone!Login \/ Phone!LoggedIn \/ Phone!EntryFails
  BY <1>1, EntrySteps
<1>2. CASE Phone!WorkspacesLoaded
  BY <1>2, WorkspacesLoadedStep
<1>3. CASE Phone!Refresh \/ (\E w \in Workspaces : Phone!SwitchWorkspace(w)) \/ \E c \in Conversations : Phone!Select(c)
  BY <1>3, RefreshStep, SwitchStep, SelectStep
<1>4. CASE \E c \in Coding : Phone!OthersDecide(c) \/ \E answer \in Phone!Answers : Phone!Decide(c, answer)
  BY <1>4, OthersDecideStep, DecideStep
<1>5. CASE \E i \in Phone!Open : Phone!ServeDecision(i) \/ Phone!ServeList(i)
  BY <1>5, ServeDecisionStep, ServeListStep
<1>6. CASE \E i \in Phone!Open : Phone!ApplyList(i) \/ Phone!ListFails(i)
  BY <1>6, ApplyListStep, ListFailsStep
<1>7. CASE \E i \in Phone!Open : Phone!ApplyThread(i) \/ Phone!ThreadFails(i)
  BY <1>7, ThreadStep
<1>8. CASE \E i \in Phone!Open : Phone!DecisionAnswered(i) \/ Phone!DecisionFails(i)
  BY <1>8, DecisionSteps
<1>9. CASE UNCHANGED phoneVars
  <2>1. /\ UNCHANGED <<Phone!serverVars, workspace, listed, conversation, thread, busy, moved, Phone!netVars>>
        /\ session' = session /\ entry' = entry /\ taps' = taps /\ failures' = failures
    BY <1>9 DEF phoneVars, Phone!screenVars, Phone!serverVars, Phone!netVars
  <2>2. /\ gate' = gate /\ decided' = decided /\ requests' = requests /\ outrun' = outrun
        /\ workspace' = workspace /\ listed' = listed /\ conversation' = conversation
        /\ thread' = thread /\ busy' = busy /\ moved' = moved
    BY <2>1 DEF Phone!serverVars, Phone!netVars
  <2>3. Phone!TypeOK'  BY <2>1, <2>2 DEF PhoneInv, Phone!TypeOK
  <2>4. EntryComesFirst'  BY <2>1, <2>2 DEF PhoneInv, EntryComesFirst
  <2>5. QED  BY <2>1, <2>3, <2>4, EntryFrame
<1>10. QED
  BY <1>1, <1>2, <1>3, <1>4, <1>5, <1>6, <1>7, <1>8, <1>9 DEF Phone!Next, Phone!Answering

LEMMA PhoneInvGives == PhoneInv => Phone!ScreenIsSound
<1> SUFFICES ASSUME PhoneInv PROVE Phone!ScreenIsSound
  OBVIOUS
<1>1. ASSUME Phone!Quiet, Phone!Orderly
      PROVE  /\ thread = conversation /\ listed.ws = workspace
             /\ conversation # None => conversation \in Phone!Listed(workspace)
             /\ \A c \in decided : \A i \in DOMAIN listed.cards[c] :
                    listed.cards[c][i] # "pending"
  <2>1. \A k : NoneOf(requests, k)  BY <1>1 DEF Phone!Quiet, NoneOf
  <2>2. Elements(requests) = {}  BY <1>1 DEF Phone!Quiet, Elements
  <2>3. Following  BY <1>1 DEF PhoneInv
  <2>4. /\ listed.ws = workspace /\ (conversation # None => Home[conversation] = workspace)
        /\ conversation # None => thread = conversation
        /\ conversation = None => thread = conversation
    BY <2>1, <2>3 DEF Following, ListsFollow, ThreadsFollow
  <2>5. conversation \in Conversations \cup {None}  BY DEF PhoneInv, Phone!TypeOK
  <2>6. \A c \in decided : NoPending(listed.cards[c])
    BY <2>1, <2>2, <2>3 DEF Following, DecisionsShow
  <2>7. QED  BY <2>4, <2>5, <2>6 DEF Phone!Listed, NoPending
<1>2. Phone!BusyMeansDeciding
  BY DEF PhoneInv, DecisionsComeSingly, SomeDecide, Deciding, Phone!BusyMeansDeciding,
     Phone!Open
<1>3. QED
  BY <1>1, <1>2 DEF PhoneInv, Phone!ScreenIsSound, Phone!ScreenFollowsTheReader,
     Phone!OwnDecisionsShow

LEMMA PhoneSteps == [ClientNext]_allVars => [Phone!Next]_phoneVars
  BY DEF ClientNext, WebStep, PhoneStep, allVars

\* The phone tells the truth about where its reader is, what it is doing and what it has
\* decided, whatever is tapped, answered, lost or decided elsewhere: ScreenIsSound holds for
\* any workspaces and conversations and any number of taps.  (MobileShell)
THEOREM ScreenStaysSound == ClientSpec => []ScreenIsSound
<1>1. ClientInit => PhoneInv  BY PhoneInit DEF ClientInit
<1>2. PhoneInv /\ [ClientNext]_allVars => PhoneInv'  BY PhoneNext, PhoneSteps
<1>3. PhoneInv => ScreenIsSound  BY PhoneInvGives DEF ScreenIsSound
<1>4. QED  BY <1>1, <1>2, <1>3, PTL DEF ClientSpec

-----------------------------------------------------------------------------
(***************************************************************************)
(* The home page: the inductive invariant.                                 *)
(***************************************************************************)
\* Every message that is stored, or will be because it has been sent or is being answered,
\* is within the bound.
SendsAreBounded ==
  \E k \in 0..MaxSends :
    /\ Len(store) + Cardinality(running) = Len(Earlier) + 2 * k
    /\ sending # None /\ sending.stored = None => k < MaxSends

\* What the window has or waits for is about messages that are stored.
WindowKnows ==
  /\ live # None => live.of \in 1..Len(store)
  /\ \A k \in 1..Len(stream.heard) : stream.heard[k].of \in 1..Len(store)
  /\ \A n \in 1..Len(loads) : /\ loads[n].seen \subseteq OfConversation(loads[n].conversationId)
                              /\ ~loads[n].read => loads[n].seen = {}
  /\ sending # None /\ sending.stored # None =>
       sending.stored \in OfConversation(sending.conversationId)
  /\ pinning # None => pinning.id \in 1..Len(store)
  /\ pinning # None /\ pinning.stored => (pinning.pin <=> pinning.id \in pins)
  /\ faults \in 0..MaxFaults

\* What is of another conversation has strayed, or came along and has not been fetched over.
ThreadBelongs ==
  /\ settled /\ ~strayed =>
       \A k \in 1..Len(messages) : store[messages[k].id].conversationId = selected
  /\ live # None /\ ~strayed => store[live.of].conversationId = selected

Distinct(s) == \A j, k \in 1..Len(s) : s[j].id = s[k].id => j = k

\* What will make up for a message that is shown twice.
Refreshed == timers # None \/ Len(loads) > 0 \/ faults < MaxFaults

\* What will make up for the pin of the message i.
PinComes(i) ==
  \/ pinning # None /\ pinning.id = i
  \/ timers # None
  \/ \E n \in 1..Len(loads) : /\ loads[n].conversationId = selected
                              /\ loads[n].read => i \in loads[n].seen

\* A pin that is shown is the server's or will be, while nothing is lost, strays or comes late.
PinsCome ==
  faults = MaxFaults /\ ~strayed /\ ~overtaken =>
    \A k \in 1..Len(messages) :
      LET i == messages[k].id
      IN store[i].conversationId = selected =>
           (messages[k].pinned = (i \in pins)) \/ PinComes(i)

ChatInv ==
  /\ TypeOK /\ SendsAreBounded /\ WindowKnows
  /\ ThreadBelongs /\ RefreshesFollowSelection
  /\ Distinct(messages) \/ Refreshed
  /\ PinsCome

-----------------------------------------------------------------------------
(***************************************************************************)
(* Sequences of fetches and messages.                                      *)
(***************************************************************************)
LEMMA OneLess ==
  ASSUME NEW S, NEW s \in Seq(S), NEW i \in 1..Len(s)
  PROVE  /\ RemoveAt(s, i) \in Seq(S) /\ Len(RemoveAt(s, i)) = Len(s) - 1
         /\ \A j \in 1..(Len(s) - 1) : \E m \in 1..Len(s) : m # i /\ RemoveAt(s, i)[j] = s[m]
         /\ \A m \in 1..Len(s) : m # i => \E j \in 1..(Len(s) - 1) : RemoveAt(s, i)[j] = s[m]
<1>0. RemoveAt(s, i) = Phone!RemoveAt(s, i)
  BY Zenon DEF RemoveAt, Phone!RemoveAt
<1>1. /\ RemoveAt(s, i) \in Seq(S) /\ Len(RemoveAt(s, i)) = Len(s) - 1
      /\ \A j \in 1..(i - 1) : RemoveAt(s, i)[j] = s[j]
      /\ \A j \in i..(Len(s) - 1) : RemoveAt(s, i)[j] = s[j + 1]
  BY <1>0, Removed
<1>2. Len(s) \in Nat  OBVIOUS
<1>3. ASSUME NEW j \in 1..(Len(s) - 1)
      PROVE  \E m \in 1..Len(s) : m # i /\ RemoveAt(s, i)[j] = s[m]
  <2>1. CASE j < i
    <3>1. j \in 1..(i - 1) /\ j \in 1..Len(s) /\ j # i  BY <2>1, <1>2
    <3>2. QED  BY <1>1, <3>1
  <2>2. CASE ~(j < i)
    <3>1. j \in i..(Len(s) - 1) /\ j + 1 \in 1..Len(s) /\ j + 1 # i  BY <2>2, <1>2
    <3>2. QED  BY <1>1, <3>1
  <2>3. QED  BY <2>1, <2>2
<1>4. ASSUME NEW m \in 1..Len(s), m # i
      PROVE  \E j \in 1..(Len(s) - 1) : RemoveAt(s, i)[j] = s[m]
  <2>1. CASE m < i
    <3>1. m \in 1..(i - 1) /\ m \in 1..(Len(s) - 1)  BY <2>1, <1>2
    <3>2. QED  BY <1>1, <3>1
  <2>2. CASE ~(m < i)
    <3>1. m - 1 \in i..(Len(s) - 1) /\ m - 1 \in 1..(Len(s) - 1) /\ (m - 1) + 1 = m
      BY <2>2, <1>2, <1>4
    <3>2. QED  BY <1>1, <3>1
  <2>3. QED  BY <2>1, <2>2
<1>5. QED  BY <1>1, <1>3, <1>4

LEMMA OneMore ==
  ASSUME NEW S, NEW s \in Seq(S), NEW x \in S
  PROVE  /\ Append(s, x) \in Seq(S) /\ Len(Append(s, x)) = Len(s) + 1
         /\ Append(s, x)[Len(s) + 1] = x
         /\ \A i \in 1..Len(s) : Append(s, x)[i] = s[i]
         /\ \A i \in 1..Len(Append(s, x)) : i \in 1..Len(s) \/ i = Len(s) + 1
         /\ Len(s) \in Nat
  OBVIOUS

LEMMA SomeMore ==
  ASSUME NEW S, NEW s \in Seq(S), NEW x \in S, NEW n \in Nat
  PROVE  LET t == s \o [k \in 1..n |-> x]
         IN  /\ t \in Seq(S) /\ Len(t) = Len(s) + n
             /\ \A i \in 1..Len(t) : (i \in 1..Len(s) /\ t[i] = s[i]) \/ t[i] = x
             /\ n > 0 => t[Len(s) + 1] = x
<1> DEFINE q == [k \in 1..n |-> x]
           t == s \o q
<1>1. /\ q \in Seq(S) /\ Len(q) = n /\ \A k \in 1..n : q[k] = x
  OBVIOUS
<1> HIDE DEF q
<1>2. t \in Seq(S) /\ Len(t) = Len(s) + n  BY <1>1
<1>3. ASSUME NEW i \in 1..Len(t) PROVE (i \in 1..Len(s) /\ t[i] = s[i]) \/ t[i] = x
  <2>1. CASE i <= Len(s)  BY <1>1, <1>2, <2>1
  <2>2. CASE ~(i <= Len(s))
    <3>1. i - Len(s) \in 1..n /\ t[i] = q[i - Len(s)]  BY <1>1, <1>2, <2>2
    <3>2. QED  BY <1>1, <3>1
  <2>3. QED  BY <2>1, <2>2
<1>4. ASSUME n > 0 PROVE t[Len(s) + 1] = x
  <2>1. Len(s) \in Nat /\ Len(s) + 1 \in 1..Len(t)  BY <1>2, <1>4
  <2>2. t[Len(s) + 1] = q[(Len(s) + 1) - Len(s)]  BY <1>1, <1>4, <2>1
  <2>3. (Len(s) + 1) - Len(s) = 1 /\ 1 \in 1..n  BY <1>4, <2>1
  <2>4. QED  BY <1>1, <2>2, <2>3
<1> HIDE DEF t
<1>5. t \in Seq(S) /\ Len(t) = Len(s) + n  BY <1>2
<1>6. QED  BY <1>3, <1>4, <1>5 DEF t, q

\* A set of positions that is not empty has a greatest one.
LEMMA MaxIsOneOfThem ==
  ASSUME NEW n \in Nat, NEW S \in SUBSET (1..n), S # {} PROVE Max(S) \in S
<1> DEFINE R == {ss \in Nat \X Nat : ss[1] < ss[2]}
           T == {n - k : k \in S}
<1>1. IsWellFoundedOn(R, Nat)  BY NatLessThanWellFounded DEF OpToRel
<1> HIDE DEF R
<1>2. T \subseteq Nat /\ T # {}
  <2>1. \A k \in S : k \in 1..n  OBVIOUS
  <2>2. \A k \in S : n - k \in Nat  BY <2>1
  <2>3. T \subseteq Nat  BY <2>2
  <2>4. PICK k \in S : TRUE  OBVIOUS
  <2>5. n - k \in T  BY <2>4
  <2>6. QED  BY <2>3, <2>5
<1>3. PICK d \in T : \A e \in T : ~(<<e, d>> \in R)
  <2> HIDE DEF T
  <2>1. QED  BY <1>1, <1>2, WFMin
<1>4. \A e \in T : ~(e < d)
  <2> HIDE DEF T
  <2>1. QED  BY <1>2, <1>3 DEF R
<1>5. PICK m \in S : d = n - m  OBVIOUS
<1>6. ASSUME NEW k \in S PROVE m >= k
  <2>1. ~(n - k < n - m)  BY <1>4, <1>5
  <2>2. QED  BY <2>1
<1>7. \E x \in S : \A y \in S : x >= y  BY <1>6
<1>8. QED  BY <1>7 DEF Max

\* How many of the positions are not after i tells them apart.
LEMMA RanksDiffer ==
  ASSUME NEW ids \in SUBSET Nat, IsFiniteSet(ids), NEW i \in ids, NEW k \in ids, i < k
  PROVE  Cardinality({j \in ids : j <= i}) < Cardinality({j \in ids : j <= k})
<1> DEFINE A == {j \in ids : j <= i}
           B == {j \in ids : j <= k}
<1>1. A \subseteq B /\ k \in B /\ k \notin A
  <2>1. i \in Nat /\ k \in Nat /\ \A j \in ids : j \in Nat  OBVIOUS
  <2>2. ASSUME NEW j \in ids, j <= i PROVE j <= k  BY <2>1, <2>2
  <2>3. ~(k <= i) /\ k <= k  BY <2>1
  <2>4. QED  BY <2>2, <2>3
<1>2. IsFiniteSet(B) /\ IsFiniteSet(A)  BY FS_Subset
<1> HIDE DEF A, B
<1>3. Cardinality(A) <= Cardinality(B) /\ (Cardinality(B) = Cardinality(A) => B = A)
  BY <1>1, <1>2, FS_Subset
<1>4. Cardinality(A) \in Nat /\ Cardinality(B) \in Nat  BY <1>2, FS_CardinalityType
<1>5. Cardinality(A) < Cardinality(B)  BY <1>1, <1>3, <1>4
<1>6. QED  BY <1>5 DEF A, B

LEMMA InOrderFacts ==
  ASSUME NEW ids \in SUBSET Nat, IsFiniteSet(ids)
  PROVE  /\ Cardinality(ids) \in Nat
         /\ InOrder(ids) \in [1..Cardinality(ids) -> ids]
         /\ \A j, k \in 1..Cardinality(ids) : InOrder(ids)[j] = InOrder(ids)[k] => j = k
         /\ \A i \in ids : \E k \in 1..Cardinality(ids) : InOrder(ids)[k] = i
<1> DEFINE n == Cardinality(ids)
           Rank(i) == Cardinality({j \in ids : j <= i})
           rank == [i \in ids |-> Rank(i)]
           Is(k, i) == i \in ids /\ Rank(i) = k
<1>1. n \in Nat  BY FS_CardinalityType
<1>2. ASSUME NEW i \in ids PROVE Rank(i) \in 1..n
  <2>1. {j \in ids : j <= i} \in SUBSET ids /\ i \in {j \in ids : j <= i}  OBVIOUS
  <2>2. IsFiniteSet({j \in ids : j <= i}) /\ Rank(i) <= n  BY <2>1, FS_Subset
  <2>3. Rank(i) \in Nat  BY <2>2, FS_CardinalityType
  <2>4. Rank(i) # 0  BY <2>1, <2>2, FS_EmptySet
  <2> HIDE DEF Rank, n
  <2>5. QED  BY <1>1, <2>2, <2>3, <2>4
<1>3. ASSUME NEW i \in ids, NEW k \in ids, Rank(i) = Rank(k) PROVE i = k
  <2>1. i \in Nat /\ k \in Nat /\ Rank(i) \in Int /\ Rank(k) \in Int  BY <1>1, <1>2
  <2>2. ~(i < k)  
    <3>1. i < k => Rank(i) < Rank(k)  BY RanksDiffer
    <3> HIDE DEF Rank
    <3>2. QED  BY <1>3, <2>1, <3>1
  <2>3. ~(k < i)
    <3>1. k < i => Rank(k) < Rank(i)  BY RanksDiffer
    <3> HIDE DEF Rank
    <3>2. QED  BY <1>3, <2>1, <3>1
  <2> HIDE DEF Rank
  <2>4. QED  BY <2>1, <2>2, <2>3
<1> HIDE DEF Rank
<1>4. rank \in Injection(ids, 1..n)  BY <1>2, <1>3 DEF Injection, IsInjective
<1>5. IsFiniteSet(1..n) /\ Cardinality(1..n) = n
  <2> HIDE DEF n
  <2>1. QED  BY <1>1, FS_Interval
<1>6. rank \in Surjection(ids, 1..n)  BY <1>4, <1>5, FS_Injection
<1>7. ASSUME NEW k \in 1..n PROVE \E i \in ids : Rank(i) = k
  BY <1>6 DEF Surjection
<1>8. InOrder(ids) = [k \in 1..n |-> CHOOSE i \in ids : Rank(i) = k]
  BY DEF InOrder, Rank
<1>9. ASSUME NEW k \in 1..n PROVE InOrder(ids)[k] \in ids /\ Rank(InOrder(ids)[k]) = k
  <2>1. InOrder(ids)[k] = CHOOSE i \in ids : Rank(i) = k  BY <1>8
  <2>2. QED  BY <1>7, <2>1
<1>10. InOrder(ids) \in [1..n -> ids]  BY <1>8, <1>9
<1>11. \A j, k \in 1..n : InOrder(ids)[j] = InOrder(ids)[k] => j = k  BY <1>9
<1>12. ASSUME NEW i \in ids PROVE \E k \in 1..n : InOrder(ids)[k] = i
  <2>1. InOrder(ids)[Rank(i)] \in ids /\ Rank(InOrder(ids)[Rank(i)]) = Rank(i)  BY <1>2, <1>9
  <2>2. QED  BY <1>2, <1>3, <2>1
<1>13. QED  BY <1>1, <1>10, <1>11, <1>12

-----------------------------------------------------------------------------
(***************************************************************************)
(* The thread.                                                             *)
(***************************************************************************)
LEMMA EachOnce ==
  ASSUME NEW S, messages \in Seq(S), Distinct(messages)
  PROVE  Cardinality(Shown) = Len(messages)
<1> DEFINE n == Len(messages)
           f == [k \in 1..n |-> messages[k].id]
<1>1. n \in Nat  OBVIOUS
<1>2. Shown = {messages[k].id : k \in 1..n}  BY DEF Shown
<1>3. \A j, k \in 1..n : messages[j].id = messages[k].id => j = k  BY DEF Distinct
<1> HIDE DEF n
<1>4. f \in Bijection(1..n, Shown)
  BY <1>2, <1>3 DEF Bijection, Injection, IsInjective, Surjection
<1>5. ExistsBijection(1..n, Shown)  BY <1>4 DEF ExistsBijection
<1>6. IsFiniteSet(1..n) /\ Cardinality(1..n) = n  BY <1>1, FS_Interval
<1>7. QED  BY <1>5, <1>6, FS_Bijection DEF n

\* What a fetch of a conversation leaves on the screen: its messages, each once, those that it
\* brought as it brought them and the others as they were.
LEMMA MergeFacts ==
  ASSUME TypeOK, NEW f, f.seen \subseteq OfConversation(f.conversationId),
         NEW m, m = MergeMessages(messages, f)
  PROVE  /\ m \in Seq([id : 1..Len(store), pinned : BOOLEAN])
         /\ Distinct(m)
         /\ \A k \in 1..Len(m) :
              /\ store[m[k].id].conversationId = f.conversationId
              /\ m[k].id \in f.seen => m[k].pinned = (m[k].id \in f.pinned)
              /\ m[k].id \notin f.seen => \E j \in 1..Len(messages) : m[k] = messages[j]
         /\ \A j \in 1..Len(messages) :
              store[messages[j].id].conversationId = f.conversationId
                => \E k \in 1..Len(m) : m[k].id = messages[j].id
<1> DEFINE Pos == 1..Len(store)
           Msg == [id : Pos, pinned : BOOLEAN]
           kept == {k \in 1..Len(messages) : store[messages[k].id].conversationId = f.conversationId}
           ids == f.seen \cup {messages[k].id : k \in kept}
           At(i) == {k \in kept : messages[k].id = i}
           Entry(i) == IF i \in f.seen THEN [id |-> i, pinned |-> i \in f.pinned]
                                       ELSE messages[Max(At(i))]
           order == InOrder(ids)
<1>1. messages \in Seq(Msg) /\ Len(messages) \in Nat /\ Len(store) \in Nat
  BY DEF TypeOK
<1>2. \A k \in 1..Len(messages) : messages[k] \in Msg /\ messages[k].id \in Pos
  <2> HIDE DEF Pos
  <2>1. \A e \in Msg : e.id \in Pos  OBVIOUS
  <2> HIDE DEF Msg
  <2>2. QED  BY <1>1, <2>1
<1>3. f.seen \subseteq Pos /\ \A i \in f.seen : store[i].conversationId = f.conversationId
  BY DEF OfConversation
<1>4. ids \subseteq Pos  BY <1>2, <1>3
<1>5. \A i \in ids : store[i].conversationId = f.conversationId  BY <1>3
<1>6. ids \in SUBSET Nat /\ IsFiniteSet(ids)
  <2>1. IsFiniteSet(Pos)  BY <1>1, FS_Interval
  <2>2. ids \in SUBSET Nat  BY <1>1, <1>4
  <2> HIDE DEF ids, Pos
  <2>3. QED  BY <1>4, <2>1, <2>2, FS_Subset
<1>7. ASSUME NEW i \in ids
      PROVE  /\ Entry(i) \in Msg /\ Entry(i).id = i
             /\ i \in f.seen => Entry(i).pinned = (i \in f.pinned)
             /\ i \notin f.seen => \E j \in 1..Len(messages) : Entry(i) = messages[j]
  <2>1. CASE i \in f.seen
    <3>1. i \in Pos /\ (i \in f.pinned) \in BOOLEAN  BY <1>4, <2>1
    <3>2. Entry(i) = [id |-> i, pinned |-> i \in f.pinned]  BY <2>1
    <3> DEFINE b == i \in f.pinned
    <3>0. b \in BOOLEAN /\ Entry(i) = [id |-> i, pinned |-> b]  BY <3>1, <3>2
    <3> HIDE DEF Entry, Pos, b
    <3>3. Entry(i) \in Msg  BY <3>0, <3>1
    <3>4. Entry(i).id = i  BY <3>0
    <3>7. Entry(i).pinned = b  BY <3>0
    <3>5. Entry(i).pinned = (i \in f.pinned)  BY <3>7 DEF b
    <3>6. QED  BY <2>1, <3>3, <3>4, <3>5
  <2>2. CASE i \notin f.seen
    <3>1. At(i) \in SUBSET (1..Len(messages)) /\ At(i) # {}  BY <2>2
    <3> HIDE DEF At
    <3>2. Max(At(i)) \in At(i)  BY <1>1, <3>1, MaxIsOneOfThem
    <3>3. Max(At(i)) \in 1..Len(messages) /\ messages[Max(At(i))].id = i  BY <3>2 DEF At
    <3>4. Entry(i) = messages[Max(At(i))]  BY <2>2
    <3> HIDE DEF Entry
    <3>5. QED  BY <1>2, <2>2, <3>3, <3>4
  <2>3. QED  BY <2>1, <2>2
<1>8. m = [k \in 1..Len(order) |-> Entry(order[k])]  BY DEF MergeMessages
<1> HIDE DEF Entry, Msg, ids
<1>9. /\ Cardinality(ids) \in Nat /\ order \in [1..Cardinality(ids) -> ids]
      /\ \A j, k \in 1..Cardinality(ids) : order[j] = order[k] => j = k
      /\ \A i \in ids : \E k \in 1..Cardinality(ids) : order[k] = i
  BY <1>6, InOrderFacts
<1> HIDE DEF order
<1>10. Len(order) = Cardinality(ids)  BY <1>9
<1>11. /\ m \in Seq(Msg) /\ Len(m) = Cardinality(ids)
       /\ \A k \in 1..Cardinality(ids) : order[k] \in ids /\ m[k] = Entry(order[k])
  BY <1>7, <1>8, <1>9, <1>10
<1>12. \A k \in 1..Len(m) : order[k] \in ids /\ m[k] = Entry(order[k]) /\ m[k].id = order[k]
  BY <1>7, <1>11
<1>13. Distinct(m)  BY <1>9, <1>11, <1>12 DEF Distinct
<1>14. ASSUME NEW k \in 1..Len(m)
       PROVE  /\ store[m[k].id].conversationId = f.conversationId
              /\ m[k].id \in f.seen => m[k].pinned = (m[k].id \in f.pinned)
              /\ m[k].id \notin f.seen => \E j \in 1..Len(messages) : m[k] = messages[j]
  <2>1. order[k] \in ids /\ m[k] = Entry(order[k]) /\ m[k].id = order[k]  BY <1>12
  <2>2. store[m[k].id].conversationId = f.conversationId  BY <1>5, <2>1
  <2>3. m[k].id \in f.seen => m[k].pinned = (m[k].id \in f.pinned)  BY <1>7, <2>1
  <2>4. m[k].id \notin f.seen => \E j \in 1..Len(messages) : m[k] = messages[j]
    BY <1>7, <2>1
  <2>5. QED  BY <2>2, <2>3, <2>4
<1>15. ASSUME NEW j \in 1..Len(messages), store[messages[j].id].conversationId = f.conversationId
       PROVE  \E k \in 1..Len(m) : m[k].id = messages[j].id
  <2>1. messages[j].id \in ids  BY <1>15 DEF ids
  <2>2. PICK k \in 1..Cardinality(ids) : order[k] = messages[j].id  BY <1>9, <2>1
  <2>3. QED  BY <1>11, <1>12, <2>2
<1>16. m \in Seq([id : 1..Len(store), pinned : BOOLEAN])  BY <1>11 DEF Msg
<1>17. QED  BY <1>13, <1>14, <1>15, <1>16

-----------------------------------------------------------------------------
(***************************************************************************)
(* The steps of the home page.                                             *)
(***************************************************************************)
LEMMA WhatIsShown ==
  ASSUME TypeOK
  PROVE  /\ Len(store) \in Nat /\ Len(messages) \in Nat
         /\ \A k \in 1..Len(messages) :
              /\ messages[k] \in [id : 1..Len(store), pinned : BOOLEAN]
              /\ messages[k].id \in 1..Len(store)
         /\ \A i \in 1..Len(store) : store[i] \in Message /\ store[i].conversationId \in Conversations
         /\ \A n \in 1..Len(loads) :
              loads[n] \in Fetches /\ loads[n].conversationId \in Conversations /\ loads[n].read \in BOOLEAN
<1>1. /\ store \in Seq(Message) /\ messages \in Seq([id : 1..Len(store), pinned : BOOLEAN])
      /\ loads \in Seq(Fetches)
  BY DEF TypeOK
<1>2. \A m \in Message : m.conversationId \in Conversations  BY DEF Message
<1>3. \A f \in Fetches : f.conversationId \in Conversations /\ f.read \in BOOLEAN  BY DEF Fetches
<1>4. ASSUME NEW P PROVE \A m \in [id : P, pinned : BOOLEAN] : m.id \in P
  OBVIOUS
<1>5. \A m \in [id : 1..Len(store), pinned : BOOLEAN] : m.id \in 1..Len(store)  BY <1>4
<1>6. \A k \in 1..Len(messages) : messages[k] \in [id : 1..Len(store), pinned : BOOLEAN]
  <2> DEFINE T == [id : 1..Len(store), pinned : BOOLEAN]
  <2>1. messages \in Seq(T)  BY <1>1
  <2> HIDE DEF T
  <2>2. \A k \in 1..Len(messages) : messages[k] \in T  BY <2>1
  <2>3. QED  BY <2>2 DEF T
<1>7. \A n \in 1..Len(loads) : loads[n] \in Fetches  BY <1>1
<1>8. \A i \in 1..Len(store) : store[i] \in Message  BY <1>1
<1>9. Len(store) \in Nat /\ Len(messages) \in Nat  BY <1>1
<1>10. QED  BY <1>2, <1>3, <1>5, <1>6, <1>7, <1>8, <1>9

LEMMA BoundsAreNumbers ==
  /\ MaxSends \in Nat /\ MaxLoads \in Nat /\ MaxFaults \in Nat /\ Refreshes \in Nat \ {0}
  /\ Earlier \in Seq(Message) /\ Len(Earlier) \in Nat
  BY ChatConstants

LEMMA RunningIsFinite ==
  ASSUME TypeOK PROVE IsFiniteSet(running) /\ Cardinality(running) \in Nat
<1>1. running \in SUBSET (1..Len(store)) /\ Len(store) \in Nat  BY DEF TypeOK, Asking
<1>2. IsFiniteSet(1..Len(store))  BY <1>1, FS_Interval
<1>3. IsFiniteSet(running)  BY <1>1, <1>2, FS_Subset
<1>4. QED  BY <1>3, FS_CardinalityType

LEMMA PinsComeNow ==
  ASSUME \A k \in 1..Len(messages') : \A i :
           /\ i = messages'[k].id /\ store'[i].conversationId = selected'
           /\ faults' = MaxFaults /\ ~strayed' /\ ~overtaken'
           => (messages'[k].pinned = (i \in pins')) \/ PinComes(i)'
  PROVE  PinsCome'
BY Zenon DEF PinsCome

\* The pins that are shown and the conversation they belong to stay.
LEMMA PinsStay ==
  ASSUME ChatInv, messages' = messages, selected' = selected,
         \A i \in 1..Len(store) : store'[i] = store[i],
         faults' = MaxFaults /\ ~strayed' /\ ~overtaken' =>
           /\ faults = MaxFaults /\ ~strayed /\ ~overtaken
           /\ \A i \in 1..Len(store) :
                store[i].conversationId = selected =>
                  /\ PinComes(i) => PinComes(i)'
                  /\ ((i \in pins') = (i \in pins)) \/ PinComes(i)'
  PROVE  PinsCome'
<1> SUFFICES ASSUME faults' = MaxFaults, ~strayed', ~overtaken',
                    NEW k \in 1..Len(messages'), store'[messages'[k].id].conversationId = selected'
             PROVE  (messages'[k].pinned = (messages'[k].id \in pins')) \/ PinComes(messages[k].id)'
  BY Zenon DEF PinsCome
<1> DEFINE i == messages[k].id
<1>1. k \in 1..Len(messages) /\ i \in 1..Len(store) /\ messages'[k] = messages[k]
      /\ store[i].conversationId = selected
  <2>1. k \in 1..Len(messages) /\ messages'[k] = messages[k]  OBVIOUS
  <2>2. i \in 1..Len(store)  BY <2>1, WhatIsShown DEF ChatInv
  <2>3. store'[i] = store[i]  BY <2>2
  <2>4. QED  BY <2>1, <2>2, <2>3
<1>2. (messages[k].pinned = (i \in pins)) \/ PinComes(i)
  BY <1>1 DEF ChatInv, PinsCome
<1>3. /\ PinComes(i) => PinComes(i)'
      /\ ((i \in pins') = (i \in pins)) \/ PinComes(i)'
  BY <1>1
<1>4. QED  BY <1>1, <1>2, <1>3, Zenon

\* Steps that change neither what is stored nor the thread.
LEMMA ThreadStays ==
  ASSUME ChatInv,
         UNCHANGED <<store, pins, running, selected, messages, history>>,
         unpublished' \subseteq unpublished,
         live' \in Lives,
         live' # None => live'.of \in 1..Len(store)
                         /\ (~strayed => store[live'.of].conversationId = selected),
         loads' \in Seq(Fetches), Len(loads') <= MaxLoads,
         \A n \in 1..Len(loads') :
           /\ loads'[n].seen \subseteq OfConversation(loads'[n].conversationId)
           /\ ~loads'[n].read => loads'[n].seen = {},
         timers' \in {None} \cup [conversationId : Conversations, left : 1..Refreshes],
         timers' # None => strayed \/ timers'.conversationId = selected,
         stream' \in [open : BOOLEAN, heard : Seq(Lives \ {None})],
         \A k \in 1..Len(stream'.heard) : stream'.heard[k].of \in 1..Len(store),
         \/ sending' = sending \/ sending' = None
         \/ /\ sending' \in [conversationId : Conversations, stored : {None}]
            /\ Len(store) + Cardinality(running) < Len(Earlier) + 2 * MaxSends,
         \/ pinning' = pinning \/ pinning' = None
         \/ /\ pinning' \in [id : 1..Len(store), pin : BOOLEAN, stored : {FALSE}]
            /\ pinning = None,
         faults' \in 0..MaxFaults, faults' <= faults,
         Refreshed => Refreshed',
         faults' = MaxFaults /\ ~strayed => \A i \in 1..Len(store) :
           store[i].conversationId = selected /\ PinComes(i) => PinComes(i)'
  PROVE  ChatInv'
<1> USE DEF ChatInv
<1>1. /\ store' = store /\ pins' = pins /\ running' = running /\ selected' = selected
      /\ messages' = messages /\ settled' = settled /\ strayed' = strayed /\ overtaken' = overtaken
  BY DEF history
<1>2. /\ Len(store) \in Nat /\ MaxSends \in Nat /\ Len(Earlier) \in Nat
      /\ Len(store) <= Len(Earlier) + 2 * MaxSends /\ 1..Len(store) \subseteq Positions
      /\ faults \in 0..MaxFaults /\ MaxFaults \in Nat
  BY BoundsAreNumbers, SMTT(60) DEF TypeOK, Positions, WindowKnows
<1>3. TypeOK'
  <2>1. sending' \in {None} \cup [conversationId : Conversations, stored : {None} \cup Positions]
    BY DEF TypeOK
  <2>2. pinning' \in {None} \cup [id : Positions, pin : BOOLEAN, stored : BOOLEAN]
    BY <1>2 DEF TypeOK
  <2>3. unpublished' \subseteq (1..Len(store)) \ Asking /\ Asking' = Asking
    BY <1>1 DEF TypeOK, Asking
  <2>4. QED  BY <1>1, <2>1, <2>2, <2>3 DEF TypeOK
<1>4. SendsAreBounded'
  <2>1. PICK k \in 0..MaxSends : /\ Len(store) + Cardinality(running) = Len(Earlier) + 2 * k
                                 /\ sending # None /\ sending.stored = None => k < MaxSends
    BY DEF SendsAreBounded
  <2>2. Cardinality(running) \in Nat  BY RunningIsFinite
  <2>3. sending' # None /\ sending'.stored = None => k < MaxSends
    <3>1. CASE sending' = sending \/ sending' = None  BY <2>1, <3>1
    <3>2. CASE Len(store) + Cardinality(running) < Len(Earlier) + 2 * MaxSends
      BY <1>2, <2>1, <2>2, <3>2
    <3>3. QED  BY <3>1, <3>2
  <2>4. QED  BY <1>1, <2>1, <2>3 DEF SendsAreBounded
<1>5. WindowKnows'
  <2>1. /\ live' # None => live'.of \in 1..Len(store')
        /\ \A k \in 1..Len(stream'.heard) : stream'.heard[k].of \in 1..Len(store')
        /\ \A n \in 1..Len(loads') :
             /\ loads'[n].seen \subseteq OfConversation(loads'[n].conversationId)
             /\ ~loads'[n].read => loads'[n].seen = {}
    BY <1>1
  <2>2. sending' # None /\ sending'.stored # None =>
          sending'.stored \in OfConversation(sending'.conversationId)
    BY DEF WindowKnows
  <2>3. /\ pinning' # None => pinning'.id \in 1..Len(store)
        /\ pinning' # None /\ pinning'.stored => (pinning'.pin <=> pinning'.id \in pins)
    BY DEF WindowKnows
  <2>4. QED  BY <1>1, <2>1, <2>2, <2>3 DEF WindowKnows, OfConversation
<1>6. ThreadBelongs'  BY <1>1 DEF ThreadBelongs
<1>7. RefreshesFollowSelection'  BY <1>1 DEF RefreshesFollowSelection
<1>8. (Distinct(messages) \/ Refreshed)'  BY <1>1 DEF Distinct
<1>9. PinsCome'
  <2>1. ASSUME faults' = MaxFaults, ~strayed
        PROVE  /\ faults = MaxFaults
               /\ \A i \in 1..Len(store) : store[i].conversationId = selected /\ PinComes(i) => PinComes(i)'
    BY <1>2, <2>1
  <2>2. \A i \in 1..Len(store) : store'[i] = store[i] /\ ((i \in pins') = (i \in pins))
    BY <1>1
  <2>3. QED  BY <1>1, <2>1, <2>2, PinsStay
<1>10. QED  BY <1>3, <1>4, <1>5, <1>6, <1>7, <1>8, <1>9

\* A message is added to the store.
LEMMA StoreGrows ==
  ASSUME ChatInv, NEW m \in Message, store' = Append(store, m),
         UNCHANGED <<pins, selected, messages, live, loads, timers, stream, pinning, history, faults>>
  PROVE  /\ Len(store') = Len(store) + 1 /\ store' \in Seq(Message) /\ store'[Len(store) + 1] = m
         /\ \A i \in 1..Len(store) : store'[i] = store[i] /\ i \in 1..Len(store')
         /\ Len(store) + 1 \in 1..Len(store')
         /\ Asking \subseteq Asking' /\ Asking' \subseteq Asking \cup {Len(store) + 1}
         /\ Len(store) + 1 \in Asking' <=> m.role = "user"
         /\ ThreadBelongs' /\ RefreshesFollowSelection' /\ (Distinct(messages) \/ Refreshed)'
         /\ PinsCome'
<1> USE DEF ChatInv
<1>0. /\ pins' = pins /\ selected' = selected /\ messages' = messages /\ live' = live
      /\ loads' = loads /\ timers' = timers /\ pinning' = pinning /\ settled' = settled
      /\ strayed' = strayed /\ overtaken' = overtaken /\ faults' = faults
  BY DEF history
<1>1. store \in Seq(Message) /\ Len(store) \in Nat  BY DEF TypeOK
<1>2. /\ Len(store') = Len(store) + 1 /\ store' \in Seq(Message) /\ store'[Len(store) + 1] = m
      /\ \A i \in 1..Len(store) : store'[i] = store[i]
  BY <1>1
<1>3. 1..Len(store') = 1..Len(store) \cup {Len(store) + 1}  BY <1>1, <1>2
<1>4. /\ \A i \in 1..Len(store) : store'[i] = store[i] /\ i \in 1..Len(store')
      /\ Len(store) + 1 \in 1..Len(store')
  BY <1>2, <1>3
<1>5. /\ Asking \subseteq Asking' /\ Asking' \subseteq Asking \cup {Len(store) + 1}
      /\ Len(store) + 1 \in Asking' <=> m.role = "user"
  <2>1. Asking' = {i \in 1..Len(store') : store'[i].role = "user"}  BY DEF Asking
  <2>2. QED  BY <1>2, <1>3, <2>1 DEF Asking
<1>6. ThreadBelongs'
  <2>1. \A k \in 1..Len(messages) : messages[k].id \in 1..Len(store)  BY WhatIsShown
  <2>2. live # None => live.of \in 1..Len(store)  BY DEF WindowKnows
  <2>3. QED  BY <1>0, <1>2, <2>1, <2>2 DEF ThreadBelongs
<1>7. RefreshesFollowSelection'  BY <1>0 DEF RefreshesFollowSelection
<1>8. (Distinct(messages) \/ Refreshed)'  BY <1>0 DEF Distinct, Refreshed
<1>9. PinsCome'
  <2>1. \A i \in 1..Len(store) : PinComes(i) => PinComes(i)'  BY <1>0 DEF PinComes
  <2>2. \A i \in 1..Len(store) : (i \in pins') = (i \in pins)  BY <1>0
  <2>3. QED  BY <1>0, <1>2, <2>1, <2>2, PinsStay
<1>10. QED  BY <1>2, <1>4, <1>5, <1>6, <1>7, <1>8, <1>9

\* What the window knows of the store is still there when the store has grown.
LEMMA GrownStore ==
  ASSUME ChatInv, NEW m \in Message, store' = Append(store, m),
         UNCHANGED <<pins, selected, messages, live, loads, timers, stream, pinning, history, faults>>,
         SendsAreBounded', IsFiniteSet(running'),
         running' \subseteq Asking', unpublished' \subseteq (1..Len(store')) \ Asking',
         sending' = sending \/ sending' \in [conversationId : Conversations, stored : 1..Len(store')],
         sending' = sending \/ store'[sending'.stored].conversationId = sending'.conversationId
  PROVE  ChatInv'
<1> USE DEF ChatInv
<1>0. /\ pins' = pins /\ selected' = selected /\ messages' = messages /\ live' = live
      /\ loads' = loads /\ timers' = timers /\ pinning' = pinning /\ settled' = settled
      /\ strayed' = strayed /\ overtaken' = overtaken /\ faults' = faults /\ stream' = stream
  BY DEF history
<1>1. /\ Len(store') = Len(store) + 1 /\ store' \in Seq(Message) /\ store'[Len(store) + 1] = m
      /\ \A i \in 1..Len(store) : store'[i] = store[i] /\ i \in 1..Len(store')
      /\ Len(store) + 1 \in 1..Len(store')
      /\ ThreadBelongs' /\ RefreshesFollowSelection' /\ (Distinct(messages) \/ Refreshed)'
      /\ PinsCome'
  BY StoreGrows
<1>2. Len(store') <= Len(Earlier) + 2 * MaxSends
  <2>1. PICK k \in 0..MaxSends : Len(store') + Cardinality(running') = Len(Earlier) + 2 * k
    BY DEF SendsAreBounded
  <2>2. Cardinality(running') \in Nat  BY FS_CardinalityType
  <2>3. MaxSends \in Nat /\ Len(Earlier) \in Nat /\ Len(store') \in Nat  BY <1>1,
                                                                            BoundsAreNumbers
  <2>4. QED  BY <2>1, <2>2, <2>3
<1>3. 1..Len(store') \subseteq Positions
  <2>1. Len(store') \in Nat /\ MaxSends \in Nat /\ Len(Earlier) \in Nat  BY <1>1,
                                                                            BoundsAreNumbers
  <2>2. QED  BY <1>2, <2>1 DEF Positions
<1>4. messages' \in Seq([id : 1..Len(store'), pinned : BOOLEAN])
  <2>1. messages \in Seq([id : 1..Len(store), pinned : BOOLEAN])  BY DEF TypeOK
  <2>2. 1..Len(store) \subseteq 1..Len(store')  BY <1>1
  <2>3. ASSUME NEW P, NEW Q, P \subseteq Q
        PROVE  [id : P, pinned : BOOLEAN] \subseteq [id : Q, pinned : BOOLEAN]
    BY <2>3
  <2>4. [id : 1..Len(store), pinned : BOOLEAN] \subseteq [id : 1..Len(store'), pinned : BOOLEAN]
    BY <2>2, <2>3
  <2>5. ASSUME NEW S, NEW T, S \subseteq T, NEW s \in Seq(S) PROVE s \in Seq(T)
    BY <2>5
  <2> DEFINE T == [id : 1..Len(store), pinned : BOOLEAN]
             U == [id : 1..Len(store'), pinned : BOOLEAN]
  <2>6. messages \in Seq(T) /\ T \subseteq U  BY <2>1, <2>4
  <2> HIDE DEF T, U
  <2>7. messages \in Seq(U)  BY <2>5, <2>6
  <2>8. QED  BY <1>0, <2>7 DEF U
<1>5. sending' \in {None} \cup [conversationId : Conversations, stored : {None} \cup Positions]
  BY <1>3 DEF TypeOK
<1>6. TypeOK'
  <2>1. pins' \subseteq 1..Len(store')  BY <1>0, <1>1 DEF TypeOK
  <2>2. QED  BY <1>0, <1>1, <1>2, <1>4, <1>5, <2>1 DEF TypeOK
<1>7. WindowKnows'
  <2>1. /\ live' # None => live'.of \in 1..Len(store')
        /\ \A k \in 1..Len(stream'.heard) : stream'.heard[k].of \in 1..Len(store')
        /\ pinning' # None => pinning'.id \in 1..Len(store')
        /\ pinning' # None /\ pinning'.stored => (pinning'.pin <=> pinning'.id \in pins')
        /\ faults' \in 0..MaxFaults
    BY <1>0, <1>1 DEF WindowKnows
  <2>2. ASSUME NEW n \in 1..Len(loads')
        PROVE  /\ loads'[n].seen \subseteq {i \in 1..Len(store') : store'[i].conversationId = loads'[n].conversationId}
               /\ ~loads'[n].read => loads'[n].seen = {}
    <3>1. n \in 1..Len(loads) /\ loads'[n] = loads[n]  BY <1>0
    <3>2. /\ loads[n].seen \subseteq {i \in 1..Len(store) : store[i].conversationId = loads[n].conversationId}
          /\ ~loads[n].read => loads[n].seen = {}
      BY <3>1 DEF WindowKnows, OfConversation
    <3>3. QED  BY <1>1, <3>1, <3>2
  <2>3. sending' # None /\ sending'.stored # None =>
          sending'.stored \in {i \in 1..Len(store') : store'[i].conversationId = sending'.conversationId}
    <3>1. CASE sending' = sending
      <4>1. sending # None /\ sending.stored # None =>
              sending.stored \in 1..Len(store) /\ store[sending.stored].conversationId = sending.conversationId
        BY DEF WindowKnows, OfConversation
      <4>2. QED  BY <1>1, <3>1, <4>1
    <3>2. CASE sending' # sending  BY <3>2
    <3>3. QED  BY <3>1, <3>2
  <2>4. QED  BY <2>1, <2>2, <2>3 DEF WindowKnows, OfConversation
<1>8. QED  BY <1>1, <1>6, <1>7

LEMMA StoreMessageStep == ASSUME ChatInv, StoreMessage PROVE ChatInv'
<1> USE DEF ChatInv
<1> DEFINE m == [conversationId |-> sending.conversationId, role |-> "user"]
           u == Len(store) + 1
<1>1. /\ sending # None /\ sending.stored = None /\ store' = Append(store, m)
      /\ sending' = [sending EXCEPT !.stored = u] /\ running' = running \cup {u}
      /\ unpublished' = unpublished
      /\ UNCHANGED <<pins, selected, messages, live, loads, timers, stream, pinning, history, faults>>
  BY DEF StoreMessage, bounds
<1>2. /\ sending \in [conversationId : Conversations, stored : {None} \cup Positions]
      /\ sending.conversationId \in Conversations
  BY <1>1 DEF TypeOK
<1>3. m \in Message /\ m.role = "user" /\ m.conversationId = sending.conversationId
  BY <1>2 DEF Message
<1> HIDE DEF m
<1>4. /\ Len(store') = u /\ u \in 1..Len(store') /\ store'[u] = m
      /\ Asking \subseteq Asking' /\ Asking' \subseteq Asking \cup {u} /\ u \in Asking'
      /\ \A i \in 1..Len(store) : i \in 1..Len(store')
  BY <1>1, <1>3, StoreGrows
<1>5. u \notin running /\ u \notin unpublished /\ Len(store) \in Nat
  <2>1. Len(store) \in Nat  BY DEF TypeOK
  <2>2. u \notin 1..Len(store)  BY <2>1
  <2>3. QED  BY <2>1, <2>2 DEF TypeOK, Asking
<1>6. IsFiniteSet(running') /\ Cardinality(running') = Cardinality(running) + 1
  BY <1>1, <1>5, RunningIsFinite, FS_AddElement
<1>7. u # None
  <2>1. PICK k \in 0..MaxSends : /\ Len(store) + Cardinality(running) = Len(Earlier) + 2 * k
                                 /\ k < MaxSends
    BY <1>1 DEF SendsAreBounded
  <2>2. Cardinality(running) \in Nat /\ MaxSends \in Nat /\ Len(Earlier) \in Nat
    BY RunningIsFinite, BoundsAreNumbers
  <2>3. u \in Positions  BY <1>5, <2>1, <2>2 DEF Positions
  <2>4. QED  BY <2>3, ChatConstants
<1>8. SendsAreBounded'
  <2>1. PICK k \in 0..MaxSends : /\ Len(store) + Cardinality(running) = Len(Earlier) + 2 * k
                                 /\ k < MaxSends
    BY <1>1 DEF SendsAreBounded
  <2>2. Cardinality(running) \in Nat /\ MaxSends \in Nat /\ Len(Earlier) \in Nat
    BY RunningIsFinite, BoundsAreNumbers
  <2>3. k + 1 \in 0..MaxSends /\ Len(store') + Cardinality(running') = Len(Earlier) + 2 * (k + 1)
    BY <1>4, <1>5, <1>6, <2>1, <2>2
  <2>4. sending'.stored # None  BY <1>1, <1>2, <1>7
  <2>5. QED  BY <2>3, <2>4 DEF SendsAreBounded
<1>9. running' \subseteq Asking' /\ unpublished' \subseteq (1..Len(store')) \ Asking'
  BY <1>1, <1>4, <1>5 DEF TypeOK
<1>10. /\ sending' \in [conversationId : Conversations, stored : 1..Len(store')]
       /\ store'[sending'.stored].conversationId = sending'.conversationId
  <2>1. sending' \in [conversationId : Conversations, stored : {u}] /\ sending'.stored = u
        /\ sending'.conversationId = sending.conversationId
    BY <1>1, <1>2
  <2>2. store'[sending'.stored].conversationId = sending'.conversationId  BY <1>3, <1>4, <2>1
  <2>3. [conversationId : Conversations, stored : {u}] \subseteq [conversationId : Conversations, stored : 1..Len(store')]
    BY <1>4
  <2>4. QED  BY <2>1, <2>2, <2>3
<1>11. QED  BY <1>1, <1>3, <1>6, <1>8, <1>9, <1>10, GrownStore

LEMMA StoreReplyStep == ASSUME ChatInv, NEW u \in running, StoreReply(u) PROVE ChatInv'
<1> USE DEF ChatInv
<1> DEFINE m == [conversationId |-> store[u].conversationId, role |-> "assistant"]
           r == Len(store) + 1
<1>1. /\ store' = Append(store, m) /\ running' = running \ {u}
      /\ unpublished' = unpublished \cup {r} /\ sending' = sending
      /\ UNCHANGED <<pins, selected, messages, live, loads, timers, stream, pinning, history, faults>>
  BY DEF StoreReply, bounds
<1>2. u \in 1..Len(store) /\ store[u].conversationId \in Conversations
  BY WhatIsShown DEF TypeOK, Asking
<1>3. m \in Message /\ m.role = "assistant"  BY <1>2 DEF Message
<1> HIDE DEF m
<1>4. /\ Len(store') = r /\ r \in 1..Len(store')
      /\ Asking \subseteq Asking' /\ Asking' \subseteq Asking \cup {r} /\ r \notin Asking'
      /\ \A i \in 1..Len(store) : i \in 1..Len(store')
  BY <1>1, <1>3, StoreGrows
<1>5. IsFiniteSet(running') /\ Cardinality(running') = Cardinality(running) - 1
  BY <1>1, RunningIsFinite, FS_RemoveElement
<1>6. SendsAreBounded'
  <2>1. PICK k \in 0..MaxSends : /\ Len(store) + Cardinality(running) = Len(Earlier) + 2 * k
                                 /\ sending # None /\ sending.stored = None => k < MaxSends
    BY DEF SendsAreBounded
  <2>2. Cardinality(running) \in Nat /\ Len(store) \in Nat  BY RunningIsFinite DEF TypeOK
  <2>3. Len(store') + Cardinality(running') = Len(store) + Cardinality(running)
    BY <1>4, <1>5, <2>2
  <2>4. QED  BY <1>1, <2>1, <2>3 DEF SendsAreBounded
<1>7. running' \subseteq Asking' /\ unpublished' \subseteq (1..Len(store')) \ Asking'
  <2>1. running \subseteq Asking /\ unpublished \subseteq (1..Len(store)) \ Asking  BY DEF TypeOK
  <2>2. Asking' = Asking  BY <1>4
  <2>3. QED  BY <1>1, <1>4, <2>1, <2>2
<1>8. QED  BY <1>1, <1>3, <1>5, <1>6, <1>7, GrownStore

LEMMA PinStoredStep == ASSUME ChatInv, PinStored PROVE ChatInv'
<1> USE DEF ChatInv
<1>1. /\ pinning # None /\ ~pinning.stored
      /\ pins' = IF pinning.pin THEN pins \cup {pinning.id} ELSE pins \ {pinning.id}
      /\ pinning' = [pinning EXCEPT !.stored = TRUE]
      /\ store' = store /\ running' = running /\ unpublished' = unpublished
      /\ selected' = selected /\ messages' = messages /\ live' = live /\ loads' = loads
      /\ timers' = timers /\ stream' = stream /\ sending' = sending /\ settled' = settled
      /\ strayed' = strayed /\ overtaken' = overtaken /\ faults' = faults
  BY DEF PinStored, history, bounds
<1>2. /\ pinning \in [id : Positions, pin : BOOLEAN, stored : BOOLEAN]
      /\ pinning.id \in 1..Len(store)
  BY <1>1 DEF TypeOK, WindowKnows
<1>3. /\ pinning' \in [id : Positions, pin : BOOLEAN, stored : BOOLEAN]
      /\ pinning'.id = pinning.id /\ pinning'.pin = pinning.pin
  BY <1>1, <1>2
<1>4. pins' \subseteq 1..Len(store)  BY <1>1, <1>2 DEF TypeOK
<1>5. TypeOK'  BY <1>1, <1>3, <1>4 DEF TypeOK, Asking
<1>6. SendsAreBounded'  BY <1>1 DEF SendsAreBounded
<1>7. WindowKnows'
  <2>1. pinning'.pin <=> pinning'.id \in pins'  BY <1>1, <1>3
  <2>2. QED  BY <1>1, <1>2, <1>3, <2>1 DEF WindowKnows, OfConversation
<1>8. ThreadBelongs' /\ RefreshesFollowSelection'
  BY <1>1 DEF ThreadBelongs, RefreshesFollowSelection
<1>9. (Distinct(messages) \/ Refreshed)'  BY <1>1 DEF Distinct, Refreshed
<1>10. PinsCome'
  <2>1. pinning' # None  BY <1>3, ChatConstants
  <2>2. \A i \in 1..Len(store) : /\ PinComes(i) => PinComes(i)'
                                 /\ ((i \in pins') = (i \in pins)) \/ PinComes(i)'
    <3> SUFFICES ASSUME NEW i \in 1..Len(store)
                 PROVE  /\ PinComes(i) => PinComes(i)'
                        /\ ((i \in pins') = (i \in pins)) \/ PinComes(i)'
      OBVIOUS
    <3>1. PinComes(i) => PinComes(i)'  BY <1>1, <1>3, <2>1 DEF PinComes
    <3>2. CASE i = pinning.id  BY <1>3, <2>1, <3>1, <3>2 DEF PinComes
    <3>3. CASE i # pinning.id  BY <1>1, <3>1, <3>3
    <3>4. QED  BY <3>2, <3>3
  <2>3. QED  BY <1>1, <2>2, PinsStay
<1>11. QED  BY <1>5, <1>6, <1>7, <1>8, <1>9, <1>10

LEMMA ReadMessagesStep == ASSUME ChatInv, ReadMessages PROVE ChatInv'
<1> USE DEF ChatInv
<1>1. PICK n \in 1..Len(loads) :
        /\ ~loads[n].read
        /\ loads' = [loads EXCEPT ![n].read = TRUE,
                                  ![n].seen = OfConversation(loads[n].conversationId),
                                  ![n].pinned = pins \cap OfConversation(loads[n].conversationId)]
        /\ UNCHANGED <<server, selected, messages, live, timers, stream, sending, pinning, history, bounds>>
  BY DEF ReadMessages
<1> DEFINE f == loads[n]
           seen == OfConversation(f.conversationId)
           g == [f EXCEPT !.read = TRUE, !.seen = seen, !.pinned = pins \cap seen]
<1>2. /\ loads \in Seq(Fetches) /\ f \in Fetches /\ f.conversationId \in Conversations
      /\ Len(loads) <= MaxLoads
  BY WhatIsShown DEF TypeOK
<1>3. seen \subseteq 1..Len(store) /\ 1..Len(store) \subseteq Positions
  <2>1. Len(store) \in Nat /\ Len(store) <= Len(Earlier) + 2 * MaxSends  BY DEF TypeOK
  <2>2. MaxSends \in Nat /\ Len(Earlier) \in Nat  BY BoundsAreNumbers
  <2>3. 1..Len(store) \subseteq Positions  BY <2>1, <2>2 DEF Positions
  <2>4. QED  BY <2>3 DEF OfConversation
<1> HIDE DEF seen
<1>4. /\ g \in Fetches /\ g.conversationId = f.conversationId /\ g.read = TRUE /\ g.seen = seen
  BY <1>2, <1>3 DEF Fetches
<1>5. loads' = [loads EXCEPT ![n] = g]
  BY <1>1, <1>2 DEF seen
<1> HIDE DEF g
<1>7. /\ loads' \in Seq(Fetches) /\ Len(loads') = Len(loads) /\ loads'[n] = g
      /\ \A k \in 1..Len(loads) : k # n => loads'[k] = loads[k]
  BY <1>2, <1>4, <1>5
<1>8. ASSUME NEW k \in 1..Len(loads')
      PROVE  /\ loads'[k].seen \subseteq OfConversation(loads'[k].conversationId)
             /\ ~loads'[k].read => loads'[k].seen = {}
  <2>1. CASE k = n  BY <1>4, <1>7, <2>1 DEF seen
  <2>2. CASE k # n  BY <1>7, <2>2 DEF WindowKnows
  <2>3. QED  BY <2>1, <2>2
<1>9. Refreshed => Refreshed'
  BY <1>1, <1>7 DEF Refreshed, bounds
<1>10. ASSUME NEW i \in 1..Len(store), store[i].conversationId = selected, PinComes(i)
       PROVE  PinComes(i)'
  <2>1. pinning' = pinning /\ timers' = timers /\ selected' = selected  BY <1>1
  <2>2. CASE (pinning # None /\ pinning.id = i) \/ timers # None
    BY <2>1, <2>2 DEF PinComes
  <2>3. CASE \E k \in 1..Len(loads) : /\ loads[k].conversationId = selected
                                      /\ loads[k].read => i \in loads[k].seen
    <3>1. PICK k \in 1..Len(loads) : /\ loads[k].conversationId = selected
                                     /\ loads[k].read => i \in loads[k].seen
      BY <2>3
    <3>2. CASE k = n
      <4>1. i \in seen  BY <1>10, <3>1, <3>2 DEF seen, OfConversation
      <4>2. loads'[k].conversationId = selected' /\ i \in loads'[k].seen /\ k \in 1..Len(loads')
        BY <1>4, <1>7, <2>1, <3>1, <3>2, <4>1
      <4>3. QED  BY <4>2 DEF PinComes
    <3>3. CASE k # n
      <4>1. loads'[k] = loads[k] /\ k \in 1..Len(loads')  BY <1>7, <3>3
      <4>2. QED  BY <2>1, <3>1, <4>1 DEF PinComes
    <3>4. QED  BY <3>2, <3>3
  <2>4. QED  BY <1>10, <2>2, <2>3 DEF PinComes
<1>11. /\ UNCHANGED <<store, pins, running, selected, messages, history>>
       /\ unpublished' = unpublished /\ live' = live /\ timers' = timers /\ stream' = stream
       /\ sending' = sending /\ pinning' = pinning /\ faults' = faults
  BY <1>1 DEF server, bounds
<1>12. /\ live' \in Lives
       /\ live' # None => live'.of \in 1..Len(store) /\ (~strayed => store[live'.of].conversationId = selected)
       /\ timers' \in {None} \cup [conversationId : Conversations, left : 1..Refreshes]
       /\ timers' # None => strayed \/ timers'.conversationId = selected
       /\ stream' \in [open : BOOLEAN, heard : Seq(Lives \ {None})]
       /\ \A k \in 1..Len(stream'.heard) : stream'.heard[k].of \in 1..Len(store)
       /\ faults' \in 0..MaxFaults /\ faults' <= faults
  BY <1>11 DEF TypeOK, WindowKnows, ThreadBelongs, RefreshesFollowSelection
<1>13. Len(loads') <= MaxLoads  BY <1>2, <1>7
<1>14. unpublished' \subseteq unpublished  BY <1>11
<1>15. QED  BY <1>7, <1>8, <1>9, <1>10, <1>11, <1>12, <1>13, <1>14, ThreadStays

\* What stays in a step that concerns fetches or planned refreshes only, or none of them.
LEMMA WindowNow ==
  ASSUME ChatInv
  PROVE  /\ live \in Lives
         /\ live # None => live.of \in 1..Len(store) /\ (~strayed => store[live.of].conversationId = selected)
         /\ loads \in Seq(Fetches) /\ Len(loads) \in Nat /\ Len(loads) <= MaxLoads
         /\ \A n \in 1..Len(loads) : /\ loads[n].seen \subseteq OfConversation(loads[n].conversationId)
                                     /\ ~loads[n].read => loads[n].seen = {}
         /\ timers \in {None} \cup [conversationId : Conversations, left : 1..Refreshes]
         /\ timers # None => strayed \/ timers.conversationId = selected
         /\ stream \in [open : BOOLEAN, heard : Seq(Lives \ {None})]
         /\ \A k \in 1..Len(stream.heard) : stream.heard[k].of \in 1..Len(store)
         /\ faults \in 0..MaxFaults /\ faults <= faults /\ MaxFaults \in Nat
         /\ selected \in Conversations
<1>1. loads \in Seq(Fetches) /\ Len(loads) <= MaxLoads  BY DEF ChatInv, TypeOK
<1>2. Len(loads) \in Nat /\ faults \in 0..MaxFaults /\ MaxFaults \in Nat
  BY <1>1, BoundsAreNumbers DEF ChatInv, WindowKnows
<1>3. QED
  BY <1>1, <1>2 DEF ChatInv, TypeOK, WindowKnows, ThreadBelongs, RefreshesFollowSelection

LEMMA AskedFacts ==
  ASSUME NEW c \in Conversations
  PROVE  /\ Asked(c) \in Fetches /\ Asked(c).conversationId = c /\ Asked(c).read = FALSE
         /\ Asked(c).seen = {}
         /\ Schedule(c) \in [conversationId : Conversations, left : 1..Refreshes]
         /\ Schedule(c).conversationId = c /\ Schedule(c) # None
<1>1. Asked(c) \in Fetches  BY DEF Asked, Fetches
<1>2. Refreshes \in 1..Refreshes  BY BoundsAreNumbers
<1>3. Schedule(c) \in [conversationId : Conversations,
                                                                                left : 1..Refreshes]  BY <1>2 DEF Schedule
<1>4. Schedule(c) # None  BY <1>3, ChatConstants
<1>5. QED  BY <1>1, <1>3, <1>4 DEF Asked, Schedule

\* One more fetch.
LEMMA FetchAdded ==
  ASSUME ChatInv, NEW c \in Conversations, Len(loads) + 1 <= MaxLoads, loads' = Append(loads, Asked(c))
  PROVE  /\ loads' \in Seq(Fetches) /\ Len(loads') <= MaxLoads /\ Len(loads') > 0
         /\ \A n \in 1..Len(loads) : loads'[n] = loads[n] /\ n \in 1..Len(loads')
         /\ Len(loads) + 1 \in 1..Len(loads') /\ loads'[Len(loads) + 1] = Asked(c)
         /\ \A n \in 1..Len(loads') :
              /\ loads'[n].seen \subseteq OfConversation(loads'[n].conversationId)
              /\ ~loads'[n].read => loads'[n].seen = {}
<1>1. loads \in Seq(Fetches) /\ Asked(c) \in Fetches  BY WindowNow, AskedFacts
<1>2. /\ loads' \in Seq(Fetches) /\ Len(loads') = Len(loads) + 1 /\ Len(loads) \in Nat
      /\ loads'[Len(loads) + 1] = Asked(c)
      /\ \A n \in 1..Len(loads) : loads'[n] = loads[n]
      /\ \A n \in 1..Len(loads') : n \in 1..Len(loads) \/ n = Len(loads) + 1
  BY <1>1, OneMore
<1>3. /\ Len(loads') <= MaxLoads /\ Len(loads') > 0 /\ Len(loads) + 1 \in 1..Len(loads')
      /\ \A n \in 1..Len(loads) : n \in 1..Len(loads')
  BY <1>2
<1>4. ASSUME NEW n \in 1..Len(loads')
      PROVE  /\ loads'[n].seen \subseteq OfConversation(loads'[n].conversationId)
             /\ ~loads'[n].read => loads'[n].seen = {}
  <2>1. CASE n \in 1..Len(loads)  BY <1>2, <2>1, WindowNow
  <2>2. CASE n = Len(loads) + 1  BY <1>2, <2>2, AskedFacts
  <2>3. QED  BY <1>2, <2>1, <2>2
<1>5. QED  BY <1>2, <1>3, <1>4

LEMMA RefreshDueStep == ASSUME ChatInv, RefreshDue PROVE ChatInv'
<1> DEFINE c == timers.conversationId
           last == Len(loads) + 1
<1>1. /\ timers # None /\ Len(loads) + 1 <= MaxLoads /\ loads' = Append(loads, Asked(c))
      /\ timers' = IF timers.left = 1 THEN None ELSE [timers EXCEPT !.left = @ - 1]
      /\ UNCHANGED <<store, pins, running, selected, messages, history>>
      /\ unpublished' = unpublished /\ live' = live /\ stream' = stream
      /\ sending' = sending /\ pinning' = pinning /\ faults' = faults /\ selected' = selected
  BY DEF RefreshDue, HasRoom, server, bounds
<1>2. /\ timers \in [conversationId : Conversations, left : 1..Refreshes]
      /\ c \in Conversations /\ (strayed \/ c = selected)
  BY <1>1, WindowNow
<1>3. /\ loads' \in Seq(Fetches) /\ Len(loads') <= MaxLoads /\ Len(loads') > 0
      /\ \A n \in 1..Len(loads) : loads'[n] = loads[n] /\ n \in 1..Len(loads')
      /\ last \in 1..Len(loads') /\ loads'[last] = Asked(c)
      /\ \A n \in 1..Len(loads') :
           /\ loads'[n].seen \subseteq OfConversation(loads'[n].conversationId)
           /\ ~loads'[n].read => loads'[n].seen = {}
  BY <1>1, <1>2, FetchAdded
<1>4. /\ timers' \in {None} \cup [conversationId : Conversations, left : 1..Refreshes]
      /\ timers' # None => strayed \/ timers'.conversationId = selected
  <2>1. CASE timers.left = 1  BY <1>1, <2>1
  <2>2. CASE timers.left # 1
    <3>1. timers.left \in 1..Refreshes /\ Refreshes \in Nat  BY <1>2, BoundsAreNumbers
    <3>2. timers.left - 1 \in 1..Refreshes  BY <2>2, <3>1
    <3>3. timers' = [timers EXCEPT !.left = timers.left - 1]  BY <1>1, <2>2
    <3>4. QED  BY <1>2, <3>2, <3>3
  <2>3. QED  BY <2>1, <2>2
<1>5. Refreshed'  BY <1>3 DEF Refreshed
<1>6. ASSUME ~strayed, NEW i \in 1..Len(store), store[i].conversationId = selected, PinComes(i)
      PROVE  PinComes(i)'
  <2>1. CASE pinning # None /\ pinning.id = i  BY <1>1, <2>1 DEF PinComes
  <2>2. CASE timers # None
    <3>1. loads'[last].conversationId = selected' /\ ~loads'[last].read
      BY <1>1, <1>2, <1>3, <1>6, AskedFacts
    <3>2. QED  BY <1>3, <3>1 DEF PinComes
  <2>3. QED  BY <1>1, <1>6, <2>1, <2>2 DEF PinComes
<1>7. unpublished' \subseteq unpublished  BY <1>1
<1>8. /\ live' \in Lives
      /\ live' # None => live'.of \in 1..Len(store) /\ (~strayed => store[live'.of].conversationId = selected)
      /\ stream' \in [open : BOOLEAN, heard : Seq(Lives \ {None})]
      /\ \A k \in 1..Len(stream'.heard) : stream'.heard[k].of \in 1..Len(store)
      /\ faults' \in 0..MaxFaults /\ faults' <= faults
  BY <1>1, WindowNow
<1>9. QED  BY <1>1, <1>3, <1>4, <1>5, <1>6, <1>7, <1>8, ThreadStays

LEMMA StreamStep == ASSUME ChatInv, StreamOpens \/ StreamBreaks PROVE ChatInv'
<1>1. /\ UNCHANGED <<store, pins, running, selected, messages, history>>
      /\ unpublished' = unpublished /\ live' = live /\ loads' = loads /\ timers' = timers
      /\ sending' = sending /\ pinning' = pinning /\ selected' = selected
      /\ \E b \in BOOLEAN : stream' = [stream EXCEPT !.open = b]
      /\ faults' = faults \/ (faults > 0 /\ faults' = faults - 1)
  BY DEF StreamOpens, StreamBreaks, server, bounds
<1>2. /\ stream' \in [open : BOOLEAN, heard : Seq(Lives \ {None})]
      /\ stream'.heard = stream.heard
  BY <1>1, WindowNow
<1>3. faults' \in 0..MaxFaults /\ faults' <= faults
  BY <1>1, WindowNow
<1>4. Refreshed => Refreshed'
  <2>1. faults < MaxFaults => faults' < MaxFaults  BY <1>1, <1>3, WindowNow
  <2>2. QED  BY <1>1, <2>1 DEF Refreshed
<1>5. \A i \in 1..Len(store) : PinComes(i) => PinComes(i)'  BY <1>1 DEF PinComes
<1>6. /\ unpublished' \subseteq unpublished /\ live' \in Lives
      /\ live' # None => live'.of \in 1..Len(store) /\ (~strayed => store[live'.of].conversationId = selected)
      /\ loads' \in Seq(Fetches) /\ Len(loads') <= MaxLoads
      /\ \A n \in 1..Len(loads') :
           /\ loads'[n].seen \subseteq OfConversation(loads'[n].conversationId)
           /\ ~loads'[n].read => loads'[n].seen = {}
      /\ timers' \in {None} \cup [conversationId : Conversations, left : 1..Refreshes]
      /\ timers' # None => strayed \/ timers'.conversationId = selected
      /\ \A k \in 1..Len(stream'.heard) : stream'.heard[k].of \in 1..Len(store)
  BY <1>1, <1>2, WindowNow
<1>7. QED  BY <1>1, <1>2, <1>3, <1>4, <1>5, <1>6, ThreadStays

\* Steps of the reader and calls: neither the thread nor the stream changes.
LEMMA CallStep ==
  ASSUME ChatInv, Send \/ TogglePin \/ CallLost PROVE ChatInv'
<1>1. /\ UNCHANGED <<store, pins, running, selected, messages, history>>
      /\ unpublished' = unpublished /\ live' = live /\ timers' = timers
      /\ stream' = stream /\ selected' = selected
  BY DEF Send, TogglePin, CallLost, server
<1>2. /\ faults' \in 0..MaxFaults /\ faults' <= faults
      /\ ~CallLost => loads' = loads /\ faults' = faults
      /\ CallLost => faults' < MaxFaults
  BY WindowNow DEF Send, TogglePin, CallLost, bounds
<1>3. /\ loads' \in Seq(Fetches) /\ Len(loads') <= MaxLoads
      /\ \A n \in 1..Len(loads') :
           /\ loads'[n].seen \subseteq OfConversation(loads'[n].conversationId)
           /\ ~loads'[n].read => loads'[n].seen = {}
  <2>1. CASE loads' = loads  BY <2>1, WindowNow
  <2>2. CASE \E n \in 1..Len(loads) : loads' = RemoveAt(loads, n)
    <3>1. PICK n \in 1..Len(loads) : loads' = RemoveAt(loads, n)  BY <2>2
    <3>2. loads \in Seq(Fetches) /\ Len(loads) \in Nat /\ Len(loads) <= MaxLoads /\ MaxLoads \in Nat
      BY WindowNow, BoundsAreNumbers
    <3>3. /\ loads' \in Seq(Fetches) /\ Len(loads') = Len(loads) - 1
          /\ \A j \in 1..(Len(loads) - 1) : \E m \in 1..Len(loads) : m # n /\ loads'[j] = loads[m]
      BY <3>1, <3>2, OneLess, ZenonT(60)
    <3>4. \A j \in 1..Len(loads') : \E m \in 1..Len(loads) : loads'[j] = loads[m]  BY <3>3
    <3>5. Len(loads') <= MaxLoads  BY <3>2, <3>3
    <3>6. QED  BY <3>3, <3>4, <3>5, WindowNow
  <2>3. QED  BY <2>1, <2>2 DEF Send, TogglePin, CallLost
<1>4. \/ sending' = sending \/ sending' = None
      \/ /\ sending' \in [conversationId : Conversations, stored : {None}]
         /\ Len(store) + Cardinality(running) < Len(Earlier) + 2 * MaxSends
  BY WindowNow DEF Send, TogglePin, CallLost
<1>5. \/ pinning' = pinning \/ pinning' = None
      \/ /\ pinning' \in [id : 1..Len(store), pin : BOOLEAN, stored : {FALSE}]
         /\ pinning = None
  <2>1. CASE TogglePin
    <3>1. PICK k \in 1..Len(messages) :
            pinning' = [id |-> messages[k].id, pin |-> ~messages[k].pinned, stored |-> FALSE]
      BY <2>1 DEF TogglePin
    <3>2. messages[k].id \in 1..Len(store)  BY WhatIsShown DEF ChatInv
    <3> DEFINE b == ~messages[k].pinned
    <3>3. b \in BOOLEAN /\ pinning' = [id |-> messages[k].id, pin |-> b, stored |-> FALSE]
      BY <3>1
    <3> HIDE DEF b
    <3>4. pinning' \in [id : 1..Len(store), pin : BOOLEAN, stored : {FALSE}]  BY <3>2, <3>3
    <3>5. QED  BY <2>1, <3>4 DEF TogglePin
  <2>2. CASE Send \/ CallLost  BY <2>2 DEF Send, CallLost
  <2>3. QED  BY <2>1, <2>2
<1>6. Refreshed => Refreshed'
  BY <1>1, <1>2 DEF Refreshed
<1>7. ASSUME faults' = MaxFaults, NEW i \in 1..Len(store), PinComes(i) PROVE PinComes(i)'
  <2>1. ~CallLost /\ loads' = loads /\ faults \in 0..MaxFaults
    <3>1. MaxFaults \in Nat  BY BoundsAreNumbers
    <3>2. QED  BY <1>2, <1>7, <3>1, WindowNow
  <2>2. CASE pinning # None /\ pinning.id = i
    <3>1. pinning' = pinning  BY <2>1, <2>2 DEF Send, TogglePin
    <3>2. QED  BY <2>2, <3>1 DEF PinComes
  <2>3. CASE ~(pinning # None /\ pinning.id = i)  BY <1>1, <1>7, <2>1, <2>3 DEF PinComes
  <2>4. QED  BY <2>2, <2>3
<1>8. /\ unpublished' \subseteq unpublished /\ live' \in Lives
      /\ live' # None => live'.of \in 1..Len(store) /\ (~strayed => store[live'.of].conversationId = selected)
      /\ timers' \in {None} \cup [conversationId : Conversations, left : 1..Refreshes]
      /\ timers' # None => strayed \/ timers'.conversationId = selected
      /\ stream' \in [open : BOOLEAN, heard : Seq(Lives \ {None})]
      /\ \A k \in 1..Len(stream'.heard) : stream'.heard[k].of \in 1..Len(store)
  BY <1>1, WindowNow
<1>9. QED  BY <1>1, <1>2, <1>3, <1>4, <1>5, <1>6, <1>7, <1>8, ThreadStays

\* A bubble for a message that is stored.
LEMMA BubbleFacts ==
  ASSUME ChatInv, NEW i \in 1..Len(store), NEW k \in {"pending", "started", "completed"}
  PROVE  LET b == [kind |-> k, of |-> i]
         IN  b \in Lives \ {None} /\ b \in Lives /\ b # None /\ b.of = i
<1> DEFINE b == [kind |-> k, of |-> i]
<1>1. i \in Positions
  <2>1. Len(store) \in Nat /\ Len(store) <= Len(Earlier) + 2 * MaxSends  BY DEF ChatInv, TypeOK
  <2>2. QED  BY <2>1, BoundsAreNumbers DEF Positions
<1>2. b \in [kind : {"pending", "started", "completed"}, of : Positions]  BY <1>1
<1>3. b # None  BY <1>2, ChatConstants
<1>4. QED  BY <1>2, <1>3 DEF Lives

LEMMA BubbleHeard ==
  ASSUME ChatInv, NEW i \in 1..Len(store), NEW k \in {"started", "completed"}, NEW o \in BOOLEAN,
         stream' = [open |-> o, heard |-> Append(stream.heard, [kind |-> k, of |-> i])]
  PROVE  /\ stream' \in [open : BOOLEAN, heard : Seq(Lives \ {None})]
         /\ \A j \in 1..Len(stream'.heard) : stream'.heard[j].of \in 1..Len(store)
<1> DEFINE b == [kind |-> k, of |-> i]
           h == stream.heard
<1>1. b \in Lives \ {None} /\ b.of = i  BY BubbleFacts
<1> HIDE DEF b
<1>2. h \in Seq(Lives \ {None}) /\ \A j \in 1..Len(h) : h[j].of \in 1..Len(store)
  BY WindowNow
<1> HIDE DEF h
<1>3. /\ Append(h, b) \in Seq(Lives \ {None}) /\ Append(h, b)[Len(h) + 1] = b
      /\ \A j \in 1..Len(h) : Append(h, b)[j] = h[j]
      /\ \A j \in 1..Len(Append(h, b)) : j \in 1..Len(h) \/ j = Len(h) + 1
  BY <1>1, <1>2, OneMore
<1>4. \A j \in 1..Len(Append(h, b)) : Append(h, b)[j].of \in 1..Len(store)
  BY <1>1, <1>2, <1>3
<1>5. stream' = [open |-> o, heard |-> Append(h, b)]  BY DEF b, h
<1>6. stream'.heard = Append(h, b)  BY <1>5
<1>7. stream' \in [open : BOOLEAN, heard : Seq(Lives \ {None})]
  <2> DEFINE T == Seq(Lives \ {None})
             a == Append(h, b)
  <2>1. a \in T /\ o \in BOOLEAN /\ stream' = [open |-> o, heard |-> a]  BY <1>3, <1>5
  <2> HIDE DEF T, a
  <2>2. [open |-> o, heard |-> a] \in [open : BOOLEAN, heard : T]  BY <2>1
  <2>3. stream' \in [open : BOOLEAN, heard : T]  BY <2>1, <2>2, Zenon
  <2>4. QED  BY <2>3 DEF T
<1>8. \A j \in 1..Len(stream'.heard) : stream'.heard[j].of \in 1..Len(store)  BY <1>4, <1>6
<1>9. QED  BY <1>7, <1>8

LEMMA AnnounceStep ==
  ASSUME ChatInv, NEW r \in unpublished, Announce(r) PROVE ChatInv'
<1>1. /\ UNCHANGED <<store, pins, running, selected, messages, history>>
      /\ unpublished' \subseteq unpublished /\ selected' = selected
      /\ sending' = sending /\ pinning' = pinning /\ faults' = faults
  BY DEF Announce, bounds
<1>2. r \in 1..Len(store)  BY DEF ChatInv, TypeOK
<1>3. CASE stream.open /\ store[r].conversationId = selected
  <2>1. /\ Len(loads) + 1 <= MaxLoads /\ live' = [kind |-> "completed", of |-> r]
        /\ loads' = Append(loads, Asked(selected)) /\ timers' = Schedule(selected)
        /\ stream' = [stream EXCEPT !.heard = Append(@, [kind |-> "completed", of |-> r])]
    BY <1>3 DEF Announce, HasRoom
  <2>2. stream' = [open |-> stream.open, heard |-> Append(stream.heard, [kind |-> "completed", of |-> r])]
        /\ stream.open \in BOOLEAN
    BY <2>1, WindowNow
  <2>3. /\ stream' \in [open : BOOLEAN, heard : Seq(Lives \ {None})]
        /\ \A j \in 1..Len(stream'.heard) : stream'.heard[j].of \in 1..Len(store)
    BY <1>2, <2>2, BubbleHeard
  <2>4. /\ live' \in Lives /\ live' # None /\ live'.of = r
        /\ store[live'.of].conversationId = selected
    BY <1>2, <1>3, <2>1, BubbleFacts
  <2>5. /\ selected \in Conversations /\ timers' \in [conversationId : Conversations, left : 1..Refreshes]
        /\ timers'.conversationId = selected /\ timers' # None
    BY <2>1, WindowNow, AskedFacts
  <2>6. /\ loads' \in Seq(Fetches) /\ Len(loads') <= MaxLoads
        /\ \A n \in 1..Len(loads') :
             /\ loads'[n].seen \subseteq OfConversation(loads'[n].conversationId)
             /\ ~loads'[n].read => loads'[n].seen = {}
    BY <2>1, <2>5, FetchAdded
  <2>7. Refreshed'  BY <2>5 DEF Refreshed
  <2>8. \A i \in 1..Len(store) : PinComes(i)'  BY <2>5 DEF PinComes
  <2>9. faults' \in 0..MaxFaults /\ faults' <= faults  BY <1>1, WindowNow
  <2>10. QED  BY <1>1, <1>2, <2>3, <2>4, <2>5, <2>6, <2>7, <2>8, <2>9, ThreadStays
<1>4. CASE ~(stream.open /\ store[r].conversationId = selected)
  <2>1. live' = live /\ loads' = loads /\ timers' = timers /\ stream' = stream
    BY <1>4 DEF Announce
  <2>2. Refreshed => Refreshed'  BY <1>1, <2>1 DEF Refreshed
  <2>3. \A i \in 1..Len(store) : PinComes(i) => PinComes(i)'  BY <1>1, <2>1 DEF PinComes
  <2>4. /\ live' \in Lives
        /\ live' # None => live'.of \in 1..Len(store) /\ (~strayed => store[live'.of].conversationId = selected)
        /\ loads' \in Seq(Fetches) /\ Len(loads') <= MaxLoads
        /\ \A n \in 1..Len(loads') :
             /\ loads'[n].seen \subseteq OfConversation(loads'[n].conversationId)
             /\ ~loads'[n].read => loads'[n].seen = {}
        /\ timers' \in {None} \cup [conversationId : Conversations, left : 1..Refreshes]
        /\ timers' # None => strayed \/ timers'.conversationId = selected
        /\ stream' \in [open : BOOLEAN, heard : Seq(Lives \ {None})]
        /\ \A k \in 1..Len(stream'.heard) : stream'.heard[k].of \in 1..Len(store)
        /\ faults' \in 0..MaxFaults /\ faults' <= faults
    BY <1>1, <2>1, WindowNow
  <2>5. QED  BY <1>1, <2>2, <2>3, <2>4, ThreadStays
<1>5. QED  BY <1>3, <1>4

LEMMA AnnounceCutStep ==
  ASSUME ChatInv, NEW r \in unpublished, AnnounceCut(r) PROVE ChatInv'
<1>1. /\ UNCHANGED <<store, pins, running, selected, messages, history>>
      /\ unpublished' \subseteq unpublished /\ selected' = selected
      /\ sending' = sending /\ pinning' = pinning /\ loads' = loads /\ timers' = timers
      /\ store[r].conversationId = selected /\ faults > 0 /\ faults' = faults - 1
      /\ live' = [kind |-> "started", of |-> r]
      /\ stream' = [open |-> FALSE, heard |-> Append(stream.heard, [kind |-> "started", of |-> r])]
  BY DEF AnnounceCut, history, bounds
<1>2. r \in 1..Len(store)  BY DEF ChatInv, TypeOK
<1>3. /\ stream' \in [open : BOOLEAN, heard : Seq(Lives \ {None})]
      /\ \A j \in 1..Len(stream'.heard) : stream'.heard[j].of \in 1..Len(store)
  BY <1>1, <1>2, BubbleHeard
<1>4. live' \in Lives /\ live'.of = r  BY <1>1, <1>2, BubbleFacts
<1>5. faults' \in 0..MaxFaults /\ faults' <= faults /\ faults' < MaxFaults  BY <1>1, WindowNow
<1>6. Refreshed' /\ faults' # MaxFaults  BY <1>5, BoundsAreNumbers DEF Refreshed
<1>7. /\ loads' \in Seq(Fetches) /\ Len(loads') <= MaxLoads
      /\ \A n \in 1..Len(loads') :
           /\ loads'[n].seen \subseteq OfConversation(loads'[n].conversationId)
           /\ ~loads'[n].read => loads'[n].seen = {}
      /\ timers' \in {None} \cup [conversationId : Conversations, left : 1..Refreshes]
      /\ timers' # None => strayed \/ timers'.conversationId = selected
  BY <1>1, WindowNow
<1>8. QED  BY <1>1, <1>2, <1>3, <1>4, <1>5, <1>6, <1>7, ThreadStays

LEMMA PinAnsweredStep == ASSUME ChatInv, PinAnswered PROVE ChatInv'
<1> USE DEF ChatInv
<1> DEFINE p == pinning.pin
           Now(k) == IF messages[k].id = pinning.id THEN [messages[k] EXCEPT !.pinned = p] ELSE messages[k]
           Msg == [id : 1..Len(store), pinned : BOOLEAN]
<1>1. /\ pinning # None /\ pinning.stored
      /\ messages' = [k \in 1..Len(messages) |-> Now(k)]
      /\ pinning' = None
      /\ store' = store /\ pins' = pins /\ running' = running /\ unpublished' = unpublished
      /\ selected' = selected /\ live' = live /\ loads' = loads
      /\ timers' = timers /\ stream' = stream /\ sending' = sending /\ settled' = settled
      /\ strayed' = strayed /\ overtaken' = overtaken /\ faults' = faults
  BY DEF PinAnswered, server, history, bounds
<1>2. /\ pinning \in [id : Positions, pin : BOOLEAN, stored : BOOLEAN]
      /\ pinning.id \in 1..Len(store) /\ p \in BOOLEAN /\ (p <=> pinning.id \in pins)
  BY <1>1 DEF TypeOK, WindowKnows
<1> HIDE DEF p
<1>3. ASSUME NEW k \in 1..Len(messages)
      PROVE  /\ Now(k) \in Msg /\ Now(k).id = messages[k].id
             /\ messages[k].id = pinning.id => Now(k).pinned = p
             /\ messages[k].id # pinning.id => Now(k) = messages[k]
  <2>1. messages[k] \in Msg  BY WhatIsShown
  <2>2. CASE messages[k].id = pinning.id
    <3>1. Now(k) = [messages[k] EXCEPT !.pinned = p]  BY <2>2
    <3> HIDE DEF Now
    <3>2. QED  BY <1>2, <2>1, <2>2, <3>1
  <2>3. CASE messages[k].id # pinning.id
    <3>1. Now(k) = messages[k]  BY <2>3
    <3> HIDE DEF Now, Msg
    <3>2. QED  BY <2>1, <2>3, <3>1
  <2>4. QED  BY <2>2, <2>3
<1> HIDE DEF Now, Msg
<1>4. Len(messages) \in Nat  BY WhatIsShown
<1>5. /\ messages' \in Seq(Msg) /\ Len(messages') = Len(messages)
      /\ \A k \in 1..Len(messages) : messages'[k] = Now(k)
  BY <1>1, <1>3, <1>4
<1>6. \A k \in 1..Len(messages') : k \in 1..Len(messages) /\ messages'[k].id = messages[k].id
  BY <1>3, <1>5
<1>7. TypeOK'
  <2>1. messages' \in Seq([id : 1..Len(store'), pinned : BOOLEAN])  BY <1>1, <1>5 DEF Msg
  <2>2. QED  BY <1>1, <2>1 DEF TypeOK, Asking
<1>8. SendsAreBounded'  BY <1>1 DEF SendsAreBounded
<1>9. WindowKnows'  BY <1>1 DEF WindowKnows, OfConversation
<1>10. ThreadBelongs' /\ RefreshesFollowSelection'
  BY <1>1, <1>6 DEF ThreadBelongs, RefreshesFollowSelection
<1>11. (Distinct(messages) \/ Refreshed)'
  <2>1. Refreshed => Refreshed'  BY <1>1 DEF Refreshed
  <2>2. Distinct(messages) => Distinct(messages)'  BY <1>5, <1>6 DEF Distinct
  <2>3. QED  BY <2>1, <2>2
<1>12. PinsCome'
  <2>1. ASSUME NEW k \in 1..Len(messages'), NEW i, i = messages'[k].id,
               store'[i].conversationId = selected',
               faults' = MaxFaults, ~strayed', ~overtaken'
        PROVE  (messages'[k].pinned = (i \in pins')) \/ PinComes(i)'
    <3>1. k \in 1..Len(messages) /\ messages'[k] = Now(k) /\ i = messages[k].id
      BY <1>5, <1>6, <2>1
    <3>2. CASE i = pinning.id
      <4>1. messages'[k].pinned = p  BY <1>3, <3>1, <3>2
      <4>2. p \in BOOLEAN /\ (p <=> i \in pins) /\ pins' = pins  BY <1>1, <1>2, <3>2
      <4>3. QED  BY <4>1, <4>2
    <3>3. CASE i # pinning.id
      <4>1. messages'[k] = messages[k]  BY <1>3, <3>1, <3>3
      <4>2. (messages[k].pinned = (i \in pins)) \/ PinComes(i)
        BY <1>1, <2>1, <3>1 DEF PinsCome
      <4>3. PinComes(i) => PinComes(i)'  BY <1>1, <3>3 DEF PinComes
      <4>4. QED  BY <1>1, <4>1, <4>2, <4>3
    <3>4. QED  BY <3>2, <3>3
  <2>2. QED  BY <2>1, PinsComeNow
<1>13. QED  BY <1>7, <1>8, <1>9, <1>10, <1>11, <1>12

\* What a fetch leaves in the window when it is answered.
LEMMA ThreadArrived ==
  ASSUME TypeOK, NEW f, f.seen \subseteq OfConversation(f.conversationId),
         messages' = MergeMessages(messages, f)
  PROVE  /\ messages' \in Seq([id : 1..Len(store), pinned : BOOLEAN])
         /\ Distinct(messages')
         /\ \A k \in 1..Len(messages') :
              /\ store[messages'[k].id].conversationId = f.conversationId
              /\ messages'[k].id \in f.seen => messages'[k].pinned = (messages'[k].id \in f.pinned)
              /\ messages'[k].id \notin f.seen => \E j \in 1..Len(messages) : messages'[k] = messages[j]
         /\ \A j \in 1..Len(messages) :
              store[messages[j].id].conversationId = f.conversationId
                => \E k \in 1..Len(messages') : messages'[k].id = messages[j].id
<1> DEFINE m == MergeMessages(messages, f)
<1>1. m = MergeMessages(messages, f) /\ messages' = m  OBVIOUS
<1> HIDE DEF m
<1>2. /\ m \in Seq([id : 1..Len(store), pinned : BOOLEAN])
      /\ Distinct(m)
  BY <1>1, MergeFacts
<1>3. \A k \in 1..Len(m) :
        /\ store[m[k].id].conversationId = f.conversationId
        /\ m[k].id \in f.seen => m[k].pinned = (m[k].id \in f.pinned)
        /\ m[k].id \notin f.seen => \E j \in 1..Len(messages) : m[k] = messages[j]
  BY <1>1, MergeFacts
<1>4. messages' \in Seq([id : 1..Len(store), pinned : BOOLEAN])  BY <1>1, <1>2
<1>5. Distinct(messages')  BY <1>1, <1>2 DEF Distinct
<1>6. \A j \in 1..Len(messages) :
        store[messages[j].id].conversationId = f.conversationId
          => \E k \in 1..Len(m) : m[k].id = messages[j].id
  BY <1>1, MergeFacts, SMTT(60)
<1>7. QED  BY <1>1, <1>3, <1>4, <1>5, <1>6

LEMMA MessagesArriveStep == ASSUME ChatInv, MessagesArrive PROVE ChatInv'
<1> USE DEF ChatInv
<1>1. PICK n \in 1..Len(loads) :
        /\ loads[n].read
        /\ loads' = RemoveAt(loads, n)
        /\ messages' = MergeMessages(messages, loads[n])
        /\ live' = IF ShouldClearLive(live, loads[n]) THEN None ELSE live
        /\ settled' = (settled \/ loads[n].conversationId = selected)
        /\ strayed' = (strayed \/ loads[n].conversationId # selected)
        /\ overtaken' = (overtaken \/ loads[n].pinned # pins \cap loads[n].seen)
        /\ UNCHANGED <<server, selected, timers, stream, sending, pinning, bounds>>
  BY DEF MessagesArrive
<1> DEFINE f == loads[n]
<1>2. /\ store' = store /\ pins' = pins /\ running' = running /\ unpublished' = unpublished
      /\ selected' = selected /\ timers' = timers /\ stream' = stream /\ sending' = sending
      /\ pinning' = pinning /\ faults' = faults
      /\ live' = live \/ live' = None
  BY <1>1 DEF server, bounds
<1>3. /\ f.seen \subseteq OfConversation(f.conversationId)
      /\ loads \in Seq(Fetches) /\ Len(loads) \in Nat /\ Len(loads) <= MaxLoads
      /\ settled \in BOOLEAN /\ strayed \in BOOLEAN /\ overtaken \in BOOLEAN
  BY WindowNow DEF TypeOK
<1>4. /\ messages' \in Seq([id : 1..Len(store), pinned : BOOLEAN])
      /\ Distinct(messages')
      /\ \A k \in 1..Len(messages') :
           /\ store[messages'[k].id].conversationId = f.conversationId
           /\ messages'[k].id \in f.seen => messages'[k].pinned = (messages'[k].id \in f.pinned)
           /\ messages'[k].id \notin f.seen => \E j \in 1..Len(messages) : messages'[k] = messages[j]
  <2>1. TypeOK /\ f.seen \subseteq OfConversation(f.conversationId)  BY <1>3
  <2>2. messages' = MergeMessages(messages, f)  BY <1>1
  <2> HIDE DEF f
  <2>3. QED  BY <2>1, <2>2, ThreadArrived
<1>5. /\ loads' \in Seq(Fetches) /\ Len(loads') = Len(loads) - 1
      /\ \A j \in 1..(Len(loads) - 1) : \E m \in 1..Len(loads) : m # n /\ loads'[j] = loads[m]
      /\ \A m \in 1..Len(loads) : m # n => \E j \in 1..(Len(loads) - 1) : loads'[j] = loads[m]
  <2> DEFINE t == RemoveAt(loads, n)
  <2>1. /\ t \in Seq(Fetches) /\ Len(t) = Len(loads) - 1
        /\ \A j \in 1..(Len(loads) - 1) : \E m \in 1..Len(loads) : m # n /\ t[j] = loads[m]
        /\ \A m \in 1..Len(loads) : m # n => \E j \in 1..(Len(loads) - 1) : t[j] = loads[m]
    BY <1>3, OneLess
  <2>2. loads' = t  BY <1>1
  <2> HIDE DEF t
  <2>3. QED  BY <2>1, <2>2
<1>6. Len(loads') <= MaxLoads  BY <1>3, <1>5, BoundsAreNumbers
<1>7. TypeOK'
  <2>1. /\ live' \in Lives /\ settled' \in BOOLEAN /\ strayed' \in BOOLEAN /\ overtaken' \in BOOLEAN
    BY <1>1, <1>2, <1>3 DEF TypeOK, Lives
  <2>2. messages' \in Seq([id : 1..Len(store'), pinned : BOOLEAN])  BY <1>2, <1>4
  <2>3. QED  BY <1>2, <1>5, <1>6, <2>1, <2>2 DEF TypeOK, Asking
<1>8. SendsAreBounded'  BY <1>2 DEF SendsAreBounded
<1>9. WindowKnows'
  <2>1. ASSUME NEW j \in 1..Len(loads')
        PROVE  /\ loads'[j].seen \subseteq OfConversation(loads'[j].conversationId)
               /\ ~loads'[j].read => loads'[j].seen = {}
    <3>1. PICK m \in 1..Len(loads) : loads'[j] = loads[m]  BY <1>5
    <3>2. QED  BY <3>1, WindowNow
  <2>2. QED  BY <1>2, <2>1 DEF WindowKnows, OfConversation
<1>10. ThreadBelongs'
  <2>1. ASSUME ~strayed' PROVE f.conversationId = selected /\ ~strayed
    BY <1>1, <2>1
  <2>2. ASSUME ~strayed', NEW k \in 1..Len(messages')
        PROVE  store[messages'[k].id].conversationId = selected
    BY <1>4, <2>1, <2>2
  <2>3. ASSUME ~strayed', live' # None PROVE store[live'.of].conversationId = selected
    BY <1>2, <2>1, <2>3 DEF ThreadBelongs
  <2>4. QED  BY <1>2, <2>2, <2>3 DEF ThreadBelongs
<1>11. RefreshesFollowSelection'  BY <1>1, <1>2 DEF RefreshesFollowSelection
<1>12. (Distinct(messages) \/ Refreshed)'  BY <1>4
<1>13. PinsCome'
  <2>1. ASSUME NEW k \in 1..Len(messages'), NEW i, i = messages'[k].id,
               store'[i].conversationId = selected',
               faults' = MaxFaults, ~strayed', ~overtaken'
        PROVE  (messages'[k].pinned = (i \in pins')) \/ PinComes(i)'
    <3>1. /\ faults = MaxFaults /\ ~strayed /\ ~overtaken /\ f.conversationId = selected
          /\ f.pinned = pins \cap f.seen /\ store[i].conversationId = selected
      BY <1>1, <1>2, <2>1
    <3>2. CASE i \in f.seen
      <4>1. messages'[k].pinned = (i \in f.pinned)  BY <1>4, <2>1, <3>2
      <4>2. (i \in f.pinned) = (i \in pins')  BY <1>2, <3>1, <3>2
      <4>3. QED  BY <4>1, <4>2
    <3>3. CASE i \notin f.seen
      <4>1. PICK j \in 1..Len(messages) : messages'[k] = messages[j]  BY <1>4, <2>1, <3>3
      <4>2. messages[j].id = i  BY <2>1, <4>1
      <4>3. (messages[j].pinned = (i \in pins)) \/ PinComes(i)
        BY <3>1, <4>2 DEF PinsCome
      <4>4. ASSUME PinComes(i) PROVE PinComes(i)'
        <5>1. CASE (pinning # None /\ pinning.id = i) \/ timers # None
          BY <1>2, <5>1 DEF PinComes
        <5>2. CASE \E q \in 1..Len(loads) : /\ loads[q].conversationId = selected
                                            /\ loads[q].read => i \in loads[q].seen
          <6>1. PICK q \in 1..Len(loads) : /\ loads[q].conversationId = selected
                                           /\ loads[q].read => i \in loads[q].seen
            BY <5>2
          <6>2. q # n  BY <1>1, <3>3, <6>1
          <6>3. PICK m \in 1..(Len(loads) - 1) : loads'[m] = loads[q]  BY <1>5, <6>2
          <6>4. m \in 1..Len(loads')  BY <1>5, <6>3
          <6>5. QED  BY <1>2, <6>1, <6>3, <6>4 DEF PinComes
        <5>3. QED  BY <4>4, <5>1, <5>2 DEF PinComes
      <4>5. QED  BY <1>2, <4>1, <4>3, <4>4
    <3>4. QED  BY <3>2, <3>3
  <2>2. QED  BY <2>1, PinsComeNow
<1>14. QED  BY <1>7, <1>8, <1>9, <1>10, <1>11, <1>12, <1>13

LEMMA SendAnsweredStep == ASSUME ChatInv, SendAnswered PROVE ChatInv'
<1> USE DEF ChatInv
<1> DEFINE i == sending.stored
           c == sending.conversationId
           e == [id |-> i, pinned |-> FALSE]
           Msg == [id : 1..Len(store), pinned : BOOLEAN]
<1>1. /\ sending # None /\ i # None
      /\ messages' = Append(messages, e)
      /\ live' = [kind |-> "pending", of |-> i]
      /\ timers' = Schedule(c) /\ sending' = None
      /\ strayed' = (strayed \/ c # selected)
      /\ store' = store /\ pins' = pins /\ running' = running /\ unpublished' = unpublished
      /\ selected' = selected /\ loads' = loads /\ stream' = stream
      /\ pinning' = pinning /\ settled' = settled /\ overtaken' = overtaken /\ faults' = faults
  BY DEF SendAnswered, server, bounds
<1>2. /\ i \in 1..Len(store) /\ store[i].conversationId = c
      /\ c \in Conversations
      /\ strayed \in BOOLEAN
  BY <1>1 DEF TypeOK, WindowKnows, OfConversation
<1>3. e \in Msg /\ e.id = i  BY <1>2
<1>4. messages \in Seq(Msg)  BY DEF TypeOK
<1> HIDE DEF e, Msg
<1>5. /\ messages' \in Seq(Msg) /\ messages'[Len(messages) + 1] = e
      /\ \A k \in 1..Len(messages) : messages'[k] = messages[k]
      /\ \A k \in 1..Len(messages') : k \in 1..Len(messages) \/ k = Len(messages) + 1
  BY <1>1, <1>3, <1>4, OneMore
<1>6. live' \in Lives /\ live'.of = i  BY <1>1, <1>2, BubbleFacts
<1>7. /\ timers' \in [conversationId : Conversations, left : 1..Refreshes]
      /\ timers'.conversationId = c /\ timers' # None
  BY <1>1, <1>2, AskedFacts
<1>8. TypeOK'
  <2>1. messages' \in Seq([id : 1..Len(store'), pinned : BOOLEAN])  BY <1>1, <1>5 DEF Msg
  <2>2. strayed' \in BOOLEAN  BY <1>1, <1>2
  <2>3. QED  BY <1>1, <1>6, <1>7, <2>1, <2>2 DEF TypeOK, Asking
<1>9. SendsAreBounded'  BY <1>1 DEF SendsAreBounded
<1>10. WindowKnows'  BY <1>1, <1>2, <1>6 DEF WindowKnows, OfConversation
<1>11. ThreadBelongs'
  <2>1. ASSUME ~strayed' PROVE ~strayed /\ c = selected  BY <1>1, <2>1
  <2>2. ASSUME ~strayed', settled', NEW k \in 1..Len(messages')
        PROVE  store[messages'[k].id].conversationId = selected
    <3>1. CASE k \in 1..Len(messages)  BY <1>1, <1>5, <2>1, <2>2, <3>1 DEF ThreadBelongs
    <3>2. CASE k = Len(messages) + 1  BY <1>2, <1>3, <1>5, <2>1, <2>2, <3>2
    <3>3. QED  BY <1>5, <3>1, <3>2
  <2>3. ~strayed' => store[live'.of].conversationId = selected  BY <1>2, <1>6, <2>1
  <2>4. QED  BY <1>1, <2>2, <2>3 DEF ThreadBelongs
<1>12. RefreshesFollowSelection'  BY <1>1, <1>7 DEF RefreshesFollowSelection
<1>13. (Distinct(messages) \/ Refreshed)'  BY <1>7 DEF Refreshed
<1>14. PinsCome'
  <2>1. \A j : PinComes(j)'  BY <1>7 DEF PinComes
  <2>2. QED  BY <2>1, PinsComeNow
<1>15. QED  BY <1>8, <1>9, <1>10, <1>11, <1>12, <1>13, <1>14

LEMMA SelectConversationStep ==
  ASSUME ChatInv, NEW c \in Conversations, SelectConversation(c) PROVE ChatInv'
<1> USE DEF ChatInv
<1> DEFINE h == stream.heard
           completed == {k \in 1..Len(h) : h[k].kind = "completed"}
           asked == Cardinality(completed) + 1
           last == Len(loads) + 1
<1>1. /\ Len(loads) + asked <= MaxLoads
      /\ selected' = c
      /\ loads' = loads \o [k \in 1..asked |-> Asked(c)]
      /\ live' = IF h = << >> THEN live ELSE h[Len(h)]
      /\ timers' = IF completed = {} THEN None ELSE Schedule(c)
      /\ stream' = [open |-> FALSE, heard |-> << >>]
      /\ settled' = FALSE /\ strayed' = (live' # None)
      /\ store' = store /\ pins' = pins /\ running' = running /\ unpublished' = unpublished
      /\ messages' = messages /\ sending' = sending /\ pinning' = pinning
      /\ overtaken' = overtaken /\ faults' = faults
  BY DEF SelectConversation, HasRoom, Last, server
<1>2. /\ h \in Seq(Lives \ {None}) /\ Len(h) \in Nat
      /\ \A k \in 1..Len(h) : h[k].of \in 1..Len(store)
  BY WindowNow
<1>3. asked \in Nat /\ asked > 0
  <2>0. completed \in SUBSET (1..Len(h))  OBVIOUS
  <2>1. IsFiniteSet(1..Len(h))  BY <1>2, FS_Interval
  <2> HIDE DEF completed
  <2>2. IsFiniteSet(completed)  BY <2>0, <2>1, FS_Subset
  <2>3. Cardinality(completed) \in Nat  BY <2>2, FS_CardinalityType
  <2>4. QED  BY <2>3
<1> HIDE DEF asked, completed
<1>4. /\ loads \in Seq(Fetches) /\ Len(loads) \in Nat
      /\ Asked(c) \in Fetches /\ Asked(c).conversationId = c /\ Asked(c).read = FALSE
      /\ Asked(c).seen = {}
  BY WindowNow, AskedFacts
<1>5. /\ loads' \in Seq(Fetches) /\ Len(loads') = Len(loads) + asked
      /\ \A i \in 1..Len(loads') : (i \in 1..Len(loads) /\ loads'[i] = loads[i]) \/ loads'[i] = Asked(c)
      /\ loads'[last] = Asked(c)
  <2> DEFINE t == loads \o [k \in 1..asked |-> Asked(c)]
  <2>1. /\ t \in Seq(Fetches) /\ Len(t) = Len(loads) + asked
        /\ \A i \in 1..Len(t) : (i \in 1..Len(loads) /\ t[i] = loads[i]) \/ t[i] = Asked(c)
        /\ t[last] = Asked(c)
    BY <1>3, <1>4, SomeMore
  <2>2. loads' = t  BY <1>1
  <2> HIDE DEF t
  <2>3. QED  BY <2>1, <2>2
<1>6. last \in 1..Len(loads') /\ Len(loads') <= MaxLoads /\ Len(loads') > 0
  BY <1>1, <1>3, <1>4, <1>5
<1>7. live' \in Lives /\ (live' # None => live'.of \in 1..Len(store))
  <2>1. CASE h = << >>  BY <1>1, <2>1, WindowNow
  <2>2. CASE h # << >>
    <3>1. Len(h) \in 1..Len(h)  BY <1>2, <2>2
    <3>2. h[Len(h)] \in Lives  BY <1>2, <3>1
    <3>3. QED  BY <1>1, <1>2, <2>2, <3>1, <3>2
  <2>3. QED  BY <2>1, <2>2
<1>8. /\ timers' \in {None} \cup [conversationId : Conversations, left : 1..Refreshes]
      /\ timers' # None => timers'.conversationId = c
  BY <1>1, AskedFacts
<1>9. TypeOK'
  <2>1. stream' \in [open : BOOLEAN, heard : Seq(Lives \ {None})]  BY <1>1
  <2>2. selected' \in Conversations /\ settled' \in BOOLEAN /\ strayed' \in BOOLEAN  BY <1>1
  <2>3. QED  BY <1>1, <1>5, <1>6, <1>7, <1>8, <2>1, <2>2 DEF TypeOK, Asking
<1>10. SendsAreBounded'  BY <1>1 DEF SendsAreBounded
<1>11. WindowKnows'
  <2>1. ASSUME NEW j \in 1..Len(loads')
        PROVE  /\ loads'[j].seen \subseteq OfConversation(loads'[j].conversationId)
               /\ ~loads'[j].read => loads'[j].seen = {}
    BY <1>4, <1>5, WindowNow
  <2>2. \A k \in 1..Len(stream'.heard) : FALSE  BY <1>1
  <2>3. QED  BY <1>1, <1>7, <2>1, <2>2, ZenonT(60) DEF WindowKnows, OfConversation
<1>12. ThreadBelongs'  BY <1>1 DEF ThreadBelongs
<1>13. RefreshesFollowSelection'  BY <1>1, <1>8 DEF RefreshesFollowSelection
<1>14. (Distinct(messages) \/ Refreshed)'  BY <1>6 DEF Refreshed
<1>15. PinsCome'
  <2>1. loads'[last].conversationId = selected' /\ ~loads'[last].read  BY <1>1, <1>4, <1>5
  <2>2. \A i : PinComes(i)'  BY <1>6, <2>1 DEF PinComes
  <2>3. QED  BY <2>2, PinsComeNow
<1>16. QED  BY <1>9, <1>10, <1>11, <1>12, <1>13, <1>14, <1>15

-----------------------------------------------------------------------------
LEMMA ChatInit == Init => ChatInv
<1> SUFFICES ASSUME Init PROVE ChatInv
  OBVIOUS
<1> DEFINE mine == OfConversation(selected)
           order == InOrder(mine)
<1>1. /\ store = Earlier /\ pins = {} /\ running = {} /\ unpublished = {}
      /\ selected \in Conversations
      /\ messages = [k \in 1..Len(order) |-> [id |-> order[k], pinned |-> FALSE]]
      /\ live = None /\ loads = << >> /\ timers = None
      /\ stream = [open |-> FALSE, heard |-> << >>]
      /\ sending = None /\ pinning = None
      /\ settled = TRUE /\ strayed = FALSE /\ overtaken = FALSE /\ faults = MaxFaults
  BY DEF Init
<1>2. /\ store \in Seq(Message) /\ Len(store) \in Nat /\ Len(store) <= Len(Earlier) + 2 * MaxSends
      /\ MaxFaults \in Nat /\ MaxLoads \in Nat /\ MaxSends \in Nat
  BY <1>1, BoundsAreNumbers
<1>3. mine \subseteq 1..Len(store) /\ \A i \in mine : store[i].conversationId = selected
  BY DEF OfConversation
<1>4. mine \in SUBSET Nat /\ IsFiniteSet(mine)
  <2>1. IsFiniteSet(1..Len(store)) /\ 1..Len(store) \subseteq Nat  BY <1>2, FS_Interval
  <2> HIDE DEF mine
  <2>2. QED  BY <1>3, <2>1, FS_Subset
<1> HIDE DEF mine
<1>5. /\ Cardinality(mine) \in Nat
      /\ order \in [1..Cardinality(mine) -> mine]
      /\ \A j, k \in 1..Cardinality(mine) : order[j] = order[k] => j = k
  BY <1>4, InOrderFacts
<1> HIDE DEF order
<1>6. Len(order) = Cardinality(mine)  BY <1>5
<1>7. \A k \in 1..Len(order) : order[k] \in 1..Len(store) /\ order[k] \in mine  BY <1>3, <1>5,
                                                                                   <1>6
<1>8. /\ messages \in Seq([id : 1..Len(store), pinned : BOOLEAN])
      /\ Len(messages) = Len(order)
      /\ \A k \in 1..Len(messages) : messages[k].id = order[k] /\ messages[k].pinned = FALSE
  <2> DEFINE T == [id : 1..Len(store), pinned : BOOLEAN]
             e(k) == [id |-> order[k], pinned |-> FALSE]
             n == Len(order)
  <2>1. \A k \in 1..n : e(k) \in T /\ e(k).id = order[k] /\ e(k).pinned = FALSE  BY <1>7
  <2>2. n \in Nat /\ messages = [k \in 1..n |-> e(k)]  BY <1>1, <1>5, <1>6
  <2> HIDE DEF T, e, n
  <2>3. messages \in Seq(T) /\ Len(messages) = n /\ \A k \in 1..n : messages[k] = e(k)
    BY <2>1, <2>2
  <2>4. QED  BY <2>1, <2>3 DEF T, n
<1>9. TypeOK
  <2>1. stream \in [open : BOOLEAN, heard : Seq(Lives \ {None})]  BY <1>1
  <2>2. loads \in Seq(Fetches) /\ Len(loads) <= MaxLoads  BY <1>1, <1>2
  <2>3. QED  BY <1>1, <1>2, <1>8, <2>1, <2>2 DEF TypeOK, Lives
<1>10. SendsAreBounded
  <2>1. 0 \in 0..MaxSends /\ Len(store) + Cardinality(running) = Len(Earlier) + 2 * 0
    BY <1>1, <1>2, FS_EmptySet
  <2>2. QED  BY <1>1, <2>1 DEF SendsAreBounded
<1>11. WindowKnows  BY <1>1, <1>2 DEF WindowKnows
<1>12. ThreadBelongs /\ RefreshesFollowSelection
  BY <1>1, <1>3, <1>7, <1>8 DEF ThreadBelongs, RefreshesFollowSelection
<1>13. Distinct(messages)  BY <1>5, <1>6, <1>8 DEF Distinct
<1>14. PinsCome
  <2>0. \A i : (i \in pins) = FALSE  BY <1>1
  <2>1. \A k \in 1..Len(messages) : messages[k].pinned = (messages[k].id \in pins)
    BY <1>8, <2>0, Zenon
  <2>2. QED  BY <2>1, Zenon DEF PinsCome
<1>15. QED  BY <1>9, <1>10, <1>11, <1>12, <1>13, <1>14 DEF ChatInv

LEMMA ChatNext == ChatInv /\ [Next]_vars => ChatInv'
<1> SUFFICES ASSUME ChatInv, [Next]_vars PROVE ChatInv'
  OBVIOUS
<1>1. CASE UNCHANGED vars
  <2>1. /\ store' = store /\ pins' = pins /\ running' = running /\ unpublished' = unpublished
        /\ selected' = selected /\ messages' = messages /\ live' = live /\ loads' = loads
        /\ timers' = timers /\ stream' = stream /\ sending' = sending /\ pinning' = pinning
        /\ settled' = settled /\ strayed' = strayed /\ overtaken' = overtaken /\ faults' = faults
    BY <1>1 DEF vars, server, history, bounds
  <2>2. TypeOK'  BY <2>1 DEF ChatInv, TypeOK, Asking
  <2>3. SendsAreBounded'  BY <2>1 DEF ChatInv, SendsAreBounded
  <2>4. WindowKnows'  BY <2>1 DEF ChatInv, WindowKnows, OfConversation
  <2>5. ThreadBelongs' /\ RefreshesFollowSelection'
    BY <2>1 DEF ChatInv, ThreadBelongs, RefreshesFollowSelection
  <2>6. (Distinct(messages) \/ Refreshed)'  BY <2>1 DEF ChatInv, Distinct, Refreshed
  <2>7. \A i : PinComes(i) => PinComes(i)'  BY <2>1 DEF PinComes
  <2>8. PinsCome'  BY <2>1, <2>7, PinsStay
  <2>9. QED  BY <2>2, <2>3, <2>4, <2>5, <2>6, <2>8 DEF ChatInv
<1>2. CASE Next
  BY <1>2, StoreMessageStep, PinStoredStep, ReadMessagesStep, StoreReplyStep, AnnounceStep,
     AnnounceCutStep, MessagesArriveStep, RefreshDueStep, StreamStep, SelectConversationStep,
     CallStep, SendAnsweredStep, PinAnsweredStep
  DEF Next
<1>3. QED  BY <1>1, <1>2

LEMMA ChatInvGives == ChatInv => ThreadIsSound
<1> SUFFICES ASSUME ChatInv PROVE ThreadIsSound
  OBVIOUS
<1>1. ForeignOnlyByStraying
  <2> SUFFICES ASSUME Foreign, settled, ~strayed PROVE FALSE
    BY DEF ChatInv, TypeOK, ForeignOnlyByStraying
  <2>1. \A i \in Shown : store[i].conversationId = selected
    BY DEF ChatInv, ThreadBelongs, Shown
  <2>2. live # None => store[live.of].conversationId = selected
    BY DEF ChatInv, ThreadBelongs
  <2>3. QED  BY <2>1, <2>2 DEF Foreign
<1>2. DuplicatesAreTransient
  <2> SUFFICES ASSUME Cardinality(Shown) < Len(messages) PROVE Refreshed
    BY DEF DuplicatesAreTransient, Refreshed
  <2>1. ASSUME Distinct(messages) PROVE FALSE
    <3>1. messages \in Seq([id : 1..Len(store), pinned : BOOLEAN])  BY DEF ChatInv, TypeOK
    <3>2. Cardinality(Shown) = Len(messages)  BY <2>1, <3>1, EachOnce
    <3>3. Len(messages) \in Nat  BY WhatIsShown DEF ChatInv
    <3>4. QED  BY <3>2, <3>3
  <2>2. QED  BY <2>1 DEF ChatInv
<1>3. PinsAreCurrent
  <2> SUFFICES ASSUME AtRest, ~overtaken, NEW k \in 1..Len(messages)
               PROVE  messages[k].pinned = (messages[k].id \in pins)
    BY DEF PinsAreCurrent
  <2>1. /\ timers = None /\ Len(loads) = 0 /\ pinning = None /\ settled /\ ~strayed
        /\ faults = MaxFaults
    BY DEF AtRest
  <2>2. store[messages[k].id].conversationId = selected  BY <2>1 DEF ChatInv, ThreadBelongs
  <2>3. ~PinComes(messages[k].id)  BY <2>1 DEF PinComes
  <2>4. QED  BY <2>1, <2>2, <2>3 DEF ChatInv, PinsCome
<1>4. QED  BY <1>1, <1>2, <1>3 DEF ChatInv, ThreadIsSound

\* A fetch takes nothing away from the thread of its conversation.
LEMMA NothingLeaves ==
  ASSUME ChatInv, Next, selected' = selected, ~strayed'
  PROVE  Shown \cap OfConversation(selected) \subseteq {messages'[k].id : k \in 1..Len(messages')}
<1> SUFFICES ASSUME NEW j \in 1..Len(messages), store[messages[j].id].conversationId = selected
             PROVE  \E k \in 1..Len(messages') : messages'[k].id = messages[j].id
  BY DEF Shown, OfConversation
<1>1. CASE messages' = messages  BY <1>1
<1>2. CASE SendAnswered
  <2>1. messages' = Append(messages, [id |-> sending.stored, pinned |-> FALSE])
    BY <1>2 DEF SendAnswered
  <2>2. Len(messages) \in Nat /\ messages \in Seq([id : 1..Len(store), pinned : BOOLEAN])
    BY DEF ChatInv, TypeOK
  <2>3. j \in 1..Len(messages') /\ messages'[j] = messages[j]  BY <2>1, <2>2
  <2>4. QED  BY <2>3
<1>3. CASE PinAnswered
  <2>1. messages' = [k \in 1..Len(messages) |->
          IF messages[k].id = pinning.id THEN [messages[k] EXCEPT !.pinned = pinning.pin] ELSE messages[k]]
    BY <1>3 DEF PinAnswered
  <2>2. messages[j] \in [id : 1..Len(store), pinned : BOOLEAN] /\ Len(messages) \in Nat
    BY WhatIsShown DEF ChatInv
  <2>3. messages'[j].id = messages[j].id /\ j \in 1..Len(messages')
    BY <2>1, <2>2
  <2>4. QED  BY <2>3
<1>4. CASE MessagesArrive
  <2>1. PICK n \in 1..Len(loads) :
          /\ messages' = MergeMessages(messages, loads[n])
          /\ strayed' = (strayed \/ loads[n].conversationId # selected)
    BY <1>4 DEF MessagesArrive
  <2>2. loads[n].conversationId = selected  BY <2>1
  <2>3. TypeOK /\ loads[n].seen \subseteq OfConversation(loads[n].conversationId)
    BY WindowNow DEF ChatInv
  <2> DEFINE f == loads[n]
  <2>4. /\ messages' = MergeMessages(messages, f) /\ f.conversationId = selected
        /\ f.seen \subseteq OfConversation(f.conversationId)
    BY <2>1, <2>2, <2>3
  <2> HIDE DEF f
  <2>5. \A i \in 1..Len(messages) :
          store[messages[i].id].conversationId = f.conversationId
            => \E k \in 1..Len(messages') : messages'[k].id = messages[i].id
    BY <2>3, <2>4, ThreadArrived
  <2>6. QED  BY <2>4, <2>5
<1>5. CASE selected' # selected  BY <1>5
<1>6. QED
  BY <1>1, <1>2, <1>3, <1>4, <1>5 DEF Next, StoreMessage, PinStored, ReadMessages, StoreReply,
     Announce, AnnounceCut, RefreshDue, StreamOpens, StreamBreaks, SelectConversation, Send,
     TogglePin, CallLost

LEMMA ChatSteps == [ClientNext]_allVars => [Next]_vars
  BY DEF ClientNext, WebStep, PhoneStep, allVars

LEMMA ChatInvariance == ClientSpec => []ChatInv
<1>1. ClientInit => ChatInv  BY ChatInit DEF ClientInit
<1>2. ChatInv /\ [ClientNext]_allVars => ChatInv'  BY ChatNext, ChatSteps
<1>3. QED  BY <1>1, <1>2, PTL DEF ClientSpec

\* The thread is of the selected conversation, each message once, with the pins of the server:
\* ThreadIsSound holds for any conversations, messages, switches, pins and faults, however
\* fetches overtake each other.  (ChatClient)
THEOREM ThreadStaysSound == ClientSpec => []ThreadIsSound
<1>1. QED  BY ChatInvariance, ChatInvGives, PTL

\* While a conversation stays selected no message of it leaves the thread, for any number of
\* fetches that overtake each other.  (MergeMessages)
THEOREM ThreadsOnlyGrow == ClientSpec => ThreadOnlyGrows
<1> DEFINE Grows == selected' = selected /\ ~strayed'
                     => Shown \cap OfConversation(selected) \subseteq {messages'[k].id : k \in 1..Len(messages')}
<1>1. ChatInv /\ [ClientNext]_allVars => [Grows]_vars
  BY ChatSteps, NothingLeaves
<1>2. QED  BY <1>1, ChatInvariance, PTL DEF ClientSpec, ThreadOnlyGrows

=============================================================================
