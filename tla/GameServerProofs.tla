--------------------------- MODULE GameServerProofs ---------------------------
(***************************************************************************)
(* What holds of the game server's connections, chat rooms and limits for  *)
(* any number of connections, sessions, rooms, messages and edits.         *)
(***************************************************************************)
EXTENDS Transport, ChatRooms, Limits, SequenceTheorems, FiniteSetTheorems, WellFoundedInduction, TLAPS

-----------------------------------------------------------------------------
(* Sequences: what remove_if leaves                                         *)

\* A set of naturals with 0 that is closed under successor is Nat.
LEMMA Induction ==
    ASSUME NEW T, T \subseteq Nat, 0 \in T, \A n \in T : n + 1 \in T
    PROVE  \A n \in Nat : n \in T
<1>1. ASSUME NEW k \in Nat, k \notin T PROVE FALSE
  <2>1. PICK m \in Nat \ T : \A y \in Nat \ T : ~(<<y, m>> \in OpToRel(<, Nat))
    <3>1. Nat \ T # {} /\ Nat \ T \subseteq Nat  BY <1>1
    <3> QED  BY <3>1, NatLessThanWellFounded, WFMin
  <2>2. \A y \in Nat \ T : ~(y < m)
    BY <2>1 DEF OpToRel
  <2>3. m # 0 /\ m - 1 \in Nat /\ m - 1 < m
    OBVIOUS
  <2>4. m - 1 \notin T
    BY <2>3
  <2> QED  BY <2>2, <2>3, <2>4
<1> QED  BY <1>1

\* What Without keeps of the first n elements, for every n.
Rest(q, S) ==
    CHOOSE f : f = [n \in 0 .. Len(q) |->
        IF n = 0 THEN <<>> ELSE IF q[n] \in S THEN f[n - 1] ELSE Append(f[n - 1], q[n])]

LEMMA RestExists ==
    ASSUME NEW T, NEW q \in Seq(T), NEW S
    PROVE  /\ Rest(q, S) \in [0 .. Len(q) -> Seq(T)]
           /\ Rest(q, S)[0] = <<>>
           /\ \A n \in 1 .. Len(q) :
                Rest(q, S)[n] = IF q[n] \in S THEN Rest(q, S)[n - 1]
                                ELSE Append(Rest(q, S)[n - 1], q[n])
           /\ Without(q, S) = Rest(q, S)[Len(q)]
<1> DEFINE Upto(n, f) ==
             f = [k \in 0 .. n |-> IF k = 0 THEN <<>> ELSE IF q[k] \in S THEN f[k - 1]
                                                       ELSE Append(f[k - 1], q[k])]
           Defined(n) == n <= Len(q) => \E f \in [0 .. n -> Seq(T)] : Upto(n, f)
           N == {n \in Nat : Defined(n)}
<1>1. Len(q) \in Nat /\ \A k \in 1 .. Len(q) : q[k] \in T
  OBVIOUS
<1>2. 0 \in N
  <2>1. [k \in 0 .. 0 |-> <<>>] \in [0 .. 0 -> Seq(T)] /\ Upto(0, [k \in 0 .. 0 |-> <<>>])
    OBVIOUS
  <2> QED  BY <2>1
<1>3. ASSUME NEW n \in Nat, Defined(n) PROVE Defined(n + 1)
  <2>0. n \in Nat /\ n + 1 \in Nat
    OBVIOUS
  <2> SUFFICES ASSUME n + 1 <= Len(q) PROVE \E f \in [0 .. n + 1 -> Seq(T)] : Upto(n + 1, f)
    OBVIOUS
  <2>1. PICK f \in [0 .. n -> Seq(T)] : Upto(n, f)
    <3>1. n <= Len(q)  BY <1>1, <2>0
    <3> QED  BY <1>3, <3>1
  <2> DEFINE g == [k \in 0 .. n + 1 |-> IF k <= n THEN f[k]
                                        ELSE IF q[k] \in S THEN f[n] ELSE Append(f[n], q[k])]
  <2>2. \A k \in 0 .. n : f[k] = IF k = 0 THEN <<>> ELSE IF q[k] \in S THEN f[k - 1]
                                                       ELSE Append(f[k - 1], q[k])
    BY <2>1
  <2>3. \A k \in 0 .. n : g[k] = f[k]
    BY <2>0
  <2>4. g[n + 1] = IF q[n + 1] \in S THEN f[n] ELSE Append(f[n], q[n + 1])
    BY <2>0
  <2>5. g[n + 1] \in Seq(T)
    <3>1. f[n] \in Seq(T) /\ q[n + 1] \in T  BY <1>1, <2>0
    <3> HIDE DEF g
    <3> QED  BY <2>4, <3>1
  <2>6. g \in [0 .. n + 1 -> Seq(T)]
    <3>1. \A k \in 0 .. n + 1 : g[k] \in Seq(T)
      <4> TAKE k \in 0 .. n + 1
      <4>1. CASE k = n + 1  BY <4>1, <2>5
      <4>2. CASE k # n + 1
        <5>1. k \in 0 .. n  BY <4>2, <2>0
        <5>2. g[k] = f[k]  BY <5>1, <2>3
        <5> QED  BY <5>1, <5>2
      <4> QED  BY <4>1, <4>2
    <3>2. g = [k \in 0 .. n + 1 |-> g[k]]
      OBVIOUS
    <3> HIDE DEF g
    <3> QED  BY <3>1, <3>2
  <2>7. \A k \in 0 .. n + 1 : g[k] = IF k = 0 THEN <<>> ELSE IF q[k] \in S THEN g[k - 1]
                                                       ELSE Append(g[k - 1], q[k])
    <3> TAKE k \in 0 .. n + 1
    <3> HIDE DEF g
    <3>1. CASE k = n + 1
      <4>1. g[k - 1] = f[n]  BY <3>1, <2>3, <2>0
      <4>2. k # 0  BY <3>1, <2>0
      <4> QED  BY <3>1, <2>4, <4>1, <4>2
    <3>2. CASE k \in 1 .. n
      <4>1. k - 1 \in 0 .. n /\ k \in 0 .. n /\ k # 0  BY <3>2, <2>0
      <4>2. g[k - 1] = f[k - 1] /\ g[k] = f[k]  BY <4>1, <2>3
      <4>3. f[k] = IF q[k] \in S THEN f[k - 1] ELSE Append(f[k - 1], q[k])  BY <4>1, <2>2
      <4> QED  BY <4>1, <4>2, <4>3
    <3>3. CASE k = 0
      <4>1. 0 \in 0 .. n  BY <2>0
      <4>2. g[0] = f[0] /\ f[0] = <<>>  BY <4>1, <2>2, <2>3
      <4> QED  BY <3>3, <4>2
    <3>4. k = n + 1 \/ k \in 1 .. n \/ k = 0  BY <2>0
    <3> QED  BY <3>1, <3>2, <3>3, <3>4
  <2>8. Upto(n + 1, g)
    <3> HIDE DEF g
    <3> QED BY <2>6, <2>7
  <2> QED  BY <2>6, <2>8
<1>4. \A n \in Nat : n \in N
  <2>1. N \subseteq Nat /\ \A n \in N : n + 1 \in N
    <3> HIDE DEF Defined
    <3> QED  BY <1>3
  <2> HIDE DEF N
  <2> QED  BY <1>2, <2>1, Induction
<1>5. PICK f \in [0 .. Len(q) -> Seq(T)] : Upto(Len(q), f)
  <2>1. Len(q) \in N  BY <1>1, <1>4
  <2>2. Len(q) <= Len(q)  BY <1>1
  <2> QED  BY <2>1, <2>2
<1>6. Upto(Len(q), Rest(q, S))
  BY <1>5 DEF Rest
<1>7. Without(q, S) = Rest(q, S)[Len(q)]
  BY DEF Without, Rest
<1>8. ASSUME NEW g, Upto(Len(q), g)
      PROVE  \A n \in 0 .. Len(q) : g[n] \in Seq(T)
  <2> DEFINE M == {n \in Nat : n <= Len(q) => g[n] \in Seq(T)}
  <2>1. \A n \in 0 .. Len(q) : g[n] = IF n = 0 THEN <<>> ELSE IF q[n] \in S THEN g[n - 1]
                                                       ELSE Append(g[n - 1], q[n])
    BY <1>8
  <2>2. 0 \in M
    <3>1. 0 \in 0 .. Len(q)  BY <1>1
    <3>2. g[0] = <<>>  BY <2>1, <3>1
    <3>3. <<>> \in Seq(T)  OBVIOUS
    <3> QED  BY <3>2, <3>3
  <2>3. ASSUME NEW n \in M, n + 1 <= Len(q) PROVE g[n + 1] \in Seq(T)
    <3>1. g[n] \in Seq(T) /\ q[n + 1] \in T /\ n + 1 \in 0 .. Len(q) /\ n + 1 # 0 /\ n + 1 - 1 = n
      BY <1>1, <2>3
    <3>2. g[n + 1] = IF q[n + 1] \in S THEN g[n] ELSE Append(g[n], q[n + 1])
      BY <2>1, <3>1
    <3> QED  BY <3>1, <3>2
  <2>4. M \subseteq Nat /\ \A n \in M : n + 1 \in M
    BY <2>3
  <2>5. \A n \in Nat : n \in M
    <3> HIDE DEF M
    <3> QED  BY <2>2, <2>4, Induction
  <2> QED  BY <2>5, <1>1
<1> HIDE DEF N
<1>9. \A n \in 0 .. Len(q) : Rest(q, S)[n] \in Seq(T)
  BY <1>6, <1>8
<1>10. /\ \A n \in 0 .. Len(q) :
             Rest(q, S)[n] = IF n = 0 THEN <<>> ELSE IF q[n] \in S THEN Rest(q, S)[n - 1]
                                ELSE Append(Rest(q, S)[n - 1], q[n])
       /\ Rest(q, S) = [n \in 0 .. Len(q) |-> Rest(q, S)[n]]
  BY <1>6
<1>11. Rest(q, S) \in [0 .. Len(q) -> Seq(T)]
  BY <1>9, <1>10
<1>12. /\ 0 \in 0 .. Len(q)
       /\ \A n \in 1 .. Len(q) : n \in 0 .. Len(q) /\ n # 0
  BY <1>1
<1>13. Rest(q, S)[0] = <<>>
  BY <1>10, <1>12
<1>14. \A n \in 1 .. Len(q) :
          Rest(q, S)[n] = IF q[n] \in S THEN Rest(q, S)[n - 1]
                          ELSE Append(Rest(q, S)[n - 1], q[n])
  BY <1>10, <1>12
<1> QED  BY <1>7, <1>11, <1>13, <1>14

LEMMA WithoutType ==
    ASSUME NEW T, NEW q \in Seq(T), NEW S
    PROVE  Without(q, S) \in Seq(T)
BY RestExists

LEMMA WithoutEmpty ==
    ASSUME NEW S
    PROVE  Without(<<>>, S) = <<>>
<1>1. <<>> \in Seq({}) /\ Len(<<>>) = 0
  OBVIOUS
<1> DEFINE z == <<>>
<1>2. z \in Seq({}) /\ Len(z) = 0  BY <1>1
<1>3. Rest(z, S)[0] = <<>> /\ Without(z, S) = Rest(z, S)[Len(z)]
  <2>1. ASSUME NEW q \in Seq({}) PROVE Rest(q, S)[0] = <<>> /\ Without(q, S) = Rest(q, S)[Len(q)]
    BY RestExists
  <2> HIDE DEF z
  <2> QED  BY <1>2, <2>1
<1> QED  BY <1>2, <1>3

LEMMA WithoutAppend ==
    ASSUME NEW T, NEW q \in Seq(T), NEW x \in T, NEW S
    PROVE  Without(Append(q, x), S) = IF x \in S THEN Without(q, S) ELSE Append(Without(q, S), x)
<1> DEFINE a == Append(q, x)
           f == Rest(q, S)
           g == Rest(a, S)
           M == {n \in Nat : n <= Len(q) => g[n] = f[n]}
<1>1. /\ a \in Seq(T) /\ Len(q) \in Nat /\ Len(a) = Len(q) + 1
      /\ a[Len(q) + 1] = x /\ \A n \in 1 .. Len(q) : a[n] = q[n]
  OBVIOUS
<1>2. /\ f[0] = <<>> /\ Without(q, S) = f[Len(q)]
      /\ \A n \in 1 .. Len(q) : f[n] = IF q[n] \in S THEN f[n - 1] ELSE Append(f[n - 1], q[n])
  BY RestExists
<1>3. /\ g[0] = <<>> /\ Without(a, S) = g[Len(a)]
      /\ \A n \in 1 .. Len(a) : g[n] = IF a[n] \in S THEN g[n - 1] ELSE Append(g[n - 1], a[n])
  <2> HIDE DEF a
  <2> QED BY <1>1, RestExists
<1> HIDE DEF a, f, g
<1>4. \A n \in Nat : n \in M
  <2>1. 0 \in M  BY <1>2, <1>3
  <2>2. ASSUME NEW n \in M, n + 1 <= Len(q) PROVE g[n + 1] = f[n + 1]
    <3>1. n + 1 \in 1 .. Len(q) /\ n + 1 \in 1 .. Len(a) /\ (n + 1) - 1 = n /\ g[n] = f[n]
      BY <1>1, <2>2
    <3> QED  BY <3>1, <1>1, <1>2, <1>3
  <2>3. M \subseteq Nat /\ \A n \in M : n + 1 \in M  BY <1>1, <2>2
  <2> HIDE DEF M
  <2> QED  BY <2>1, <2>3, Induction
<1>5. g[Len(q)] = f[Len(q)]  BY <1>4, <1>1
<1>6. Len(a) \in 1 .. Len(a) /\ Len(a) - 1 = Len(q)  BY <1>1
<1>7. g[Len(a)] = IF x \in S THEN f[Len(q)] ELSE Append(f[Len(q)], x)
  BY <1>1, <1>3, <1>5, <1>6
<1> QED  BY <1>7, <1>2, <1>3 DEF a

LEMMA ToSetAppend ==
    ASSUME NEW T, NEW q \in Seq(T), NEW x \in T
    PROVE  ToSet(Append(q, x)) = ToSet(q) \cup {x}
<1>1. /\ DOMAIN Append(q, x) = 1 .. Len(q) + 1 /\ DOMAIN q = 1 .. Len(q) /\ Len(q) \in Nat
      /\ \A i \in 1 .. Len(q) : Append(q, x)[i] = q[i]
      /\ Append(q, x)[Len(q) + 1] = x
  OBVIOUS
<1>2. ASSUME NEW y PROVE y \in ToSet(Append(q, x)) <=> y \in ToSet(q) \cup {x}
  <2>1. ASSUME y \in ToSet(Append(q, x)) PROVE y \in ToSet(q) \cup {x}
    <3>1. PICK i \in 1 .. Len(q) + 1 : y = Append(q, x)[i]  BY <1>1, <2>1 DEF ToSet
    <3>2. CASE i = Len(q) + 1  BY <1>1, <3>1, <3>2
    <3>3. CASE i \in 1 .. Len(q)  BY <1>1, <3>1, <3>3 DEF ToSet
    <3> QED  BY <1>1, <3>2, <3>3
  <2>2. ASSUME y \in ToSet(q) PROVE y \in ToSet(Append(q, x))
    <3>1. PICK i \in 1 .. Len(q) : y = q[i]  BY <1>1, <2>2 DEF ToSet
    <3>2. i \in 1 .. Len(q) + 1 /\ y = Append(q, x)[i]  BY <1>1, <3>1
    <3> QED  BY <1>1, <3>2 DEF ToSet
  <2>3. x \in ToSet(Append(q, x))
    <3>1. Len(q) + 1 \in 1 .. Len(q) + 1  BY <1>1
    <3> QED  BY <1>1, <3>1 DEF ToSet
  <2> QED  BY <2>1, <2>2, <2>3
<1> QED  BY <1>2

\* A sequence has no element twice if it is one without any, with one more.
LEMMA InjectiveAppend ==
    ASSUME NEW T, NEW q \in Seq(T), NEW x \in T
    PROVE  IsInjective(Append(q, x)) <=> IsInjective(q) /\ x \notin ToSet(q)
<1> DEFINE a == Append(q, x)
<1>1. /\ DOMAIN a = 1 .. Len(q) + 1 /\ DOMAIN q = 1 .. Len(q) /\ Len(q) \in Nat
      /\ \A i \in 1 .. Len(q) : a[i] = q[i]
      /\ a[Len(q) + 1] = x
  OBVIOUS
<1> HIDE DEF a
<1>2. Len(q) + 1 \in 1 .. Len(q) + 1 /\ \A i \in 1 .. Len(q) : i \in 1 .. Len(q) + 1 /\ i # Len(q) + 1
  BY <1>1
<1>3. ASSUME IsInjective(a) PROVE IsInjective(q) /\ x \notin ToSet(q)
  BY <1>1, <1>2, <1>3 DEF IsInjective, ToSet
<1>4. ASSUME IsInjective(q), x \notin ToSet(q) PROVE IsInjective(a)
  <2> SUFFICES ASSUME NEW i \in 1 .. Len(q) + 1, NEW j \in 1 .. Len(q) + 1, a[i] = a[j]
               PROVE  i = j
    BY <1>1 DEF IsInjective
  <2>1. CASE i \in 1 .. Len(q) /\ j \in 1 .. Len(q)  BY <1>1, <1>4, <2>1 DEF IsInjective
  <2>2. CASE i = Len(q) + 1 /\ j \in 1 .. Len(q)  BY <1>1, <1>4, <2>2 DEF ToSet
  <2>3. CASE j = Len(q) + 1 /\ i \in 1 .. Len(q)  BY <1>1, <1>4, <2>3 DEF ToSet
  <2> QED  BY <1>1, <2>1, <2>2, <2>3
<1> QED  BY <1>3, <1>4 DEF a

LEMMA SeqInduction ==
    ASSUME NEW T, NEW M, M \subseteq Seq(T), <<>> \in M,
           \A q \in M, x \in T : Append(q, x) \in M
    PROVE  \A q \in Seq(T) : q \in M
<1> DEFINE Has(n) == \A q \in Seq(T) : Len(q) = n => q \in M
           N == {n \in Nat : Has(n)}
<1>1. Has(0)
  <2>1. \A q \in Seq(T) : Len(q) = 0 => q = <<>>  OBVIOUS
  <2> QED  BY <2>1
<1>2. ASSUME NEW n \in Nat, Has(n) PROVE Has(n + 1)
  <2> SUFFICES ASSUME NEW q \in Seq(T), Len(q) = n + 1 PROVE q \in M
    OBVIOUS
  <2>1. PICK r \in Seq(T), x \in T : q = Append(r, x)
    <3>1. q # <<>>  OBVIOUS
    <3> QED  BY <3>1, SequenceEmptyOrAppend
  <2>2. Len(r) = n  BY <2>1
  <2>3. r \in M  BY <1>2, <2>2
  <2> QED  BY <2>1, <2>3
<1>3. \A n \in Nat : Has(n)
  <2> HIDE DEF Has
  <2>1. N \subseteq Nat /\ 0 \in N /\ \A n \in N : n + 1 \in N  BY <1>1, <1>2
  <2>2. \A n \in Nat : n \in N
    <3> HIDE DEF N
    <3> QED  BY <2>1, Induction
  <2> QED  BY <2>2
<1>4. \A q \in Seq(T) : Len(q) \in Nat
  OBVIOUS
<1> QED  BY <1>3, <1>4

LEMMA WithoutSet ==
    ASSUME NEW T, NEW q \in Seq(T), NEW S
    PROVE  /\ ToSet(Without(q, S)) = ToSet(q) \ S
           /\ IsInjective(q) => IsInjective(Without(q, S))
<1> DEFINE P(p) == /\ ToSet(Without(p, S)) = ToSet(p) \ S
                   /\ IsInjective(p) => IsInjective(Without(p, S))
           M == {p \in Seq(T) : P(p)}
<1>1. <<>> \in M
  <2>1. ToSet(<<>>) = {}  BY DEF ToSet
  <2> QED  BY <2>1, WithoutEmpty
<1>2. ASSUME NEW p \in Seq(T), NEW x \in T, P(p) PROVE P(Append(p, x))
  <2>1. Without(p, S) \in Seq(T)  BY WithoutType
  <2>2. /\ ToSet(Append(p, x)) = ToSet(p) \cup {x}
        /\ ToSet(Append(Without(p, S), x)) = ToSet(Without(p, S)) \cup {x}
    BY <2>1, ToSetAppend
  <2>3. /\ IsInjective(Append(p, x)) <=> IsInjective(p) /\ x \notin ToSet(p)
        /\ IsInjective(Append(Without(p, S), x)) <=> IsInjective(Without(p, S)) /\ x \notin ToSet(Without(p, S))
    BY <2>1, InjectiveAppend
  <2>4. CASE x \in S
    <3>1. Without(Append(p, x), S) = Without(p, S)  BY <2>4, WithoutAppend
    <3> QED  BY <1>2, <2>2, <2>3, <2>4, <3>1
  <2>5. CASE x \notin S
    <3>1. Without(Append(p, x), S) = Append(Without(p, S), x)  BY <2>5, WithoutAppend
    <3> QED  BY <1>2, <2>2, <2>3, <2>5, <3>1
  <2> QED  BY <2>4, <2>5
<1> HIDE DEF P
<1>3. M \subseteq Seq(T) /\ \A p \in M, x \in T : Append(p, x) \in M
  BY <1>2
<1>4. \A p \in Seq(T) : p \in M
  <2> HIDE DEF M
  <2> QED  BY <1>1, <1>3, SeqInduction
<1> QED  BY <1>4 DEF P

\* What f makes of the elements of q.
Mapped(f, q) == [i \in 1 .. Len(q) |-> f[q[i]]]

LEMMA MappedAppend ==
    ASSUME NEW T, NEW f, NEW q \in Seq(T), NEW x \in T
    PROVE  /\ Mapped(f, q) \in Seq({f[y] : y \in T}) /\ Len(Mapped(f, q)) = Len(q)
           /\ Mapped(f, Append(q, x)) = Append(Mapped(f, q), f[x])
<1> DEFINE m == Mapped(f, q)
           a == Append(q, x)
<1>1. /\ a \in Seq(T) /\ Len(q) \in Nat /\ Len(a) = Len(q) + 1
      /\ a[Len(q) + 1] = x /\ \A i \in 1 .. Len(q) : a[i] = q[i] /\ q[i] \in T
  OBVIOUS
<1>2. m \in Seq({f[y] : y \in T}) /\ Len(m) = Len(q) /\ \A i \in 1 .. Len(q) : m[i] = f[q[i]]
  BY <1>1 DEF Mapped
<1> HIDE DEF m, a
<1>3. f[x] \in {f[y] : y \in T}  OBVIOUS
<1>4. /\ Append(m, f[x]) \in Seq({f[y] : y \in T}) /\ Len(Append(m, f[x])) = Len(q) + 1
      /\ Append(m, f[x])[Len(q) + 1] = f[x] /\ \A i \in 1 .. Len(q) : Append(m, f[x])[i] = f[q[i]]
  BY <1>1, <1>2, <1>3
<1>5. /\ Mapped(f, a) \in Seq({f[y] : y \in T}) /\ Len(Mapped(f, a)) = Len(q) + 1
      /\ \A i \in 1 .. Len(q) + 1 : Mapped(f, a)[i] = f[a[i]]
  BY <1>1 DEF Mapped
<1>6. Mapped(f, a) = Append(m, f[x])
  <2>1. \A i \in 1 .. Len(q) + 1 : Mapped(f, a)[i] = Append(m, f[x])[i]
    BY <1>1, <1>4, <1>5
  <2> QED  BY <1>4, <1>5, <2>1, SeqEqual
<1> QED  BY <1>2, <1>6 DEF m, a

LEMMA MappedAppendIs ==
    ASSUME NEW T, NEW f, NEW q \in Seq(T), NEW x \in T
    PROVE  Mapped(f, Append(q, x)) = Append(Mapped(f, q), f[x])
BY MappedAppend, Zenon

\* Taking elements away and mapping commute, if what is taken away is told by its image.
LEMMA WithoutMapped ==
    ASSUME NEW T, NEW f, NEW q \in Seq(T), NEW S, NEW R,
           \A x \in ToSet(q) : x \in S <=> f[x] \in R
    PROVE  Without(Mapped(f, q), R) = Mapped(f, Without(q, S))
<1> DEFINE Marked(p) == \A x \in ToSet(p) : x \in S <=> f[x] \in R
           P(p) == Marked(p) => Without(Mapped(f, p), R) = Mapped(f, Without(p, S))
           M == {p \in Seq(T) : P(p)}
<1>1. <<>> \in M
  <2>1. Mapped(f, <<>>) = <<>>  BY DEF Mapped
  <2> QED  BY <2>1, WithoutEmpty
<1>2. ASSUME NEW p \in Seq(T), NEW x \in T, P(p) PROVE P(Append(p, x))
  <2> SUFFICES ASSUME Marked(Append(p, x))
               PROVE  Without(Mapped(f, Append(p, x)), R) = Mapped(f, Without(Append(p, x), S))
    OBVIOUS
  <2>1. ToSet(Append(p, x)) = ToSet(p) \cup {x}  BY ToSetAppend
  <2>2. Marked(p) /\ (x \in S <=> f[x] \in R)  BY <2>1
  <2>3. Without(Mapped(f, p), R) = Mapped(f, Without(p, S))  BY <1>2, <2>2
  <2>4. /\ Mapped(f, p) \in Seq({f[y] : y \in T}) /\ f[x] \in {f[y] : y \in T}
        /\ Mapped(f, Append(p, x)) = Append(Mapped(f, p), f[x])
    <3>1. Mapped(f, p) \in Seq({f[y] : y \in T})  BY MappedAppend, Zenon
    <3>2. f[x] \in {f[y] : y \in T}  OBVIOUS
    <3>3. Mapped(f, Append(p, x)) = Append(Mapped(f, p), f[x])  BY MappedAppendIs, Zenon
    <3> QED  BY <3>1, <3>2, <3>3
  <2>5. /\ Without(p, S) \in Seq(T)
        /\ Mapped(f, Append(Without(p, S), x)) = Append(Mapped(f, Without(p, S)), f[x])
    <3> DEFINE w == Without(p, S)
    <3>1. w \in Seq(T)  BY WithoutType
    <3> HIDE DEF w
    <3>2. Mapped(f, Append(w, x)) = Append(Mapped(f, w), f[x])  BY <3>1, MappedAppendIs, Zenon
    <3> QED  BY <3>1, <3>2 DEF w
  <2>6. Without(Append(p, x), S) = IF x \in S THEN Without(p, S) ELSE Append(Without(p, S), x)
    BY WithoutAppend
  <2>7. Without(Append(Mapped(f, p), f[x]), R) =
              IF f[x] \in R THEN Without(Mapped(f, p), R) ELSE Append(Without(Mapped(f, p), R), f[x])
    <3> DEFINE U == {f[y] : y \in T}
               m == Mapped(f, p)
               y == f[x]
    <3>1. m \in Seq(U) /\ y \in U  BY <2>4
    <3> HIDE DEF U, m, y
    <3>2. Without(Append(m, y), R) = IF y \in R THEN Without(m, R) ELSE Append(Without(m, R), y)
      BY <3>1, WithoutAppend
    <3> QED  BY <3>2 DEF m, y
  <2> HIDE DEF Marked
  <2> QED  BY <2>2, <2>3, <2>4, <2>5, <2>6, <2>7
<1>3. M \subseteq Seq(T) /\ \A p \in M, x \in T : Append(p, x) \in M
  <2> HIDE DEF P
  <2> QED  BY <1>2
<1>4. \A p \in Seq(T) : p \in M
  <2> HIDE DEF M
  <2> QED  BY <1>1, <1>3, SeqInduction
<1> QED  BY <1>4

LEMMA WithoutConcat ==
    ASSUME NEW T, NEW p \in Seq(T), NEW q \in Seq(T), NEW S
    PROVE  Without(p \o q, S) = Without(p, S) \o Without(q, S)
<1> DEFINE M == {r \in Seq(T) : Without(p \o r, S) = Without(p, S) \o Without(r, S)}
<1>1. <<>> \in M
  <2>1. p \o <<>> = p /\ Without(p, S) \in Seq(T)  BY WithoutType
  <2>2. Without(p, S) \o <<>> = Without(p, S)  BY <2>1
  <2> QED  BY <2>1, <2>2, WithoutEmpty
<1>2. ASSUME NEW r \in M, NEW x \in T PROVE Append(r, x) \in M
  <2>1. p \o Append(r, x) = Append(p \o r, x) /\ p \o r \in Seq(T) /\ Append(r, x) \in Seq(T)
    OBVIOUS
  <2>2. /\ Without(p \o Append(r, x), S) = IF x \in S THEN Without(p \o r, S) ELSE Append(Without(p \o r, S), x)
        /\ Without(Append(r, x), S) = IF x \in S THEN Without(r, S) ELSE Append(Without(r, S), x)
    <3>1. r \in Seq(T)  OBVIOUS
    <3>2. Without(Append(p \o r, x), S) = IF x \in S THEN Without(p \o r, S) ELSE Append(Without(p \o r, S), x)
      <4> DEFINE y == p \o r
      <4>1. y \in Seq(T)  BY <2>1
      <4> HIDE DEF y
      <4>2. Without(Append(y, x), S) = IF x \in S THEN Without(y, S) ELSE Append(Without(y, S), x)
        BY <4>1, WithoutAppend
      <4> QED  BY <4>2 DEF y
    <3>3. Without(Append(r, x), S) = IF x \in S THEN Without(r, S) ELSE Append(Without(r, S), x)
      BY <3>1, WithoutAppend
    <3> QED  BY <2>1, <3>2, <3>3
  <2>3. Without(p, S) \in Seq(T) /\ Without(r, S) \in Seq(T)  BY WithoutType
  <2>4. Without(p, S) \o Append(Without(r, S), x) = Append(Without(p, S) \o Without(r, S), x)
    BY <2>3
  <2> QED  BY <2>1, <2>2, <2>4
<1>3. \A r \in Seq(T) : r \in M
  <2>1. M \subseteq Seq(T)  OBVIOUS
  <2> HIDE DEF M
  <2> QED  BY <1>1, <1>2, <2>1, SeqInduction
<1> QED  BY <1>3

-----------------------------------------------------------------------------
(* A connection: one end of it runs the disconnect handler                  *)

Conn == [sio: BOOLEAN, closing: BOOLEAN, awaiting: BOOLEAN, wsMode: BOOLEAN, wsStop: BOOLEAN]

\* "" is for no reason to end.
Reasons == {"", "rate limited", "client namespace disconnect", "transport close",
            "server namespace disconnect", "ping timeout", "websocket closed"}

\* Once closing_ is set, one reason has been given to the handler, and none before.
EndsInv == conn \in Conn /\ ends \in Seq(Reasons) /\ EndsOnce

\* do_disconnect runs the handler if it finds closing_ not set, and sets it; whoever
\* comes after that finds it set.
LEMMA ServesEnds ==
    ASSUME EndsInv,
           NEW c \in Conn, c.closing = conn.closing,
           NEW q, NEW why \in Reasons, Serves(c, q, why)
    PROVE  EndsInv'
<1>1. conn' \in Conn /\ (conn'.closing <=> (conn.closing \/ why # ""))
  BY DEF Serves, Conn
<1>2. ends' = IF why # "" /\ ~conn.closing THEN Append(ends, why) ELSE ends
  BY DEF Serves, Ends, RunsHandler
<1>3. CASE why # "" /\ ~conn.closing
  <2>1. Len(ends) = 0  BY <1>3 DEF EndsInv, EndsOnce
  <2>2. ends' = Append(ends, why)
    BY <1>2, <1>3
  <2>3. ends' \in Seq(Reasons) /\ Len(ends') = 1
    BY <2>1, <2>2 DEF EndsInv
  <2> QED  BY <1>1, <1>3, <2>3 DEF EndsInv, EndsOnce
<1>4. CASE ~(why # "" /\ ~conn.closing)
  <2>1. ends' = ends /\ (conn'.closing <=> conn.closing)
    BY <1>1, <1>2, <1>4
  <2> QED  BY <1>1, <2>1 DEF EndsInv, EndsOnce
<1> QED  BY <1>3, <1>4

LEMMA HandlesEnds ==
    ASSUME EndsInv, NEW k, Handles(k)
    PROVE  EndsInv'
<1> DEFINE sio == [conn EXCEPT !.sio = TRUE]
           ponged == [conn EXCEPT !.awaiting = FALSE]
<1>1. /\ conn \in Conn
      /\ sio \in Conn /\ sio.closing = conn.closing
      /\ ponged \in Conn /\ ponged.closing = conn.closing
  BY DEF EndsInv, Conn
<1>2. \E c \in Conn, q \in {<<>>, <<Bye>>, <<Message(Len(pushed) + 1)>>}, why \in Reasons :
          c.closing = conn.closing /\ Serves(c, q, why)
  BY <1>1 DEF Handles, Reasons
<1> QED  BY <1>2, ServesEnds

\* What neither ends the connection nor touches what says so.
LEMMA OthersEnd ==
    ASSUME EndsInv, conn' \in Conn, conn'.closing = conn.closing, ends' = ends
    PROVE  EndsInv'
BY DEF EndsInv, EndsOnce

LEMMA EndsStep ==
    ASSUME EndsInv, [TransportNext]_transportVars
    PROVE  EndsInv'
<1>0. conn \in Conn  BY DEF EndsInv
<1>1. CASE Polling
  <2>1. conn' = conn /\ ends' = ends
    BY <1>1 DEF Polling, PollArrives, PollWakes, PollClears, PollReturns
  <2> QED  BY <1>0, <2>1, OthersEnd
<1>2. CASE HeartbeatPings
  <2>1. [conn EXCEPT !.awaiting = TRUE] \in Conn
        /\ [conn EXCEPT !.awaiting = TRUE].closing = conn.closing
    BY <1>0 DEF Conn
  <2> QED  BY <1>2, <2>1, ServesEnds DEF HeartbeatPings, Reasons
<1>3. CASE HeartbeatChecks
  <2>1. CASE Serves(conn, <<>>, "ping timeout")  BY <1>0, <2>1, ServesEnds DEF Reasons
  <2>2. CASE conn' = conn /\ ends' = ends  BY <1>0, <2>2, OthersEnd
  <2> QED  BY <1>3, <2>1, <2>2 DEF HeartbeatChecks
<1>4. CASE Upgraded
  <2>1. conn' \in Conn /\ conn'.closing = conn.closing /\ ends' = ends
    BY <1>0, <1>4 DEF Upgraded, Conn
  <2> QED  BY <2>1, OthersEnd
<1>5. CASE WriterTurns \/ WireDelivers \/ SendPoll \/ Probe \/ SendUpgrade \/ Vanish \/ UNCHANGED transportVars
  <2>1. conn' = conn /\ ends' = ends
    BY <1>5 DEF WriterTurns, WireDelivers, SendPoll, Probe, SendUpgrade, Vanish, transportVars, server
  <2> QED  BY <1>0, <2>1, OthersEnd
<1>6. CASE WriteEnds \/ ReaderFails
  <2>1. conn' \in Conn /\ conn'.closing = conn.closing /\ ends' = ends
    BY <1>0, <1>6 DEF WriteEnds, ReaderFails, Conn
  <2> QED  BY <2>1, OthersEnd
<1>7. CASE WebSocketEnds
  BY <1>0, <1>7, ServesEnds DEF WebSocketEnds, Reasons
<1>8. ASSUME NEW k, Ingest(k) \/ Frame(k)
      PROVE  EndsInv'
  <2>1. CASE Handles(k)  BY <2>1, HandlesEnds
  <2>2. CASE Serves(conn, <<>>, "transport close")  BY <1>0, <2>2, ServesEnds DEF Reasons
  <2>3. CASE conn' = [conn EXCEPT !.wsStop = TRUE] /\ ends' = ends
    <3>1. conn' \in Conn /\ conn'.closing = conn.closing
      BY <1>0, <2>3 DEF Conn
    <3> QED  BY <2>3, <3>1, OthersEnd
  <2> QED  BY <1>8, <2>1, <2>2, <2>3 DEF Ingest, Frame
<1>9. CASE ClientSends \/ ClientPongs
  BY <1>9, <1>8 DEF ClientSends, ClientPongs
<1>10. CASE Emit  BY <1>0, <1>10, ServesEnds DEF Emit, Reasons
<1>11. CASE Disconnect  BY <1>0, <1>11, ServesEnds DEF Disconnect, Reasons
<1> QED
  BY <1>1, <1>2, <1>3, <1>4, <1>5, <1>6, <1>7, <1>9, <1>10, <1>11 DEF TransportNext, Heartbeat, WebSocket

\* Of all that may end a connection, in any order, one runs the disconnect handler
\* (do_disconnect's test of closing_).
THEOREM EndsOnceCorrect == TransportSpec => []EndsOnce
<1>1. TransportInit => EndsInv
  BY DEF TransportInit, EndsInv, EndsOnce, Conn
<1>2. EndsInv /\ [TransportNext]_transportVars => EndsInv'
  BY EndsStep
<1>3. EndsInv => EndsOnce
  BY DEF EndsInv
<1> QED  BY <1>1, <1>2, <1>3, PTL DEF TransportSpec

-----------------------------------------------------------------------------
(* A connection: packets come in order, and pings with them                 *)

Packets == {"message", "ping", "bye", "close", "noop"} \X Nat

PollStates == [at: {"none", "sent", "parked", "awake", "copied", "answer", "rearm"}, body: Seq(Packets)]
WriterStates == [at: {"off", "ready", "parked", "writing", "last", "ended"}, pkt: Packets]

TransportTypeOK ==
    /\ conn \in Conn /\ {outbox, wire, pushed, got} \subseteq Seq(Packets)
    /\ poll \in PollStates
    /\ writer \in WriterStates
    /\ ws \in {"none", "probed", "five", "run", "over"} /\ client \in {"open", "shut", "gone"}
    /\ {reader, patient, due, raced} \subseteq BOOLEAN /\ ends \in Seq(Reasons)

\* The poll of a patient client is over when the WebSocket begins; what waits, waits
\* for something to send.
ControlInv ==
    /\ conn.wsMode => ws \in {"run", "over"}
    /\ ws \in {"none", "probed", "five"} => wire = <<>> /\ writer.at = "off"
    /\ writer.at \in {"ready", "writing", "last", "parked"} => ws = "run"
    /\ ws = "run" => writer.at # "off"
    /\ ws = "over" => conn.closing
    /\ reader => ws = "run"
    /\ patient /\ ws \in {"five", "run", "over"} => poll.at = "none"
    /\ poll.at = "parked" \/ writer.at = "parked" => outbox = <<>>

\* What the client has, with what answers its poll, what is on the wire, what is being
\* written and what is queued, is what was pushed.
Agree(exactly, g, a, w, x, o, p) ==
    IF exactly THEN g \o (a \o w \o x \o o) = p
    ELSE /\ ToSet(g \o (a \o w \o x \o o)) = ToSet(p)
         /\ Len(g \o (a \o w \o x \o o)) = Len(p)

FlowInv ==
    client = "open" /\ ~raced /\ (ws = "run" => reader) /\ ws # "over" =>
        Agree(patient, got, Answering, Lasting(wire), Writing, Lasting(outbox), pushed)

\* A ping that is to be answered, is on its way one way or the other.
Travels(p) ==
    \/ p \in ToSet(outbox) \/ p \in ToSet(wire)
    \/ poll.at = "answer" /\ p \in ToSet(poll.body)
    \/ writer.at = "writing" /\ p = writer.pkt
Broken == ws = "run" /\ (~reader \/ writer.at = "ended")

PingInv ==
    conn.awaiting /\ ~conn.closing /\ client = "open" /\ ~raced => due \/ Travels(Ping) \/ Broken

TransportInv == TransportTypeOK /\ ControlInv /\ FlowInv /\ PingInv /\ LiveStays

USE DEF PollStates, WriterStates

\* Concatenation, as an operation on sequences of packets.
Cat(p, q) == p \o q

LEMMA CatMonoid ==
    ASSUME NEW T
    PROVE  /\ <<>> \in Seq(T)
           /\ \A p, q \in Seq(T) : Cat(p, q) \in Seq(T)
           /\ \A p, q, r \in Seq(T) : Cat(Cat(p, q), r) = Cat(p, Cat(q, r))
           /\ \A p \in Seq(T) : Cat(p, <<>>) = p /\ Cat(<<>>, p) = p
BY ConcatProperties, ConcatAssociative, ConcatEmptySeq DEF Cat

LEMMA CatSet ==
    ASSUME NEW T, NEW p \in Seq(T), NEW q \in Seq(T)
    PROVE  ToSet(Cat(p, q)) = ToSet(p) \cup ToSet(q) /\ Len(Cat(p, q)) = Len(p) + Len(q)
<1> DEFINE c == p \o q
<1>1. /\ c \in Seq(T) /\ Len(c) = Len(p) + Len(q) /\ Len(p) \in Nat /\ Len(q) \in Nat
      /\ \A i \in 1 .. Len(p) + Len(q) : c[i] = IF i <= Len(p) THEN p[i] ELSE q[i - Len(p)]
  BY ConcatProperties
<1>2. /\ ToSet(c) = {c[i] : i \in 1 .. Len(c)} /\ ToSet(p) = {p[i] : i \in 1 .. Len(p)}
      /\ ToSet(q) = {q[i] : i \in 1 .. Len(q)}
  BY <1>1 DEF ToSet
<1> HIDE DEF c
<1>3. ASSUME NEW x \in ToSet(c) PROVE x \in ToSet(p) \cup ToSet(q)
  <2>1. PICK i \in 1 .. Len(p) + Len(q) : x = c[i]  BY <1>1, <1>2, <1>3
  <2>2. CASE i <= Len(p)
    <3>1. i \in 1 .. Len(p) /\ x = p[i]  BY <1>1, <2>1, <2>2
    <3> QED  BY <1>2, <3>1
  <2>3. CASE ~(i <= Len(p))
    <3>1. i - Len(p) \in 1 .. Len(q) /\ x = q[i - Len(p)]  BY <1>1, <2>1, <2>3
    <3> QED  BY <1>2, <3>1
  <2> QED  BY <2>2, <2>3
<1>4. ASSUME NEW x \in ToSet(p) PROVE x \in ToSet(c)
  <2>1. PICK i \in 1 .. Len(p) : x = p[i]  BY <1>2, <1>4
  <2>2. i \in 1 .. Len(p) + Len(q) /\ c[i] = x  BY <1>1, <2>1
  <2> QED  BY <1>1, <1>2, <2>2
<1>5. ASSUME NEW x \in ToSet(q) PROVE x \in ToSet(c)
  <2>1. PICK i \in 1 .. Len(q) : x = q[i]  BY <1>2, <1>5
  <2>2. Len(p) + i \in 1 .. Len(p) + Len(q) /\ c[Len(p) + i] = x  BY <1>1, <2>1
  <2> QED  BY <1>1, <1>2, <2>2
<1>6. ToSet(c) = ToSet(p) \cup ToSet(q)  BY <1>3, <1>4, <1>5
<1> QED  BY <1>1, <1>6 DEF c, Cat

LEMMA CatToSet ==
    ASSUME NEW T, NEW p \in Seq(T), NEW q \in Seq(T)
    PROVE  ToSet(Cat(p, q)) = ToSet(p) \cup ToSet(q)
BY CatSet
LEMMA CatLen ==
    ASSUME NEW T, NEW p \in Seq(T), NEW q \in Seq(T)
    PROVE  Len(Cat(p, q)) = Len(p) + Len(q)
BY CatSet
LEMMA CatType ==
    ASSUME NEW T, NEW p \in Seq(T), NEW q \in Seq(T)
    PROVE  Cat(p, q) \in Seq(T)
BY CatMonoid

AllOf(g, a, w, x, o) == Cat(g, Cat(Cat(Cat(a, w), x), o))
LEMMA AgreeIs ==
    ASSUME NEW e, NEW g, NEW a, NEW w, NEW x, NEW o, NEW p
    PROVE  Agree(e, g, a, w, x, o, p) <=>
              IF e THEN AllOf(g, a, w, x, o) = p
              ELSE ToSet(AllOf(g, a, w, x, o)) = ToSet(p) /\ Len(AllOf(g, a, w, x, o)) = Len(p)
BY DEF Agree, AllOf, Cat

LEMMA AllOfType ==
    ASSUME NEW T, NEW g \in Seq(T), NEW a \in Seq(T), NEW w \in Seq(T), NEW x \in Seq(T), NEW o \in Seq(T)
    PROVE  AllOf(g, a, w, x, o) \in Seq(T)
<1>1. Cat(a, w) \in Seq(T)  BY CatType
<1>2. Cat(Cat(a, w), x) \in Seq(T)  BY <1>1, CatType
<1>3. Cat(Cat(Cat(a, w), x), o) \in Seq(T)  BY <1>2, CatType
<1> QED  BY <1>3, CatType DEF AllOf

LEMMA AllOfToSet ==
    ASSUME NEW T, NEW g \in Seq(T), NEW a \in Seq(T), NEW w \in Seq(T), NEW x \in Seq(T), NEW o \in Seq(T)
    PROVE  ToSet(AllOf(g, a, w, x, o)) = ToSet(g) \cup ToSet(a) \cup ToSet(w) \cup ToSet(x) \cup ToSet(o)
<1>1. Cat(a, w) \in Seq(T)  BY CatType
<1>2. Cat(Cat(a, w), x) \in Seq(T)  BY <1>1, CatType
<1>3. Cat(Cat(Cat(a, w), x), o) \in Seq(T)  BY <1>2, CatType
<1>4. ToSet(Cat(a, w)) = ToSet(a) \cup ToSet(w)  BY CatToSet
<1>5. ToSet(Cat(Cat(a, w), x)) = ToSet(Cat(a, w)) \cup ToSet(x)  BY <1>1, CatToSet
<1>6. ToSet(Cat(Cat(Cat(a, w), x), o)) = ToSet(Cat(Cat(a, w), x)) \cup ToSet(o)  BY <1>2, CatToSet
<1>7. ToSet(AllOf(g, a, w, x, o)) = ToSet(g) \cup ToSet(Cat(Cat(Cat(a, w), x), o))
  BY <1>3, CatToSet DEF AllOf
<1> QED  BY <1>4, <1>5, <1>6, <1>7

LEMMA AllOfLen ==
    ASSUME NEW T, NEW g \in Seq(T), NEW a \in Seq(T), NEW w \in Seq(T), NEW x \in Seq(T), NEW o \in Seq(T)
    PROVE  Len(AllOf(g, a, w, x, o)) = Len(g) + Len(a) + Len(w) + Len(x) + Len(o)
<1>1. Cat(a, w) \in Seq(T)  BY CatType
<1>2. Cat(Cat(a, w), x) \in Seq(T)  BY <1>1, CatType
<1>3. Cat(Cat(Cat(a, w), x), o) \in Seq(T)  BY <1>2, CatType
<1>4. Len(Cat(a, w)) = Len(a) + Len(w)  BY CatLen
<1>5. Len(Cat(Cat(a, w), x)) = Len(Cat(a, w)) + Len(x)  BY <1>1, CatLen
<1>6. Len(Cat(Cat(Cat(a, w), x), o)) = Len(Cat(Cat(a, w), x)) + Len(o)  BY <1>2, CatLen
<1>7. Len(AllOf(g, a, w, x, o)) = Len(g) + Len(Cat(Cat(Cat(a, w), x), o))
  BY <1>3, CatLen DEF AllOf
<1>8. Len(g) \in Nat /\ Len(a) \in Nat /\ Len(w) \in Nat /\ Len(x) \in Nat /\ Len(o) \in Nat  BY LenProperties
<1> QED  BY <1>4, <1>5, <1>6, <1>7, <1>8

\* How packets move keeps the agreement: they are pushed,
LEMMA AgreePushed ==
    ASSUME NEW T, NEW e \in BOOLEAN, NEW g \in Seq(T), NEW a \in Seq(T), NEW w \in Seq(T), NEW x \in Seq(T), NEW o \in Seq(T),
           NEW p \in Seq(T), NEW l \in Seq(T), Agree(e, g, a, w, x, o, p)
    PROVE  Agree(e, g, a, w, x, Cat(o, l), Cat(p, l))
<1> DEFINE b == AllOf(g, a, w, x, o)
           c == AllOf(g, a, w, x, Cat(o, l))
<1>1. IF e THEN b = p ELSE ToSet(b) = ToSet(p) /\ Len(b) = Len(p)  BY AgreeIs
<1>2. b \in Seq(T) /\ Cat(o, l) \in Seq(T)  BY AllOfType, CatType
<1>3. c = Cat(b, l)
  <2> DEFINE t == Cat(Cat(a, w), x)
  <2>1. t \in Seq(T)  BY CatMonoid
  <2> HIDE DEF t
  <2>2. Cat(t, o) \in Seq(T) /\ Cat(t, Cat(o, l)) = Cat(Cat(t, o), l)  BY <2>1, CatMonoid
  <2>3. Cat(g, Cat(Cat(t, o), l)) = Cat(Cat(g, Cat(t, o)), l)  BY <2>2, CatMonoid
  <2> QED  BY <2>2, <2>3 DEF t, AllOf
<1> HIDE DEF b, c
<1>4. /\ ToSet(Cat(b, l)) = ToSet(b) \cup ToSet(l) /\ Len(Cat(b, l)) = Len(b) + Len(l)
      /\ ToSet(Cat(p, l)) = ToSet(p) \cup ToSet(l) /\ Len(Cat(p, l)) = Len(p) + Len(l)
  <2>1. ToSet(Cat(b, l)) = ToSet(b) \cup ToSet(l)  BY <1>2, CatToSet
  <2>2. Len(Cat(b, l)) = Len(b) + Len(l)  BY <1>2, CatLen
  <2>3. ToSet(Cat(p, l)) = ToSet(p) \cup ToSet(l)  BY CatToSet
  <2>4. Len(Cat(p, l)) = Len(p) + Len(l)  BY CatLen
  <2> QED  BY <2>1, <2>2, <2>3, <2>4
<1>5. IF e THEN c = Cat(p, l) ELSE ToSet(c) = ToSet(Cat(p, l)) /\ Len(c) = Len(Cat(p, l))
  BY <1>1, <1>3, <1>4
<1> QED  BY <1>5, AgreeIs DEF c

\* a poll takes what is queued,
LEMMA AgreeTaken ==
    ASSUME NEW T, NEW e \in BOOLEAN, NEW g \in Seq(T), NEW w \in Seq(T), NEW x \in Seq(T), NEW o \in Seq(T),
           NEW p, Agree(e, g, <<>>, w, x, o, p), e => w = <<>> /\ x = <<>>
    PROVE  Agree(e, g, o, w, x, <<>>, p)
<1> DEFINE z == <<>>
           b == AllOf(g, z, w, x, o)
           c == AllOf(g, o, w, x, z)
<1>1. IF e THEN b = p ELSE ToSet(b) = ToSet(p) /\ Len(b) = Len(p)  BY AgreeIs
<1>2. e => b = c
  <2>1. Cat(<<>>, <<>>) = <<>> /\ Cat(<<>>, o) = o /\ Cat(o, <<>>) = o  BY CatMonoid
  <2> QED  BY <2>1 DEF AllOf
<1>3. z \in Seq(T)  BY EmptySeq
<1>4. ToSet(b) = ToSet(c) /\ Len(b) = Len(c)
  <2> HIDE DEF z
  <2>1. ToSet(b) = ToSet(g) \cup ToSet(z) \cup ToSet(w) \cup ToSet(x) \cup ToSet(o)  BY <1>3, AllOfToSet
  <2>2. Len(b) = Len(g) + Len(z) + Len(w) + Len(x) + Len(o)  BY <1>3, AllOfLen
  <2>3. ToSet(c) = ToSet(g) \cup ToSet(o) \cup ToSet(w) \cup ToSet(x) \cup ToSet(z)  BY <1>3, AllOfToSet
  <2>4. Len(c) = Len(g) + Len(o) + Len(w) + Len(x) + Len(z)  BY <1>3, AllOfLen
  <2>5. Len(g) \in Nat /\ Len(z) \in Nat /\ Len(w) \in Nat /\ Len(x) \in Nat /\ Len(o) \in Nat
    BY <1>3, LenProperties
  <2> HIDE DEF b, c
  <2> QED  BY <2>1, <2>2, <2>3, <2>4, <2>5
<1> HIDE DEF b, c
<1>5. IF e THEN c = p ELSE ToSet(c) = ToSet(p) /\ Len(c) = Len(p)  BY <1>1, <1>2, <1>4
<1> QED  BY <1>5, AgreeIs DEF c

\* its answer comes,
LEMMA AgreeAnswered ==
    ASSUME NEW T, NEW e \in BOOLEAN, NEW g \in Seq(T), NEW a \in Seq(T), NEW w \in Seq(T), NEW x \in Seq(T), NEW o \in Seq(T),
           NEW p, Agree(e, g, a, w, x, o, p)
    PROVE  Agree(e, Cat(g, a), <<>>, w, x, o, p)
<1>1. AllOf(g, a, w, x, o) = AllOf(Cat(g, a), <<>>, w, x, o)
  <2>1. Cat(a, w) \in Seq(T) /\ Cat(Cat(a, w), x) \in Seq(T) /\ Cat(w, x) \in Seq(T) /\ Cat(Cat(w, x), o) \in Seq(T)
    BY CatMonoid
  <2>2. Cat(Cat(Cat(a, w), x), o) = Cat(a, Cat(Cat(w, x), o))
    BY <2>1, CatMonoid
  <2>3. Cat(g, Cat(a, Cat(Cat(w, x), o))) = Cat(Cat(g, a), Cat(Cat(w, x), o))
    BY <2>1, CatMonoid
  <2>4. Cat(<<>>, w) = w  BY CatMonoid
  <2> QED  BY <2>2, <2>3, <2>4 DEF AllOf
<1> QED  BY <1>1, AgreeIs

\* a packet comes from the wire,
LEMMA AgreeDelivered ==
    ASSUME NEW T, NEW e \in BOOLEAN, NEW g \in Seq(T), NEW a \in Seq(T), NEW h \in Seq(T), NEW w \in Seq(T), NEW x \in Seq(T),
           NEW o \in Seq(T), NEW p, Agree(e, g, a, Cat(h, w), x, o, p), e => a = <<>>
    PROVE  Agree(e, Cat(g, h), a, w, x, o, p)
<1> DEFINE b == AllOf(g, a, Cat(h, w), x, o)
           c == AllOf(Cat(g, h), a, w, x, o)
<1>1. IF e THEN b = p ELSE ToSet(b) = ToSet(p) /\ Len(b) = Len(p)  BY AgreeIs
<1>2. e => b = c
  <2> SUFFICES ASSUME e PROVE b = c  OBVIOUS
  <2>1. Cat(a, w) = w /\ Cat(a, Cat(h, w)) = Cat(h, w)  BY CatMonoid
  <2>2. Cat(h, w) \in Seq(T) /\ Cat(w, x) \in Seq(T) /\ Cat(Cat(w, x), o) \in Seq(T)  BY CatMonoid
  <2>3. Cat(Cat(Cat(h, w), x), o) = Cat(h, Cat(Cat(w, x), o))  BY <2>2, CatMonoid
  <2>4. Cat(g, Cat(h, Cat(Cat(w, x), o))) = Cat(Cat(g, h), Cat(Cat(w, x), o))  BY <2>2, CatMonoid
  <2> QED  BY <2>1, <2>3, <2>4 DEF AllOf
<1>3. ToSet(b) = ToSet(c) /\ Len(b) = Len(c)
  <2>0. Cat(h, w) \in Seq(T) /\ Cat(g, h) \in Seq(T)  BY CatMonoid
  <2>1. /\ ToSet(b) = ToSet(g) \cup ToSet(a) \cup ToSet(Cat(h, w)) \cup ToSet(x) \cup ToSet(o)
        /\ Len(b) = Len(g) + Len(a) + Len(Cat(h, w)) + Len(x) + Len(o)
    <3> DEFINE v == Cat(h, w)
    <3>0. v \in Seq(T) /\ b = AllOf(g, a, v, x, o)  BY <2>0
    <3> HIDE DEF v, b
    <3>1. ToSet(AllOf(g, a, v, x, o)) = ToSet(g) \cup ToSet(a) \cup ToSet(v) \cup ToSet(x) \cup ToSet(o)
      BY <3>0, AllOfToSet
    <3>2. Len(AllOf(g, a, v, x, o)) = Len(g) + Len(a) + Len(v) + Len(x) + Len(o)  BY <3>0, AllOfLen
    <3> QED  BY <3>0, <3>1, <3>2 DEF v
  <2>2. /\ ToSet(c) = ToSet(Cat(g, h)) \cup ToSet(a) \cup ToSet(w) \cup ToSet(x) \cup ToSet(o)
        /\ Len(c) = Len(Cat(g, h)) + Len(a) + Len(w) + Len(x) + Len(o)
    <3> DEFINE v == Cat(g, h)
    <3>0. v \in Seq(T) /\ c = AllOf(v, a, w, x, o)  BY <2>0
    <3> HIDE DEF v, c
    <3>1. ToSet(AllOf(v, a, w, x, o)) = ToSet(v) \cup ToSet(a) \cup ToSet(w) \cup ToSet(x) \cup ToSet(o)
      BY <3>0, AllOfToSet
    <3>2. Len(AllOf(v, a, w, x, o)) = Len(v) + Len(a) + Len(w) + Len(x) + Len(o)  BY <3>0, AllOfLen
    <3> QED  BY <3>0, <3>1, <3>2 DEF v
  <2>3. /\ ToSet(Cat(h, w)) = ToSet(h) \cup ToSet(w) /\ Len(Cat(h, w)) = Len(h) + Len(w)
        /\ ToSet(Cat(g, h)) = ToSet(g) \cup ToSet(h) /\ Len(Cat(g, h)) = Len(g) + Len(h)
    <3>1. ToSet(Cat(h, w)) = ToSet(h) \cup ToSet(w)  BY CatToSet
    <3>2. Len(Cat(h, w)) = Len(h) + Len(w)  BY CatLen
    <3>3. ToSet(Cat(g, h)) = ToSet(g) \cup ToSet(h)  BY CatToSet
    <3>4. Len(Cat(g, h)) = Len(g) + Len(h)  BY CatLen
    <3> QED  BY <3>1, <3>2, <3>3, <3>4
  <2>4. Len(g) \in Nat /\ Len(a) \in Nat /\ Len(h) \in Nat /\ Len(w) \in Nat /\ Len(x) \in Nat /\ Len(o) \in Nat
    BY LenProperties
  <2> HIDE DEF b, c
  <2> QED  BY <2>1, <2>2, <2>3, <2>4
<1> HIDE DEF b, c
<1>4. IF e THEN c = p ELSE ToSet(c) = ToSet(p) /\ Len(c) = Len(p)  BY <1>1, <1>2, <1>3
<1> QED  BY <1>4, AgreeIs DEF c

\* the writer takes one,
LEMMA AgreeTurned ==
    ASSUME NEW T, NEW e \in BOOLEAN, NEW g \in Seq(T), NEW a \in Seq(T), NEW w \in Seq(T), NEW h \in Seq(T), NEW o \in Seq(T),
           NEW p, Agree(e, g, a, w, <<>>, Cat(h, o), p)
    PROVE  Agree(e, g, a, w, h, o, p)
<1>1. AllOf(g, a, w, <<>>, Cat(h, o)) = AllOf(g, a, w, h, o)
  <2>1. Cat(a, w) \in Seq(T) /\ Cat(Cat(a, w), <<>>) = Cat(a, w)  BY CatMonoid
  <2>2. Cat(Cat(a, w), Cat(h, o)) = Cat(Cat(Cat(a, w), h), o)  BY <2>1, CatMonoid
  <2> QED  BY <2>1, <2>2 DEF AllOf
<1> QED  BY <1>1, AgreeIs

\* and puts it on the wire.
LEMMA AgreeWritten ==
    ASSUME NEW T, NEW e \in BOOLEAN, NEW g \in Seq(T), NEW a \in Seq(T), NEW w \in Seq(T), NEW x \in Seq(T), NEW o \in Seq(T),
           NEW p, Agree(e, g, a, w, x, o, p)
    PROVE  Agree(e, g, a, Cat(w, x), <<>>, o, p)
<1>1. AllOf(g, a, w, x, o) = AllOf(g, a, Cat(w, x), <<>>, o)
  <2>1. Cat(a, Cat(w, x)) = Cat(Cat(a, w), x) /\ Cat(Cat(a, w), x) \in Seq(T)  BY CatMonoid
  <2>2. Cat(Cat(Cat(a, w), x), <<>>) = Cat(Cat(a, w), x)  BY <2>1, CatMonoid
  <2> QED  BY <2>1, <2>2 DEF AllOf
<1> QED  BY <1>1, AgreeIs

\* What is not counted among the packets a client gets: pings, noops and closes.
LEMMA PacketTypes ==
    /\ Ping \in Packets /\ Bye \in Packets /\ Close \in Packets /\ Noop \in Packets
    /\ \A n \in Nat : Message(n) \in Packets
<1>1. Ping \in Packets  BY DEF Packets, Ping
<1>2. Bye \in Packets  BY DEF Packets, Bye
<1>3. Close \in Packets  BY DEF Packets, Close
<1>4. Noop \in Packets  BY DEF Packets, Noop
<1>5. ASSUME NEW n \in Nat PROVE Message(n) \in Packets  BY DEF Packets, Message
<1> QED  BY <1>1, <1>2, <1>3, <1>4, <1>5

LEMMA LastingType ==
    ASSUME NEW q \in Seq(Packets)
    PROVE  Lasting(q) \in Seq(Packets)
BY WithoutType DEF Lasting

LEMMA LastingEmpty == Lasting(<<>>) = <<>>
BY WithoutEmpty DEF Lasting

LEMMA LastingCat ==
    ASSUME NEW p \in Seq(Packets), NEW q \in Seq(Packets)
    PROVE  Lasting(Cat(p, q)) = Cat(Lasting(p), Lasting(q))
BY WithoutConcat DEF Lasting, Cat

LEMMA LastingNone ==
    ASSUME NEW x \in {Ping, Noop, Close}
    PROVE  Lasting(<<x>>) = <<>>
<1>1. x \in Packets  BY PacketTypes
<1>2. <<x>> = Append(<<>>, x) /\ <<>> \in Seq(Packets)  BY <1>1
<1>3. Without(Append(<<>>, x), {Ping, Noop, Close}) = Without(<<>>, {Ping, Noop, Close})
  <2> DEFINE S == {Ping, Noop, Close}
             e == <<>>
  <2>1. x \in S /\ e \in Seq(Packets)  BY <1>2
  <2> HIDE DEF S, e
  <2>2. Without(Append(e, x), S) = Without(e, S)  BY <1>1, <2>1, WithoutAppend
  <2> QED  BY <2>2 DEF S, e
<1> QED  BY <1>2, <1>3, WithoutEmpty DEF Lasting

LEMMA HeadCat ==
    ASSUME NEW q \in Seq(Packets), q # <<>>
    PROVE  /\ Head(q) \in Packets /\ Tail(q) \in Seq(Packets) /\ <<Head(q)>> \in Seq(Packets)
           /\ q = Cat(<<Head(q)>>, Tail(q))
           /\ Lasting(q) = Cat(Lasting(<<Head(q)>>), Lasting(Tail(q)))
           /\ ToSet(q) = {Head(q)} \cup ToSet(Tail(q))
<1>1. Head(q) \in Packets /\ Tail(q) \in Seq(Packets) /\ <<Head(q)>> \in Seq(Packets)  BY HeadTailProperties
<1>2. q = Cat(<<Head(q)>>, Tail(q))  BY <1>1 DEF Cat
<1>3. ToSet(<<Head(q)>>) = {Head(q)}  BY DEF ToSet
<1> DEFINE y == <<Head(q)>>
           z == Tail(q)
<1>4. ToSet(Cat(y, z)) = ToSet(y) \cup ToSet(z) /\ Lasting(Cat(y, z)) = Cat(Lasting(y), Lasting(z))
  <2>1. y \in Seq(Packets) /\ z \in Seq(Packets)  BY <1>1
  <2> HIDE DEF y, z
  <2>2. ToSet(Cat(y, z)) = ToSet(y) \cup ToSet(z)  BY <2>1, CatToSet
  <2>3. Lasting(Cat(y, z)) = Cat(Lasting(y), Lasting(z))  BY <2>1, LastingCat
  <2> QED  BY <2>2, <2>3
<1> QED  BY <1>1, <1>2, <1>3, <1>4

LEMMA AppendCat ==
    ASSUME NEW q \in Seq(Packets), NEW x \in Packets
    PROVE  /\ Append(q, x) \in Seq(Packets)
           /\ Lasting(Append(q, x)) = Cat(Lasting(q), Lasting(<<x>>))
           /\ ToSet(Append(q, x)) = ToSet(q) \cup {x}
<1>1. <<x>> \in Seq(Packets) /\ Append(q, x) = Cat(q, <<x>>) /\ Append(q, x) \in Seq(Packets)  BY DEF Cat
<1>2. ToSet(<<x>>) = {x}  BY DEF ToSet
<1> DEFINE y == <<x>>
<1>3. ToSet(Cat(q, y)) = ToSet(q) \cup ToSet(y) /\ Lasting(Cat(q, y)) = Cat(Lasting(q), Lasting(y))
  <2>1. y \in Seq(Packets)  BY <1>1
  <2> HIDE DEF y
  <2>2. ToSet(Cat(q, y)) = ToSet(q) \cup ToSet(y)  BY <2>1, CatToSet
  <2>3. Lasting(Cat(q, y)) = Cat(Lasting(q), Lasting(y))  BY <2>1, LastingCat
  <2> QED  BY <2>2, <2>3
<1> QED  BY <1>1, <1>2, <1>3

\* What is on its way, typed.
LEMMA FlowTypes ==
    ASSUME TransportTypeOK
    PROVE  /\ got \in Seq(Packets) /\ pushed \in Seq(Packets) /\ outbox \in Seq(Packets) /\ wire \in Seq(Packets)
           /\ Answering \in Seq(Packets) /\ Lasting(wire) \in Seq(Packets) /\ Writing \in Seq(Packets)
           /\ Lasting(outbox) \in Seq(Packets)
<1>1. /\ got \in Seq(Packets) /\ pushed \in Seq(Packets) /\ outbox \in Seq(Packets) /\ wire \in Seq(Packets)
      /\ poll.body \in Seq(Packets) /\ writer.pkt \in Packets
  BY DEF TransportTypeOK
<1>2. <<writer.pkt>> \in Seq(Packets) /\ <<>> \in Seq(Packets)  BY <1>1
<1> QED  BY <1>1, <1>2, LastingType DEF Answering, Writing

LEMMA WokenTypes ==
    ASSUME TransportTypeOK
    PROVE  /\ WokenPoll \in PollStates
           /\ WokenWriter \in WriterStates
           /\ WokenPoll.body = poll.body /\ WokenPoll.at = IF poll.at = "parked" THEN "awake" ELSE poll.at
           /\ WokenWriter.pkt = writer.pkt /\ WokenWriter.at = IF writer.at = "parked" THEN "ready" ELSE writer.at
BY DEF TransportTypeOK, WokenPoll, WokenWriter

LEMMA OutboxPushed ==
    ASSUME TransportTypeOK, NEW q \in Seq(Packets)
    PROVE  ToSet(Cat(outbox, q)) = ToSet(outbox) \cup ToSet(q)
BY FlowTypes, CatToSet

\* Whatever pushes packets, wakes who waits for them or ends the connection.
LEMMA PushInv ==
    ASSUME TransportInv, NEW q \in Seq(Packets),
           conn' \in Conn, conn'.wsMode = conn.wsMode, conn.closing => conn'.closing,
           conn'.awaiting => conn.awaiting \/ Ping \in ToSet(q),
           due' \in BOOLEAN, due => due' \/ ~conn'.awaiting,
           outbox' = Cat(outbox, q), pushed' = Cat(pushed, Lasting(q)),
           poll' = poll \/ poll' = WokenPoll, writer' = writer \/ writer' = WokenWriter,
           q = <<>> \/ (poll' = WokenPoll /\ writer' = WokenWriter),
           ends' \in Seq(Reasons),
           "ping timeout" \in ToSet(ends') => "ping timeout" \in ToSet(ends) \/ client # "open" \/ raced,
           UNCHANGED <<ws, wire, got, patient, raced>>,
           reader' \in BOOLEAN, reader' => reader,
           client' \in {"open", "shut", "gone"}, client' = "open" => client = "open"
    PROVE  TransportInv'
<1>0. TransportTypeOK /\ ControlInv /\ FlowInv /\ PingInv /\ LiveStays  BY DEF TransportInv
<1>1. TransportTypeOK'
  <2>1. Lasting(q) \in Seq(Packets)  BY LastingType
  <2>2. outbox' \in Seq(Packets) /\ pushed' \in Seq(Packets)  BY <1>0, <2>1, FlowTypes, CatType
  <2> QED  BY <1>0, <2>2, WokenTypes DEF TransportTypeOK
<1>2. /\ poll'.body = poll.body /\ (poll'.at = "none" <=> poll.at = "none") /\ (poll'.at = "answer" <=> poll.at = "answer")
      /\ (poll'.at = "parked" => poll.at = "parked" /\ q = <<>>)
      /\ writer'.pkt = writer.pkt /\ (writer'.at \in {"writing", "last"} <=> writer.at \in {"writing", "last"})
      /\ (writer'.at = "writing" <=> writer.at = "writing")
      /\ (writer'.at = "off" <=> writer.at = "off") /\ (writer'.at = "ended" <=> writer.at = "ended")
      /\ (writer'.at \in {"ready", "writing", "last", "parked"} <=> writer.at \in {"ready", "writing", "last", "parked"})
      /\ (writer'.at = "parked" => writer.at = "parked" /\ q = <<>>)
  BY <1>0, WokenTypes
<1>3. ControlInv'
  <2>1. ASSUME q = <<>> PROVE outbox' = outbox
    <3>1. outbox' = Cat(outbox, <<>>) /\ outbox \in Seq(Packets)  BY <1>0, <2>1, FlowTypes
    <3> QED  BY <3>1, CatMonoid
  <2> QED  BY <1>0, <1>2, <2>1 DEF ControlInv
<1>4. FlowInv'
  <2> SUFFICES ASSUME client' = "open", ~raced, ws = "run" => reader', ws # "over"
               PROVE  Agree(patient, got, Answering', Lasting(wire), Writing', Lasting(outbox'), pushed')
    BY DEF FlowInv
  <2>1. Agree(patient, got, Answering, Lasting(wire), Writing, Lasting(outbox), pushed)
    BY <1>0 DEF FlowInv
  <2>2. Answering' = Answering /\ Writing' = Writing
    BY <1>2 DEF Answering, Writing
  <2>3. Lasting(outbox') = Cat(Lasting(outbox), Lasting(q))
    BY <1>0, FlowTypes, LastingCat
  <2>4. patient \in BOOLEAN  BY <1>0 DEF TransportTypeOK
  <2>5. Lasting(q) \in Seq(Packets)  BY LastingType
  <2>6. Agree(patient, got, Answering, Lasting(wire), Writing, Cat(Lasting(outbox), Lasting(q)), Cat(pushed, Lasting(q)))
    BY <1>0, <2>1, <2>4, <2>5, FlowTypes, AgreePushed
  <2> QED  BY <2>2, <2>3, <2>6
<1>5. PingInv'
  <2> SUFFICES ASSUME conn'.awaiting, ~conn'.closing, client' = "open", ~raced
               PROVE  due' \/ Travels(Ping)' \/ Broken'
    BY DEF PingInv
  <2>1. ToSet(outbox') = ToSet(outbox) \cup ToSet(q)  BY <1>0, OutboxPushed
  <2>2. CASE Ping \in ToSet(q)
    BY <2>1, <2>2 DEF Travels
  <2>3. CASE due \/ Travels(Ping) \/ Broken
    <3>1. Travels(Ping) => Travels(Ping)'  BY <1>2, <2>1 DEF Travels
    <3>2. Broken => Broken'  BY <1>2 DEF Broken
    <3> QED  BY <2>3, <3>1, <3>2
  <2> QED  BY <1>0, <2>2, <2>3 DEF PingInv
<1>6. LiveStays'
  BY <1>0 DEF LiveStays
<1> QED  BY <1>1, <1>3, <1>4, <1>5, <1>6 DEF TransportInv

LEMMA ReasonGiven ==
    ASSUME NEW e \in Seq(Reasons), NEW why \in Reasons
    PROVE  Append(e, why) \in Seq(Reasons) /\ ToSet(Append(e, why)) = ToSet(e) \cup {why}
BY ToSetAppend, AppendProperties

\* push_locked, with what ends the connection.
LEMMA ServesInv ==
    ASSUME TransportInv, NEW q \in Seq(Packets), NEW c \in Conn, NEW why \in Reasons, Serves(c, q, why),
           c.wsMode = conn.wsMode, c.closing = conn.closing,
           c.awaiting => conn.awaiting \/ Ping \in ToSet(q),
           due' \in BOOLEAN, due => due' \/ ~c.awaiting,
           why = "ping timeout" => client # "open" \/ raced,
           UNCHANGED <<ws, wire, got, patient, raced>>,
           reader' \in BOOLEAN, reader' => reader,
           client' \in {"open", "shut", "gone"}, client' = "open" => client = "open"
    PROVE  TransportInv'
<1>0. ends \in Seq(Reasons)  BY DEF TransportInv, TransportTypeOK
<1>1. /\ conn' \in Conn /\ conn'.wsMode = conn.wsMode /\ conn'.awaiting = c.awaiting
      /\ conn.closing => conn'.closing
  BY DEF Serves, Conn
<1>2. outbox' = Cat(outbox, q) /\ pushed' = Cat(pushed, Lasting(q))
  BY DEF Serves, Pushes, Cat
<1>3. /\ poll' = poll \/ poll' = WokenPoll
      /\ writer' = writer \/ writer' = WokenWriter
      /\ q = <<>> \/ (poll' = WokenPoll /\ writer' = WokenWriter)
  BY DEF Serves, Expires
<1>4. ends' = ends \/ ends' = Append(ends, why)
  BY DEF Serves, Ends
<1>a. Append(ends, why) \in Seq(Reasons) /\ ToSet(Append(ends, why)) = ToSet(ends) \cup {why}
  BY <1>0, ReasonGiven
<1>5. ends' \in Seq(Reasons)  BY <1>0, <1>4, <1>a
<1>6. ToSet(ends') = ToSet(ends) \/ ToSet(ends') = ToSet(ends) \cup {why}
  BY <1>4, <1>a
<1>7. "ping timeout" \in ToSet(ends') => "ping timeout" \in ToSet(ends) \/ client # "open" \/ raced
  BY <1>6
<1> QED  BY <1>1, <1>2, <1>3, <1>5, <1>7, PushInv

\* What pushes nothing.
LEMMA StillInv ==
    ASSUME TransportInv,
           conn' \in Conn, conn'.wsMode = conn.wsMode, conn'.closing = conn.closing, conn'.awaiting = conn.awaiting,
           UNCHANGED <<outbox, pushed, ends, due>>,
           poll' = poll \/ poll' = WokenPoll, writer' = writer \/ writer' = WokenWriter,
           UNCHANGED <<ws, wire, got, patient, raced>>,
           reader' \in BOOLEAN, reader' => reader,
           client' \in {"open", "shut", "gone"}, client' = "open" => client = "open"
    PROVE  TransportInv'
<1> DEFINE q == <<>>
<1>1. TransportTypeOK  BY DEF TransportInv
<1>2. q \in Seq(Packets) /\ q = <<>>  OBVIOUS
<1>3. Cat(outbox, q) = outbox /\ Cat(pushed, q) = pushed  BY <1>1, FlowTypes, CatMonoid
<1>4. Lasting(q) = q  BY LastingEmpty
<1>5. ends \in Seq(Reasons) /\ due \in BOOLEAN  BY <1>1 DEF TransportTypeOK
<1> HIDE DEF q
<1> QED  BY <1>2, <1>3, <1>4, <1>5, PushInv

LEMMA HandlesInv ==
    ASSUME TransportInv, NEW k, Handles(k),
           due' \in BOOLEAN, due => due' \/ k = "pong",
           UNCHANGED <<ws, wire, got, patient, raced>>,
           reader' \in BOOLEAN, reader' => reader,
           client' \in {"open", "shut", "gone"}, client' = "open" => client = "open"
    PROVE  TransportInv'
<1>1. conn \in Conn /\ pushed \in Seq(Packets)  BY FlowTypes DEF TransportInv, TransportTypeOK
<1>2. /\ [conn EXCEPT !.sio = TRUE] \in Conn /\ [conn EXCEPT !.awaiting = FALSE] \in Conn
      /\ [conn EXCEPT !.sio = TRUE].wsMode = conn.wsMode /\ [conn EXCEPT !.awaiting = FALSE].wsMode = conn.wsMode
      /\ [conn EXCEPT !.sio = TRUE].closing = conn.closing /\ [conn EXCEPT !.awaiting = FALSE].closing = conn.closing
      /\ [conn EXCEPT !.sio = TRUE].awaiting = conn.awaiting /\ ~[conn EXCEPT !.awaiting = FALSE].awaiting
  BY <1>1 DEF Conn
<1>3. Message(Len(pushed) + 1) \in Packets /\ Bye \in Packets  BY <1>1, PacketTypes
<1>4. <<Message(Len(pushed) + 1)>> \in Seq(Packets) /\ <<Bye>> \in Seq(Packets) /\ <<>> \in Seq(Packets)  BY <1>3
<1>5. CASE k = "connect" /\ Serves([conn EXCEPT !.sio = TRUE], <<Message(Len(pushed) + 1)>>, "")
  BY <1>2, <1>4, <1>5, ServesInv DEF Reasons
<1>6. CASE k = "event" /\ Serves(conn, <<>>, "")
  BY <1>1, <1>4, <1>6, ServesInv DEF Reasons
<1>7. CASE k = "flood" /\ Serves(conn, <<Bye>>, "rate limited")
  BY <1>1, <1>4, <1>7, ServesInv DEF Reasons
<1>8. CASE k = "leave" /\ Serves(conn, <<>>, "client namespace disconnect")
  BY <1>1, <1>4, <1>8, ServesInv DEF Reasons
<1>9. CASE k = "pong" /\ Serves([conn EXCEPT !.awaiting = FALSE], <<>>, "")
  BY <1>2, <1>4, <1>9, ServesInv DEF Reasons
<1> QED  BY <1>5, <1>6, <1>7, <1>8, <1>9 DEF Handles

\* A request, or a frame.
LEMMA RequestInv ==
    ASSUME TransportInv, NEW k, Ingest(k) \/ Frame(k),
           due' = due \/ (k = "pong" /\ due' = FALSE),
           client' \in {"open", "shut", "gone"}, client' = "open" => client = "open"
    PROVE  TransportInv'
<1>1. conn \in Conn /\ reader \in BOOLEAN /\ due \in BOOLEAN
  BY DEF TransportInv, TransportTypeOK
<1>a. due' \in BOOLEAN /\ (due => due' \/ k = "pong")
  BY <1>1
<1>2. UNCHANGED <<ws, wire, got, patient, raced>>  BY DEF Ingest, Frame
<1>3. CASE Ingest(k)
  <2>1. reader' = reader  BY <1>3 DEF Ingest
  <2>2. CASE Handles(k)  BY <1>1, <1>a, <1>2, <2>1, <2>2, HandlesInv
  <2>3. CASE k = "close" /\ Serves(conn, <<>>, "transport close")
    <3>1. <<>> \in Seq(Packets)  OBVIOUS
    <3> QED  BY <1>1, <1>a, <1>2, <2>1, <2>3, <3>1, ServesInv DEF Reasons
  <2> QED  BY <1>3, <2>2, <2>3 DEF Ingest
<1>4. CASE Frame(k) /\ k # "close"
  <2>1. Handles(k) /\ reader /\ reader' \in BOOLEAN  BY <1>4 DEF Frame
  <2> QED  BY <1>1, <1>a, <1>2, <2>1, HandlesInv
<1>5. CASE Frame(k) /\ k = "close"
  <2>1. /\ conn' = [conn EXCEPT !.wsStop = TRUE] /\ reader' = FALSE
        /\ UNCHANGED <<outbox, pushed, ends>> /\ poll' = WokenPoll /\ writer' = WokenWriter
    BY <1>5 DEF Frame, Expires
  <2>2. conn' \in Conn /\ conn'.wsMode = conn.wsMode /\ conn'.closing = conn.closing /\ conn'.awaiting = conn.awaiting
    BY <1>1, <2>1 DEF Conn
  <2>3. due' = due  BY <1>5
  <2> QED  BY <1>2, <2>1, <2>2, <2>3, StillInv
<1> QED  BY <1>3, <1>4, <1>5

\* A poll finds its answer: it takes the outbox, waits, or is turned away.
LEMMA PollTakesInv ==
    ASSUME TransportInv, poll.at \in {"sent", "copied"},
           poll' = [at |-> "answer", body |-> outbox], outbox' = <<>>, raced' \in BOOLEAN, raced => raced',
           UNCHANGED <<conn, writer, hb, reader, ws, wire, client, patient, due, pushed, got, ends>>
    PROVE  TransportInv'
<1>0. TransportTypeOK /\ ControlInv /\ FlowInv /\ PingInv /\ LiveStays  BY DEF TransportInv
<1>1. outbox \in Seq(Packets) /\ <<>> \in Seq(Packets)  BY <1>0, FlowTypes
<1>2. poll'.at = "answer" /\ poll'.body = outbox
      /\ poll' \in PollStates
  BY <1>1
<1>3. TransportTypeOK'  BY <1>0, <1>1, <1>2 DEF TransportTypeOK
<1>4. ControlInv'  BY <1>0, <1>2 DEF ControlInv
<1>5. FlowInv'
  <2> SUFFICES ASSUME client = "open", ~raced', ws = "run" => reader, ws # "over"
               PROVE  Agree(patient, got, Answering', Lasting(wire), Writing', Lasting(outbox'), pushed)
    BY DEF FlowInv
  <2>1. Answering = <<>> /\ Answering' = Lasting(outbox) /\ Writing' = Writing /\ Lasting(outbox') = <<>>
    BY <1>2, LastingEmpty DEF Answering, Writing
  <2>2. Agree(patient, got, <<>>, Lasting(wire), Writing, Lasting(outbox), pushed)
    BY <1>0, <2>1 DEF FlowInv
  <2>3. patient => Lasting(wire) = <<>> /\ Writing = <<>>
    <3>1. patient => ws \in {"none", "probed"}
      BY <1>0 DEF ControlInv, TransportTypeOK
    <3>2. patient => wire = <<>> /\ writer.at = "off"
      BY <1>0, <3>1 DEF ControlInv
    <3> QED  BY <3>2, LastingEmpty DEF Writing
  <2>4. patient \in BOOLEAN  BY <1>0 DEF TransportTypeOK
  <2>5. Agree(patient, got, Lasting(outbox), Lasting(wire), Writing, <<>>, pushed)
    BY <1>0, <2>2, <2>3, <2>4, FlowTypes, AgreeTaken
  <2> QED  BY <2>1, <2>5
<1>6. PingInv'
  <2>1. Travels(Ping) => Travels(Ping)'  BY <1>2 DEF Travels
  <2> QED  BY <1>0, <2>1 DEF PingInv, Broken
<1>7. LiveStays'  BY <1>0 DEF LiveStays
<1> QED  BY <1>3, <1>4, <1>5, <1>6, <1>7 DEF TransportInv

LEMMA PollMovesInv ==
    ASSUME TransportInv, poll.at # "answer",
           poll' \in PollStates,
           Answering' = <<>>,
           poll'.at = "parked" => outbox = <<>>, writer' \in {writer, WokenWriter},
           patient /\ ws \in {"five", "run", "over"} => poll'.at = "none",
           UNCHANGED <<conn, outbox, hb, reader, ws, wire, client, patient, due, pushed, got, ends, raced>>
    PROVE  TransportInv'
<1>0. TransportTypeOK /\ ControlInv /\ FlowInv /\ PingInv /\ LiveStays  BY DEF TransportInv
<1>1. /\ writer'.pkt = writer.pkt /\ (writer'.at \in {"writing", "last"} <=> writer.at \in {"writing", "last"})
      /\ (writer'.at = "writing" <=> writer.at = "writing")
      /\ (writer'.at = "off" <=> writer.at = "off") /\ (writer'.at = "ended" <=> writer.at = "ended")
      /\ (writer'.at \in {"ready", "writing", "last", "parked"} <=> writer.at \in {"ready", "writing", "last", "parked"})
      /\ (writer'.at = "parked" => writer.at = "parked")
  BY <1>0, WokenTypes
<1>2. TransportTypeOK'  BY <1>0, WokenTypes DEF TransportTypeOK
<1>3. ControlInv'  BY <1>0, <1>1 DEF ControlInv
<1>4. FlowInv'
  <2>1. Answering' = Answering /\ Writing' = Writing  BY <1>1 DEF Answering, Writing
  <2> QED  BY <1>0, <2>1 DEF FlowInv
<1>5. PingInv'
  <2>1. Travels(Ping) => Travels(Ping)'  BY <1>1 DEF Travels
  <2>2. Broken => Broken'  BY <1>1 DEF Broken
  <2> QED  BY <1>0, <2>1, <2>2 DEF PingInv
<1>6. LiveStays'  BY <1>0 DEF LiveStays
<1> QED  BY <1>2, <1>3, <1>4, <1>5, <1>6 DEF TransportInv

\* What turns a poll away carries nothing that lasts.
LEMMA TurnedAway ==
    ASSUME NEW x \in {Noop, Close}, poll' = [at |-> "answer", body |-> <<x>>]
    PROVE  /\ Answering' = <<>> /\ poll'.at = "answer" /\ poll'.body = <<x>>
           /\ poll' \in PollStates
<1>1. x \in Packets  BY PacketTypes
<1>2. <<x>> \in Seq(Packets)  BY <1>1
<1>3. Lasting(<<x>>) = <<>>  BY LastingNone
<1>4. poll'.at = "answer" /\ poll'.body = <<x>>  OBVIOUS
<1> QED  BY <1>2, <1>3, <1>4 DEF Answering

LEMMA PollArrivesInv ==
    ASSUME TransportInv, PollArrives
    PROVE  TransportInv'
<1>0. TransportTypeOK /\ ControlInv  BY DEF TransportInv
<1>1. poll.at = "sent" /\ UNCHANGED <<conn, hb, reader, ws, wire, client, patient, due, pushed, got, ends, raced>>
  BY DEF PollArrives
<1>2. outbox \in Seq(Packets) /\ raced \in BOOLEAN  BY <1>0, FlowTypes DEF TransportTypeOK
<1>3. ~(patient /\ ws \in {"five", "run", "over"})  BY <1>0, <1>1 DEF ControlInv
<1>4. CASE conn.wsMode \/ (outbox = <<>> /\ conn.closing)
  <2>1. PICK x \in {Noop, Close} : poll' = [at |-> "answer", body |-> <<x>>] /\ writer' = writer
                                   /\ outbox' = IF <<x>> = outbox THEN <<>> ELSE outbox
    BY <1>4 DEF PollArrives, Finds
  <2>2. CASE <<x>> = outbox
    BY <1>1, <1>2, <2>1, <2>2, PollTakesInv
  <2>3. CASE <<x>> # outbox
    BY <1>1, <1>3, <2>1, <2>3, TurnedAway, PollMovesInv
  <2> QED  BY <2>2, <2>3
<1>5. CASE ~conn.wsMode /\ outbox # <<>>
  <2>1. poll' = [at |-> "answer", body |-> outbox] /\ outbox' = <<>> /\ writer' = writer
    BY <1>5 DEF PollArrives, Finds
  <2> QED  BY <1>1, <1>2, <2>1, PollTakesInv
<1>6. CASE ~conn.wsMode /\ outbox = <<>> /\ ~conn.closing
  <2>1. poll' = [at |-> "parked", body |-> <<>>] /\ outbox' = outbox /\ writer' = WokenWriter
    BY <1>6 DEF PollArrives, Finds
  <2>2. poll'.at = "parked" /\ Answering' = <<>>  BY <2>1 DEF Answering
  <2>3. <<>> \in Seq(Packets)  OBVIOUS
  <2>4. poll' \in PollStates
    BY <2>1, <2>3
  <2> QED  BY <1>1, <1>3, <1>6, <2>1, <2>2, <2>4, PollMovesInv
<1> QED  BY <1>4, <1>5, <1>6

LEMMA PollWakesInv ==
    ASSUME TransportInv, PollWakes
    PROVE  TransportInv'
<1>0. TransportTypeOK /\ ControlInv  BY DEF TransportInv
<1>1. poll.at = "awake" /\ UNCHANGED <<conn, outbox, writer, hb, reader, ws, wire, client, patient, due, pushed, got, ends, raced>>
  BY DEF PollWakes
<1>2. outbox \in Seq(Packets) /\ <<>> \in Seq(Packets)  BY <1>0, FlowTypes
<1>3. ~(patient /\ ws \in {"five", "run", "over"})  BY <1>0, <1>1 DEF ControlInv
<1>4. CASE conn.wsMode \/ (outbox = <<>> /\ conn.closing)
  <2>1. PICK x \in {Noop, Close} : poll' = [at |-> "answer", body |-> <<x>>]
    BY <1>4 DEF PollWakes, Finds
  <2> QED  BY <1>1, <1>3, <2>1, TurnedAway, PollMovesInv
<1>5. CASE ~(conn.wsMode \/ (outbox = <<>> /\ conn.closing))
  <2>1. \/ poll' = [at |-> "copied", body |-> outbox]
        \/ poll' = [at |-> "rearm", body |-> <<>>]
    BY <1>5 DEF PollWakes, Finds
  <2>a. PICK a \in {"copied", "rearm"}, b \in Seq(Packets) : poll' = [at |-> a, body |-> b]
    BY <1>2, <2>1
  <2>2. poll'.at \in {"copied", "rearm"}
        /\ poll' \in PollStates
    BY <2>a
  <2>3. Answering' = <<>>  BY <2>2 DEF Answering
  <2> QED  BY <1>1, <1>3, <2>2, <2>3, PollMovesInv
<1> QED  BY <1>4, <1>5

\* A poll that clears what it has not copied has raced.
LEMMA PollClearsInv ==
    ASSUME TransportInv, PollClears
    PROVE  TransportInv'
<1>0. TransportTypeOK /\ ControlInv /\ FlowInv /\ PingInv /\ LiveStays  BY DEF TransportInv
<1>1. /\ poll.at = "copied" /\ outbox' = <<>> /\ raced' = (raced \/ outbox # poll.body)
      /\ poll' = [poll EXCEPT !.at = "answer"]
      /\ UNCHANGED <<conn, hb, writer, reader, ws, wire, client, patient, due, pushed, got, ends>>
  BY DEF PollClears
<1>2. /\ raced' \in BOOLEAN /\ (raced => raced')
      /\ poll' = [at |-> "answer", body |-> poll.body] /\ <<>> \in Seq(Packets)
  <2>1. poll \in PollStates
        /\ raced \in BOOLEAN
    BY <1>0 DEF TransportTypeOK
  <2>2. poll' = [at |-> "answer", body |-> poll.body]  BY <1>1, <2>1
  <2>3. raced' \in BOOLEAN /\ (raced => raced')  BY <1>1, <2>1
  <2> QED  BY <2>2, <2>3
<1>3. CASE outbox = poll.body
  BY <1>1, <1>2, <1>3, PollTakesInv
<1>4. CASE outbox # poll.body
  <2>1. raced' = TRUE  BY <1>1, <1>4
  <2>2. poll'.at = "answer" /\ poll'.body = poll.body
        /\ poll' \in PollStates
    BY <1>0, <1>2 DEF TransportTypeOK
  <2>3. TransportTypeOK'  BY <1>0, <1>1, <1>2, <2>1, <2>2 DEF TransportTypeOK
  <2>4. ControlInv'  BY <1>0, <1>1, <2>2 DEF ControlInv
  <2> QED  BY <1>0, <1>1, <2>1, <2>3, <2>4 DEF TransportInv, FlowInv, PingInv, LiveStays
<1> QED  BY <1>3, <1>4

\* What comes to the client was on its way to it.
LEMMA PollReturnsInv ==
    ASSUME TransportInv, PollReturns
    PROVE  TransportInv'
<1>0. TransportTypeOK /\ ControlInv /\ FlowInv /\ PingInv /\ LiveStays  BY DEF TransportInv
<1>1. /\ poll.at = "answer" /\ poll' = [at |-> "none", body |-> <<>>]
      /\ got' = IF client = "open" THEN Cat(got, Lasting(poll.body)) ELSE got
      /\ due' = (due \/ (client = "open" /\ Ping \in ToSet(poll.body)))
      /\ client' = IF client = "open" /\ Close \in ToSet(poll.body) THEN "shut" ELSE client
      /\ UNCHANGED <<conn, outbox, hb, writer, reader, ws, wire, patient, pushed, ends, raced>>
  BY DEF PollReturns, Receives, Cat
<1>2. got \in Seq(Packets) /\ poll.body \in Seq(Packets) /\ client \in {"open", "shut", "gone"} /\ due \in BOOLEAN
  BY <1>0 DEF TransportTypeOK
<1>3. Lasting(poll.body) \in Seq(Packets)  BY <1>2, LastingType
<1>4. got' \in Seq(Packets) /\ due' \in BOOLEAN /\ client' \in {"open", "shut", "gone"}
      /\ (client' = "open" => client = "open") /\ (due => due')
  <2>1. Cat(got, Lasting(poll.body)) \in Seq(Packets)  BY <1>2, <1>3, CatType
  <2> QED  BY <1>1, <1>2, <2>1
<1>5. poll'.at = "none" /\ poll'.body = <<>>
      /\ poll' \in PollStates
  <2>1. <<>> \in Seq(Packets)  OBVIOUS
  <2> QED  BY <1>1, <2>1
<1>6. TransportTypeOK'  BY <1>0, <1>1, <1>4, <1>5 DEF TransportTypeOK
<1>7. ControlInv'  BY <1>0, <1>1, <1>5 DEF ControlInv
<1>8. FlowInv'
  <2> SUFFICES ASSUME client' = "open", ~raced, ws = "run" => reader, ws # "over"
               PROVE  Agree(patient, got', Answering', Lasting(wire), Writing', Lasting(outbox), pushed)
    BY <1>1 DEF FlowInv
  <2>1. Answering = Lasting(poll.body) /\ Answering' = <<>> /\ Writing' = Writing
    BY <1>1, <1>5 DEF Answering, Writing
  <2>2. Agree(patient, got, Answering, Lasting(wire), Writing, Lasting(outbox), pushed)
    BY <1>0, <1>4 DEF FlowInv
  <2>3. patient \in BOOLEAN  BY <1>0 DEF TransportTypeOK
  <2>4. Agree(patient, Cat(got, Answering), <<>>, Lasting(wire), Writing, Lasting(outbox), pushed)
    BY <1>0, <2>2, <2>3, FlowTypes, AgreeAnswered
  <2>5. got' = Cat(got, Answering)  BY <1>1, <1>4, <2>1
  <2> QED  BY <2>1, <2>4, <2>5
<1>9. PingInv'
  <2>1. client' = "open" /\ Travels(Ping) => Travels(Ping)' \/ due'  BY <1>1, <1>4 DEF Travels
  <2> QED  BY <1>0, <1>1, <1>4, <2>1 DEF PingInv, Broken
<1>10. LiveStays'  BY <1>0, <1>1, <1>4 DEF LiveStays
<1> QED  BY <1>6, <1>7, <1>8, <1>9, <1>10 DEF TransportInv

LEMMA WireDeliversInv ==
    ASSUME TransportInv, WireDelivers
    PROVE  TransportInv'
<1> DEFINE h == Head(wire)
           rest == Tail(wire)
<1>0. TransportTypeOK /\ ControlInv /\ FlowInv /\ PingInv /\ LiveStays  BY DEF TransportInv
<1>1. /\ wire # <<>> /\ wire' = rest
      /\ got' = IF client = "open" THEN Cat(got, Lasting(<<h>>)) ELSE got
      /\ due' = (due \/ (client = "open" /\ Ping \in ToSet(<<h>>)))
      /\ client' = IF client = "open" /\ Close \in ToSet(<<h>>) THEN "shut" ELSE client
      /\ UNCHANGED <<conn, outbox, hb, poll, writer, reader, ws, patient, pushed, ends, raced>>
  BY DEF WireDelivers, Receives, Cat, server
<1>2. got \in Seq(Packets) /\ wire \in Seq(Packets) /\ client \in {"open", "shut", "gone"} /\ due \in BOOLEAN
  BY <1>0 DEF TransportTypeOK
<1>3. /\ h \in Packets /\ rest \in Seq(Packets) /\ <<h>> \in Seq(Packets)
      /\ Lasting(wire) = Cat(Lasting(<<h>>), Lasting(rest)) /\ ToSet(wire) = {h} \cup ToSet(rest)
  BY <1>1, <1>2, HeadCat
<1>a. ToSet(<<h>>) = {h}  BY DEF ToSet
<1> HIDE DEF h, rest
<1>b. Lasting(<<h>>) \in Seq(Packets) /\ Lasting(rest) \in Seq(Packets)  BY <1>3, LastingType
<1>4. got' \in Seq(Packets) /\ due' \in BOOLEAN /\ client' \in {"open", "shut", "gone"}
      /\ (client' = "open" => client = "open") /\ (due => due')
  <2>1. Cat(got, Lasting(<<h>>)) \in Seq(Packets)  BY <1>2, <1>b, CatType
  <2> QED  BY <1>1, <1>2, <2>1
<1>6. TransportTypeOK'  BY <1>0, <1>1, <1>3, <1>4 DEF TransportTypeOK
<1>7. ControlInv'  BY <1>0, <1>1 DEF ControlInv
<1>8. FlowInv'
  <2> SUFFICES ASSUME client' = "open", ~raced, ws = "run" => reader, ws # "over"
               PROVE  Agree(patient, got', Answering', Lasting(rest), Writing', Lasting(outbox), pushed)
    BY <1>1 DEF FlowInv
  <2>1. Answering' = Answering /\ Writing' = Writing  BY <1>1 DEF Answering, Writing
  <2>2. Agree(patient, got, Answering, Cat(Lasting(<<h>>), Lasting(rest)), Writing, Lasting(outbox), pushed)
    BY <1>0, <1>3, <1>4 DEF FlowInv
  <2>3. patient \in BOOLEAN  BY <1>0 DEF TransportTypeOK
  <2>4. patient => Answering = <<>>
    <3>1. patient => ws \in {"run", "over"}  BY <1>0, <1>1 DEF ControlInv, TransportTypeOK
    <3>2. patient => poll.at = "none"  BY <1>0, <3>1 DEF ControlInv
    <3> QED  BY <3>2 DEF Answering
  <2>5. Agree(patient, Cat(got, Lasting(<<h>>)), Answering, Lasting(rest), Writing, Lasting(outbox), pushed)
    BY <1>0, <1>b, <2>2, <2>3, <2>4, FlowTypes, AgreeDelivered
  <2> QED  BY <1>1, <1>4, <2>1, <2>5
<1>9. PingInv'
  <2>1. client' = "open" /\ Travels(Ping) => Travels(Ping)' \/ due'  BY <1>1, <1>3, <1>4, <1>a DEF Travels
  <2> QED  BY <1>0, <1>1, <1>4, <2>1 DEF PingInv, Broken
<1>10. LiveStays'  BY <1>0, <1>1, <1>4 DEF LiveStays
<1> QED  BY <1>6, <1>7, <1>8, <1>9, <1>10 DEF TransportInv

\* The writer takes the next packet.
LEMMA WriterTurnsInv ==
    ASSUME TransportInv, WriterTurns
    PROVE  TransportInv'
<1>0. TransportTypeOK /\ ControlInv /\ FlowInv /\ PingInv /\ LiveStays  BY DEF TransportInv
<1>1. /\ writer.at = "ready"
      /\ UNCHANGED <<conn, hb, reader, ws, wire, client, patient, due, pushed, got, ends, raced>>
  BY DEF WriterTurns
<1>2. /\ ws = "run" /\ writer \in WriterStates
      /\ outbox \in Seq(Packets) /\ patient \in BOOLEAN /\ Writing = <<>>
  BY <1>0, <1>1 DEF ControlInv, TransportTypeOK, Writing
<1>3. CASE ~conn.wsStop /\ outbox # <<>>
  <2> DEFINE h == Head(outbox)
             rest == Tail(outbox)
  <2>1. writer' = [at |-> "writing", pkt |-> h] /\ outbox' = rest /\ poll' = poll
    BY <1>3 DEF WriterTurns
  <2>2. /\ h \in Packets /\ rest \in Seq(Packets) /\ <<h>> \in Seq(Packets)
        /\ Lasting(outbox) = Cat(Lasting(<<h>>), Lasting(rest)) /\ ToSet(outbox) = {h} \cup ToSet(rest)
    BY <1>2, <1>3, HeadCat
  <2> HIDE DEF h, rest
  <2>3. /\ writer'.at = "writing" /\ writer'.pkt = h
        /\ writer' \in WriterStates
    BY <2>1, <2>2
  <2>4. TransportTypeOK'  BY <1>0, <1>1, <2>1, <2>2, <2>3 DEF TransportTypeOK
  <2>5. ControlInv'  BY <1>0, <1>1, <1>2, <1>3, <2>1, <2>3 DEF ControlInv
  <2>6. FlowInv'
    <3> SUFFICES ASSUME client = "open", ~raced, ws = "run" => reader, ws # "over"
                 PROVE  Agree(patient, got, Answering', Lasting(wire), Writing', Lasting(rest), pushed)
      BY <1>1, <2>1 DEF FlowInv
    <3>1. Answering' = Answering /\ Writing' = Lasting(<<h>>)  BY <2>1, <2>3 DEF Answering, Writing
    <3>2. Agree(patient, got, Answering, Lasting(wire), <<>>, Cat(Lasting(<<h>>), Lasting(rest)), pushed)
      BY <1>0, <1>2, <2>2 DEF FlowInv
    <3>3. Lasting(<<h>>) \in Seq(Packets) /\ Lasting(rest) \in Seq(Packets)  BY <2>2, LastingType
    <3>4. Agree(patient, got, Answering, Lasting(wire), Lasting(<<h>>), Lasting(rest), pushed)
      BY <1>0, <1>2, <3>2, <3>3, FlowTypes, AgreeTurned
    <3> QED  BY <3>1, <3>4
  <2>7. PingInv'
    <3>1. Travels(Ping) => Travels(Ping)'  BY <1>1, <2>1, <2>2, <2>3 DEF Travels
    <3> QED  BY <1>0, <1>1, <2>1, <2>3, <3>1 DEF PingInv, Broken
  <2>8. LiveStays'  BY <1>0, <1>1 DEF LiveStays
  <2> QED  BY <2>4, <2>5, <2>6, <2>7, <2>8 DEF TransportInv
<1>4. CASE conn.wsStop \/ outbox = <<>>
  <2>1. /\ writer' \in [at: {"ended", "last", "parked"}, pkt: Packets] /\ Writing' = <<>>
        /\ outbox' = outbox /\ (poll' = poll \/ poll' = WokenPoll)
        /\ (writer'.at = "parked" => outbox = <<>> /\ poll' = WokenPoll)
    <3>1. CASE conn.wsStop
      <4>1. writer' = [writer EXCEPT !.at = "ended"] /\ outbox' = outbox /\ poll' = poll  BY <3>1 DEF WriterTurns
      <4> QED  BY <1>2, <4>1 DEF Writing
    <3>2. CASE ~conn.wsStop /\ conn.closing
      <4>1. writer' = [at |-> "last", pkt |-> Close] /\ outbox' = outbox /\ poll' = poll  BY <1>4, <3>2 DEF WriterTurns
      <4>2. Lasting(<<Close>>) = <<>> /\ Close \in Packets  BY LastingNone, PacketTypes
      <4> QED  BY <4>1, <4>2 DEF Writing
    <3>3. CASE ~conn.wsStop /\ ~conn.closing
      <4>1. writer' = [writer EXCEPT !.at = "parked"] /\ outbox' = outbox /\ poll' = WokenPoll  BY <1>4, <3>3 DEF WriterTurns
      <4> QED  BY <1>2, <1>4, <3>3, <4>1 DEF Writing
    <3> QED  BY <3>1, <3>2, <3>3
  <2>2. /\ poll'.body = poll.body /\ (poll'.at = "none" <=> poll.at = "none") /\ (poll'.at = "answer" <=> poll.at = "answer")
        /\ (poll'.at = "parked" => poll.at = "parked")
    BY <1>0, <2>1, WokenTypes
  <2>3. TransportTypeOK'
    <3>1. writer' \in WriterStates  BY <2>1
    <3> QED  BY <1>0, <1>1, <2>1, <3>1, WokenTypes DEF TransportTypeOK
  <2>4. ControlInv'  BY <1>0, <1>1, <1>2, <2>1, <2>2 DEF ControlInv
  <2>5. FlowInv'
    <3>1. Answering' = Answering  BY <2>2 DEF Answering
    <3> QED  BY <1>0, <1>1, <1>2, <2>1, <3>1 DEF FlowInv
  <2>6. PingInv'
    <3>1. Travels(Ping) => Travels(Ping)'  BY <1>1, <2>1, <2>2 DEF Travels
    <3> QED  BY <1>0, <1>1, <3>1 DEF PingInv, Broken
  <2>7. LiveStays'  BY <1>0, <1>1 DEF LiveStays
  <2> QED  BY <2>3, <2>4, <2>5, <2>6, <2>7 DEF TransportInv
<1> QED  BY <1>3, <1>4

\* A write puts its packet on the wire, or fails.
LEMMA WriteEndsInv ==
    ASSUME TransportInv, WriteEnds
    PROVE  TransportInv'
<1>0. TransportTypeOK /\ ControlInv /\ FlowInv /\ PingInv /\ LiveStays  BY DEF TransportInv
<1>1. /\ writer.at \in {"writing", "last"}
      /\ UNCHANGED <<outbox, poll, hb, reader, ws, client, patient, due, pushed, got, ends, raced>>
  BY DEF WriteEnds
<1>2. /\ ws = "run" /\ writer \in WriterStates
      /\ wire \in Seq(Packets) /\ patient \in BOOLEAN /\ Writing = Lasting(<<writer.pkt>>) /\ conn \in Conn
  BY <1>0, <1>1 DEF ControlInv, TransportTypeOK, Writing
<1>3. /\ conn' \in Conn /\ conn'.wsMode = conn.wsMode /\ conn'.closing = conn.closing /\ conn'.awaiting = conn.awaiting
      /\ writer' \in [at: {"ready", "ended"}, pkt: Packets]
      /\ (writer'.at = "ready" => wire' = Append(wire, writer.pkt))
      /\ (wire' = Append(wire, writer.pkt) \/ (wire' = wire /\ writer'.at = "ended" /\ (client = "gone" \/ ~reader)))
  <2>1. /\ conn' = conn \/ conn' = [conn EXCEPT !.wsStop = TRUE]
        /\ \/ writer' = [writer EXCEPT !.at = "ready"] /\ wire' = Append(wire, writer.pkt)
           \/ writer' = [writer EXCEPT !.at = "ended"]
              /\ (wire' = Append(wire, writer.pkt) \/ (wire' = wire /\ (client = "gone" \/ ~reader)))
    BY DEF WriteEnds
  <2>2. conn' \in Conn /\ conn'.wsMode = conn.wsMode /\ conn'.closing = conn.closing /\ conn'.awaiting = conn.awaiting
    BY <1>2, <2>1 DEF Conn
  <2>3. CASE writer' = [writer EXCEPT !.at = "ready"] /\ wire' = Append(wire, writer.pkt)
    <3>1. writer' \in [at: {"ready", "ended"}, pkt: Packets]  BY <1>2, <2>3
    <3> QED  BY <2>2, <2>3, <3>1
  <2>4. CASE writer' = [writer EXCEPT !.at = "ended"]
              /\ (wire' = Append(wire, writer.pkt) \/ (wire' = wire /\ (client = "gone" \/ ~reader)))
    <3>1. writer' \in [at: {"ready", "ended"}, pkt: Packets] /\ writer'.at = "ended"  BY <1>2, <2>4
    <3> QED  BY <2>2, <2>4, <3>1
  <2> QED  BY <2>1, <2>3, <2>4
<1>4. /\ Append(wire, writer.pkt) \in Seq(Packets)
      /\ Lasting(Append(wire, writer.pkt)) = Cat(Lasting(wire), Lasting(<<writer.pkt>>))
      /\ ToSet(Append(wire, writer.pkt)) = ToSet(wire) \cup {writer.pkt}
  <2>1. writer.pkt \in Packets  BY <1>2
  <2> QED  BY <1>2, <2>1, AppendCat
<1>5. TransportTypeOK'
  <2>1. wire' \in Seq(Packets)  BY <1>2, <1>3, <1>4
  <2>2. writer' \in WriterStates  BY <1>3
  <2> QED  BY <1>0, <1>1, <1>3, <2>1, <2>2 DEF TransportTypeOK
<1>6. ControlInv'  BY <1>0, <1>1, <1>2, <1>3 DEF ControlInv
<1>7. FlowInv'
  <2> SUFFICES ASSUME client = "open", ~raced, ws = "run" => reader, ws # "over"
               PROVE  Agree(patient, got, Answering', Lasting(wire'), Writing', Lasting(outbox), pushed)
    BY <1>1 DEF FlowInv
  <2>1. Answering' = Answering /\ Writing' = <<>>  BY <1>1, <1>3 DEF Answering, Writing
  <2>2. wire' = Append(wire, writer.pkt)  BY <1>2, <1>3
  <2>3. Agree(patient, got, Answering, Lasting(wire), Writing, Lasting(outbox), pushed)
    BY <1>0 DEF FlowInv
  <2>4. Agree(patient, got, Answering, Cat(Lasting(wire), Writing), <<>>, Lasting(outbox), pushed)
    BY <1>0, <1>2, <2>3, FlowTypes, AgreeWritten
  <2> QED  BY <1>2, <1>4, <2>1, <2>2, <2>4
<1>8. PingInv'
  <2>1. Travels(Ping) => Travels(Ping)' \/ Broken'  BY <1>1, <1>2, <1>3, <1>4 DEF Travels, Broken
  <2>2. Broken => Broken'  BY <1>1, <1>3 DEF Broken
  <2> QED  BY <1>0, <1>1, <1>3, <2>1, <2>2 DEF PingInv
<1>9. LiveStays'  BY <1>0, <1>1 DEF LiveStays
<1> QED  BY <1>5, <1>6, <1>7, <1>8, <1>9 DEF TransportInv

LEMMA WebSocketEndsInv ==
    ASSUME TransportInv, WebSocketEnds
    PROVE  TransportInv'
<1>0. TransportTypeOK /\ ControlInv /\ LiveStays  BY DEF TransportInv
<1>1. /\ ws = "run" /\ ~reader /\ writer.at = "ended" /\ ws' = "over"
      /\ UNCHANGED <<reader, wire, client, patient, due, got, raced>>
  BY DEF WebSocketEnds
<1>2. /\ conn' = [conn EXCEPT !.closing = TRUE] /\ outbox' = Cat(outbox, <<>>) /\ pushed' = Cat(pushed, Lasting(<<>>))
      /\ poll' = WokenPoll /\ writer' = WokenWriter
      /\ (ends' = ends \/ ends' = Append(ends, "websocket closed"))
  BY DEF WebSocketEnds, Serves, Pushes, Expires, Ends, Cat
<1>3. outbox' = outbox /\ pushed' = pushed
  <2>1. Cat(outbox, <<>>) = outbox /\ Cat(pushed, <<>>) = pushed  BY <1>0, FlowTypes, CatMonoid
  <2> QED  BY <1>2, <2>1, LastingEmpty
<1>4. conn' \in Conn /\ conn'.closing
  BY <1>0, <1>2 DEF TransportTypeOK, Conn
<1>5. /\ "websocket closed" \in Reasons /\ ends \in Seq(Reasons)
  BY <1>0 DEF TransportTypeOK, Reasons
<1>6. /\ Append(ends, "websocket closed") \in Seq(Reasons)
      /\ ToSet(Append(ends, "websocket closed")) = ToSet(ends) \cup {"websocket closed"}
  BY <1>5, ReasonGiven
<1>7. TransportTypeOK'
  <2>1. ends' \in Seq(Reasons)  BY <1>2, <1>5, <1>6
  <2> QED  BY <1>0, <1>1, <1>2, <1>3, <1>4, <2>1, WokenTypes DEF TransportTypeOK
<1>8. ControlInv'
  <2>1. /\ writer'.at = "ended" /\ poll'.at # "parked" /\ (poll.at = "none" => poll'.at = "none")
    BY <1>0, <1>1, <1>2, WokenTypes
  <2> QED  BY <1>0, <1>1, <1>3, <1>4, <2>1 DEF ControlInv
<1>9. FlowInv' /\ PingInv'
  <2>1. FlowInv'  BY <1>1 DEF FlowInv
  <2>2. PingInv'  BY <1>4 DEF PingInv
  <2> QED  BY <2>1, <2>2
<1>10. LiveStays'
  <2>1. "ping timeout" \notin {"websocket closed"}  OBVIOUS
  <2>2. ToSet(ends') = ToSet(ends) \/ ToSet(ends') = ToSet(ends) \cup {"websocket closed"}
    BY <1>2, <1>6
  <2>3. "ping timeout" \in ToSet(ends') => "ping timeout" \in ToSet(ends)
    BY <2>1, <2>2
  <2> QED  BY <1>0, <1>1, <2>3 DEF LiveStays
<1> QED  BY <1>7, <1>8, <1>9, <1>10 DEF TransportInv

\* The WebSocket takes over from the polls.
LEMMA UpgradedInv ==
    ASSUME TransportInv, Upgraded
    PROVE  TransportInv'
<1>0. TransportTypeOK /\ ControlInv /\ FlowInv /\ PingInv /\ LiveStays  BY DEF TransportInv
<1>1. ws = "five" /\ UNCHANGED <<outbox, hb, wire, client, patient, due, pushed, got, ends, raced>>
  BY DEF Upgraded
<1>2. wire = <<>> /\ writer.at = "off" /\ ~reader /\ reader \in BOOLEAN
  BY <1>0, <1>1 DEF ControlInv, TransportTypeOK
<1>3. CASE conn.closing
  <2>1. ws' = "over" /\ UNCHANGED <<conn, timer, poll, writer, reader>>  BY <1>3 DEF Upgraded
  <2>2. TransportTypeOK'  BY <1>0, <1>1, <2>1 DEF TransportTypeOK
  <2>3. ControlInv'  BY <1>0, <1>1, <1>2, <1>3, <2>1 DEF ControlInv
  <2>4. FlowInv' /\ PingInv'  BY <1>3, <2>1 DEF FlowInv, PingInv
  <2>5. LiveStays'  BY <1>0, <1>1 DEF LiveStays
  <2> QED  BY <2>2, <2>3, <2>4, <2>5 DEF TransportInv
<1>4. CASE ~conn.closing
  <2>1. /\ ws' = "run" /\ conn' = [conn EXCEPT !.wsMode = TRUE, !.wsStop = FALSE] /\ poll' = WokenPoll
        /\ writer' = [writer EXCEPT !.at = "ready"] /\ reader' = TRUE
    BY <1>4 DEF Upgraded
  <2>2. conn' \in Conn /\ conn'.closing = conn.closing /\ conn'.awaiting = conn.awaiting
    BY <1>0, <2>1 DEF TransportTypeOK, Conn
  <2>3. /\ writer' \in WriterStates
        /\ writer'.at = "ready"
    BY <1>0, <2>1 DEF TransportTypeOK
  <2>4. /\ poll'.body = poll.body /\ (poll'.at = "none" <=> poll.at = "none") /\ (poll'.at = "answer" <=> poll.at = "answer")
        /\ poll'.at # "parked"
    BY <1>0, <2>1, WokenTypes
  <2>5. TransportTypeOK'  BY <1>0, <1>1, <2>1, <2>2, <2>3, WokenTypes DEF TransportTypeOK
  <2>6. ControlInv'  BY <1>0, <1>1, <1>2, <2>1, <2>3, <2>4 DEF ControlInv
  <2>7. FlowInv'
    <3>1. Answering' = Answering /\ Writing' = Writing  BY <1>2, <2>3, <2>4 DEF Answering, Writing
    <3> QED  BY <1>0, <1>1, <3>1 DEF FlowInv
  <2>8. PingInv'
    <3>1. Travels(Ping) => Travels(Ping)'  BY <1>1, <1>2, <2>4 DEF Travels
    <3> QED  BY <1>0, <1>1, <2>2, <3>1 DEF PingInv, Broken
  <2>9. LiveStays'  BY <1>0, <1>1 DEF LiveStays
  <2> QED  BY <2>5, <2>6, <2>7, <2>8, <2>9 DEF TransportInv
<1> QED  BY <1>3, <1>4

LEMMA SendsInv ==
    ASSUME TransportInv, SendPoll \/ Probe \/ SendUpgrade
    PROVE  TransportInv'
<1>0. TransportTypeOK /\ ControlInv /\ FlowInv /\ PingInv /\ LiveStays  BY DEF TransportInv
<1>1. CASE SendPoll /\ conn.closing
  BY <1>0, <1>1, StillInv DEF SendPoll, TransportTypeOK
<1>2. CASE SendPoll /\ ~conn.closing
  <2>1. /\ poll.at = "none" /\ (ws = "none" \/ (ws = "probed" /\ ~patient)) /\ poll' = [poll EXCEPT !.at = "sent"]
        /\ UNCHANGED <<conn, outbox, writer, hb, reader, ws, wire, client, patient, due, pushed, got, ends, raced>>
    BY <1>2 DEF SendPoll
  <2>2. /\ poll'.at = "sent"
        /\ poll' \in PollStates
    BY <1>0, <2>1 DEF TransportTypeOK
  <2>3. Answering' = <<>>  BY <2>2 DEF Answering
  <2> QED  BY <2>1, <2>2, <2>3, PollMovesInv
<1>3. CASE Probe \/ SendUpgrade
  <2>1. /\ UNCHANGED <<conn, outbox, poll, writer, reader, wire, client, patient, due, pushed, got, ends, raced>>
        /\ \/ ws = "none" /\ ws' = "probed"
           \/ ws = "probed" /\ ws' = "five" /\ (patient => poll.at = "none")
    BY <1>3 DEF Probe, SendUpgrade, server
  <2>2. TransportTypeOK'  BY <1>0, <2>1 DEF TransportTypeOK
  <2>3. ControlInv'  BY <1>0, <2>1 DEF ControlInv
  <2>4. FlowInv'
    <3>1. Answering' = Answering /\ Writing' = Writing  BY <2>1 DEF Answering, Writing
    <3> QED  BY <1>0, <2>1, <3>1 DEF FlowInv
  <2>5. PingInv'  BY <1>0, <2>1 DEF PingInv, Travels, Broken
  <2>6. LiveStays'  BY <1>0, <2>1 DEF LiveStays
  <2> QED  BY <2>2, <2>3, <2>4, <2>5, <2>6 DEF TransportInv
<1> QED  BY <1>1, <1>2, <1>3

\* The ping of a client that is there is on its way, or answered, or its WebSocket has
\* failed: while none of these is so, no ping is waited for.
LEMMA PingTimesOut ==
    ASSUME TransportInv, conn.awaiting, ~conn.closing, ~UnderWay
    PROVE  client # "open" \/ raced
<1> SUFFICES ASSUME client = "open", ~raced PROVE FALSE
  OBVIOUS
<1>0. TransportTypeOK /\ ControlInv /\ PingInv  BY DEF TransportInv
<1>1. /\ ~due /\ wire = <<>> /\ poll.at \in {"none", "parked"} /\ (poll.at = "none" => ws \notin {"none", "probed"})
      /\ writer.at \notin {"ready", "writing", "last"} /\ ws # "five" /\ ~Broken
  BY DEF UnderWay, Broken
<1>2. Travels(Ping)  BY <1>0, <1>1 DEF PingInv
<1>3. ToSet(<<>>) = {}  BY DEF ToSet
<1>4. outbox # <<>>  BY <1>1, <1>2, <1>3 DEF Travels
<1>5. poll.at = "none" /\ writer.at # "parked"  BY <1>0, <1>1, <1>4 DEF ControlInv
<1>6. ws \in {"run", "over"}  BY <1>0, <1>1, <1>5 DEF TransportTypeOK
<1>7. ws # "over"  BY <1>0 DEF ControlInv
<1>8. ws = "run" /\ writer.at \notin {"off", "ended"}  BY <1>0, <1>1, <1>6, <1>7 DEF ControlInv, Broken
<1> QED  BY <1>0, <1>1, <1>5, <1>8 DEF TransportTypeOK

LEMMA HeartbeatInv ==
    ASSUME TransportInv, Heartbeat
    PROVE  TransportInv'
<1>0. conn \in Conn /\ due \in BOOLEAN /\ reader \in BOOLEAN /\ client \in {"open", "shut", "gone"}
  BY DEF TransportInv, TransportTypeOK
<1>1. UNCHANGED <<reader, ws, wire, client, patient, due, got, raced>>
  BY DEF Heartbeat, HeartbeatPings, HeartbeatChecks
<1>2. CASE Serves([conn EXCEPT !.awaiting = TRUE], <<Ping>>, "")
  <2>1. Ping \in Packets /\ <<Ping>> \in Seq(Packets)  BY PacketTypes
  <2>2. Ping \in ToSet(<<Ping>>)  BY DEF ToSet
  <2>3. /\ [conn EXCEPT !.awaiting = TRUE] \in Conn
        /\ [conn EXCEPT !.awaiting = TRUE].wsMode = conn.wsMode /\ [conn EXCEPT !.awaiting = TRUE].closing = conn.closing
    BY <1>0 DEF Conn
  <2> QED  BY <1>0, <1>1, <1>2, <2>1, <2>2, <2>3, ServesInv DEF Reasons
<1>3. CASE HeartbeatChecks /\ conn.awaiting
  <2>1. ~conn.closing /\ ~UnderWay /\ Serves(conn, <<>>, "ping timeout")  BY <1>3 DEF HeartbeatChecks
  <2>2. client # "open" \/ raced  BY <1>3, <2>1, PingTimesOut
  <2>3. <<>> \in Seq(Packets)  OBVIOUS
  <2> QED  BY <1>0, <1>1, <2>1, <2>2, <2>3, ServesInv DEF Reasons
<1>4. CASE HeartbeatChecks /\ ~conn.awaiting
  <2>1. UNCHANGED <<conn, outbox, timer, poll, writer, pushed, ends>>  BY <1>4 DEF HeartbeatChecks
  <2> QED  BY <1>0, <1>1, <2>1, StillInv
<1> QED  BY <1>2, <1>3, <1>4 DEF Heartbeat, HeartbeatPings

LEMMA TransportStep ==
    ASSUME TransportInv, [TransportNext]_transportVars
    PROVE  TransportInv'
<1>0. /\ conn \in Conn /\ due \in BOOLEAN /\ reader \in BOOLEAN /\ client \in {"open", "shut", "gone"}
      /\ pushed \in Seq(Packets)
  BY FlowTypes DEF TransportInv, TransportTypeOK
<1>1. CASE Polling
  BY <1>1, PollArrivesInv, PollWakesInv, PollClearsInv, PollReturnsInv DEF Polling
<1>2. CASE Heartbeat  BY <1>2, HeartbeatInv
<1>3. CASE ReaderFails
  <2>1. /\ conn' = [conn EXCEPT !.wsStop = TRUE] /\ reader' = FALSE /\ poll' = WokenPoll /\ writer' = WokenWriter
        /\ UNCHANGED <<outbox, ws, wire, client, patient, due, pushed, got, ends, raced>>
    BY <1>3 DEF ReaderFails, Expires
  <2>2. conn' \in Conn /\ conn'.wsMode = conn.wsMode /\ conn'.closing = conn.closing /\ conn'.awaiting = conn.awaiting
    BY <1>0, <2>1 DEF Conn
  <2> QED  BY <1>0, <2>1, <2>2, StillInv
<1>4. CASE WebSocket /\ ~ReaderFails
  BY <1>4, UpgradedInv, WriterTurnsInv, WriteEndsInv, WebSocketEndsInv, WireDeliversInv DEF WebSocket
<1>5. CASE ClientSends
  <2>1. PICK k \in Requests : (Ingest(k) \/ Frame(k)) /\ client' = (IF k = "close" THEN "shut" ELSE client) /\ due' = due
    BY <1>5 DEF ClientSends
  <2>2. client' \in {"open", "shut", "gone"} /\ (client' = "open" => client = "open")
    BY <1>0, <2>1
  <2> QED  BY <2>1, <2>2, RequestInv
<1>6. CASE ClientPongs
  <2>1. (Ingest("pong") \/ Frame("pong")) /\ due' = FALSE /\ client' = client  BY <1>6 DEF ClientPongs
  <2> QED  BY <1>0, <2>1, RequestInv
<1>7. CASE Emit
  <2>1. Message(Len(pushed) + 1) \in Packets  BY <1>0, PacketTypes
  <2>2. <<Message(Len(pushed) + 1)>> \in Seq(Packets)  BY <2>1
  <2> QED  BY <1>0, <1>7, <2>2, ServesInv DEF Emit, Reasons
<1>8. CASE Disconnect
  <2>1. <<Bye>> \in Seq(Packets)  BY PacketTypes
  <2> QED  BY <1>0, <1>8, <2>1, ServesInv DEF Disconnect, Reasons
<1>9. CASE SendPoll \/ Probe \/ SendUpgrade  BY <1>9, SendsInv
<1>10. CASE Vanish
  BY <1>0, <1>10, StillInv DEF Vanish, server
<1>11. CASE UNCHANGED transportVars
  BY <1>0, <1>11, StillInv DEF transportVars, server
<1> QED
  BY <1>1, <1>2, <1>3, <1>4, <1>5, <1>6, <1>7, <1>8, <1>9, <1>10, <1>11 DEF TransportNext

LEMMA TransportBegins ==
    ASSUME TransportInit
    PROVE  TransportInv
<1>1. <<>> \in Seq(Packets) /\ <<>> \in Seq(Reasons) /\ Noop \in Packets  BY PacketTypes
<1>2. TransportTypeOK  BY <1>1 DEF TransportInit, TransportTypeOK, Conn
<1>3. ControlInv  BY DEF TransportInit, ControlInv
<1>4. FlowInv
  <2>1. Answering = <<>> /\ Writing = <<>> /\ Lasting(wire) = <<>> /\ Lasting(outbox) = <<>> /\ got = <<>> /\ pushed = <<>>
    BY LastingEmpty DEF TransportInit, Answering, Writing
  <2>2. AllOf(<<>>, <<>>, <<>>, <<>>, <<>>) = <<>>
    <3>1. Cat(<<>>, <<>>) = <<>>  BY CatMonoid
    <3> QED  BY <3>1 DEF AllOf
  <2>3. Agree(patient, <<>>, <<>>, <<>>, <<>>, <<>>, <<>>)  BY <2>2, AgreeIs
  <2> QED  BY <2>1, <2>3 DEF FlowInv
<1>5. PingInv  BY DEF TransportInit, PingInv
<1>6. LiveStays
  <2>1. ToSet(<<>>) = {}  BY DEF ToSet
  <2> QED  BY <2>1 DEF TransportInit, LiveStays
<1> QED  BY <1>2, <1>3, <1>4, <1>5, <1>6 DEF TransportInv

\* The invariant is one: its parts hold at first, and each step of the connection, of its
\* client and of the heartbeat keeps them.
THEOREM TransportInvariant == TransportSpec => []TransportInv
<1>1. TransportInit => TransportInv  BY TransportBegins
<1>2. TransportInv /\ [TransportNext]_transportVars => TransportInv'  BY TransportStep
<1> QED  BY <1>1, <1>2, PTL DEF TransportSpec

\* The variables of a connection have their types.
THEOREM TransportTypeCorrect == TransportSpec => []TransportTypeOK
<1>1. TransportInv => TransportTypeOK  BY DEF TransportInv
<1> QED  BY <1>1, TransportInvariant, PTL

\* What the server pushes (push_locked) comes to its client through polls, their
\* wake-ups and the upgrade, in order and once, or is on its way.
THEOREM InOrderCorrect == TransportSpec => []InOrder
<1>1. TransportInv => InOrder
  BY DEF TransportInv, FlowInv, Agree, InOrder, UnderWayTo
<1> QED  BY <1>1, TransportInvariant, PTL

\* No client that answers is lost to a ping's timeout (heartbeat_loop).
THEOREM LiveStaysCorrect == TransportSpec => []LiveStays
<1>1. TransportInv => LiveStays  BY DEF TransportInv
<1> QED  BY <1>1, TransportInvariant, PTL

--------------------------------------------------------------------------
(* Chat rooms: the inductive invariant                                      *)

GameStates ==
    [at: [Sessions -> Rooms \cup {NoRoom}], rooms: SUBSET Rooms,
     data: [Rooms -> RoomData \cup {NoData}], members: [Rooms -> Seq(Sessions)],
     hub: [Rooms -> SUBSET Conns], view: [Conns -> Seq(Members \cup {NoMember})],
     mixed: SUBSET Rooms]

Removals == [step: {"none", "find", "hook", "erase"}, id: Conns \cup {NoConn},
             acc: Sessions \cup {NoSession}]

RoomsTypeOK ==
    /\ link \in [Conns -> {"open", "closing", "closed"}]
    /\ bySocket \in [Conns -> Sessions \cup {NoSession}]
    /\ sock \in [Sessions -> Conns \cup {NoConn}]
    /\ member \in [Sessions -> Members \cup {NoMember}]
    /\ gs \in GameStates
    /\ rm \in [Removers -> Removals]
    /\ login \in Sessions \cup {NoSession}
    /\ look \in [Sessions -> Nat] /\ delayed \in [Sessions -> Nat] /\ handed \in [Sessions -> Nat]
    /\ edits \in Nat /\ removed \subseteq Sessions /\ replaced \subseteq Sessions

Gone == {c \in Conns : link[c] = "closed"}
Within(g, r) == ToSet(g.members[r])

\* Of every room, sound or not: its members say that they are in it, each is listed
\* once, and the socket room holds their connections.
Seats(g) ==
    \A r \in Rooms :
        /\ \A s \in Within(g, r) : g.at[s] = r
        /\ IsInjective(g.members[r])
Hubs(g, so, gone) == \A r \in Rooms : g.hub[r] = {so[s] : s \in Within(g, r)} \ gone
Stands(g, r) ==
    /\ r \in g.rooms <=> g.members[r] # <<>>
    /\ g.data[r] = NoData <=> g.members[r] = <<>>

\* Of a sound room: who says it is in it, is a member; members differ in connection and
\* number; their connections are in no other room; and clients know the members.
Whole(g) == \A s \in Sessions : g.at[s] \in Rooms \ g.mixed => s \in Within(g, g.at[s])
Distinct(g, so, me) ==
    \A r \in Rooms \ g.mixed : \A s, t \in Within(g, r) :
        s # t => so[s] # so[t] /\ me[s] # me[t]
Apart(g) == \A r \in Rooms \ g.mixed : \A q \in Rooms \ {r} : g.hub[r] \cap g.hub[q] = {}
Seen(g, me) == \A r \in Rooms \ g.mixed : \A c \in g.hub[r] : g.view[c] = Mapped(me, g.members[r])

RoomsHold(g, so, me, gone) ==
    Seats(g) /\ Hubs(g, so, gone) /\ Whole(g) /\ Distinct(g, so, me) /\ Apart(g) /\ Seen(g, me)

\* A session whose connection is heard in a sound room is in that room or in none: it may
\* leave its room without clearing what the client knows of another.
Clear(g, s, c) == \A r \in Rooms \ g.mixed : c \in g.hub[r] => g.at[s] \in {NoRoom, r}

\* A connection's session, one to be seated, one not made yet, and those being removed.
SeatedInv ==
    \A c \in Conns : bySocket[c] # NoSession =>
        /\ sock[bySocket[c]] = c /\ member[bySocket[c]] \in Members
        /\ Clear(gs, bySocket[c], c)
LoginInv ==
    login # NoSession =>
        /\ sock[login] \in Conns /\ member[login] \in Members /\ gs.at[login] = NoRoom
        /\ ~Online(login) /\ login \notin removed
        /\ \A x \in Removers : rm[x].acc # login
FreshInv ==
    \A s \in Sessions : Fresh(s) =>
        /\ gs.at[s] = NoRoom /\ s \notin removed
        /\ \A x \in Removers : rm[x].acc # s
RemovalInv ==
    \A x \in Removers :
        /\ rm[x].step = "none" => rm[x] = NoRemoval
        /\ rm[x].step = "find" => rm[x].id \in Conns /\ rm[x].acc = NoSession /\ x = Login
        /\ rm[x].step \in {"hook", "erase"} =>
              /\ rm[x].id \in Conns /\ rm[x].acc \in Sessions /\ sock[rm[x].acc] = rm[x].id
              /\ x \in Conns => rm[x].id = x
        /\ rm[x].step = "hook" => Clear(gs, rm[x].acc, rm[x].id)
        /\ rm[x].step = "erase" /\ x \in Conns => gs.at[rm[x].acc] = NoRoom
ReplacingInv ==
    rm[Login].step \in {"hook", "erase"} => bySocket[rm[Login].id] \in {rm[Login].acc, NoSession}

SessionsInv == SeatedInv /\ LoginInv /\ FreshInv /\ RemovalInv /\ ReplacingInv

NamesDiffer(g) ==
    \A r, q \in g.rooms : Upper(g.data[r].name) = Upper(g.data[q].name) => r = q

LooksInv ==
    /\ \A s \in Sessions : look[s] = IF delayed[s] # 0 THEN delayed[s] ELSE handed[s]
    /\ \A s \in removed :
          /\ ~Online(s)
          /\ s \notin replaced => gs.at[s] = NoRoom /\ handed[s] = look[s]

RoomsInv ==
    /\ RoomsTypeOK /\ RoomsHold(gs, sock, member, Gone) /\ \A r \in Rooms : Stands(gs, r)
    /\ SessionsInv /\ NamesDiffer(gs) /\ LooksInv /\ NoGhosts

-----------------------------------------------------------------------------
(* Chat rooms: leaving and entering keep the invariant                      *)

LEMMA MappedNumbers == ASSUME NEW q PROVE Numbers(q) = Mapped(member, q)
BY DEF Numbers, Mapped

LEMMA RemainingIs ==
    ASSUME NEW g \in GameStates, NEW s \in Sessions, g.at[s] \in Rooms
    PROVE  LET q == g.members[g.at[s]]
           IN  /\ q \in Seq(Sessions) /\ Remaining(g, s) \in Seq(Sessions)
               /\ ToSet(Remaining(g, s)) = {t \in ToSet(q) : sock[t] # sock[s]}
               /\ IsInjective(q) => IsInjective(Remaining(g, s))
<1> DEFINE q == g.members[g.at[s]]
           S == {t \in Sessions : sock[t] = sock[s]}
<1>1. q \in Seq(Sessions)  BY DEF GameStates
<1>2. Remaining(g, s) = Without(q, S)  BY DEF Remaining
<1>3. ToSet(q) \subseteq Sessions  BY <1>1 DEF ToSet
<1> HIDE DEF q
<1>4. ToSet(q) \ S = {t \in ToSet(q) : sock[t] # sock[s]}  BY <1>3
<1> HIDE DEF S
<1>5. Without(q, S) \in Seq(Sessions) /\ ToSet(Without(q, S)) = ToSet(q) \ S
      /\ (IsInjective(q) => IsInjective(Without(q, S)))
  BY <1>1, WithoutType, WithoutSet
<1> QED  BY <1>1, <1>2, <1>4, <1>5 DEF q

LEMMA LeftNone ==
    ASSUME NEW g, NEW s, g.at[s] = NoRoom
    PROVE  Left(g, s) = g
BY DEF Left

LEMMA LeftFields ==
    ASSUME sock \in [Sessions -> Conns \cup {NoConn}], member \in [Sessions -> Members \cup {NoMember}],
           NEW g \in GameStates, NEW s \in Sessions, g.at[s] \in Rooms
    PROVE  LET h == Left(g, s)
               r == g.at[s]
               rest == Remaining(g, s)
           IN  /\ h \in GameStates
               /\ h.at = [g.at EXCEPT ![s] = NoRoom]
               /\ h.members = [g.members EXCEPT ![r] = rest]
               /\ h.hub = [g.hub EXCEPT ![r] = g.hub[r] \ {sock[s]}]
               /\ h.rooms = (IF rest = <<>> THEN g.rooms \ {r} ELSE g.rooms)
               /\ h.data = [g.data EXCEPT ![r] = IF rest = <<>> THEN NoData ELSE g.data[r]]
               /\ h.mixed = g.mixed
               /\ h.view = [c \in Conns |->
                               IF c = sock[s] THEN <<>>
                               ELSE IF c \in g.hub[r] THEN Without(g.view[c], {member[s]})
                               ELSE g.view[c]]
<1> DEFINE r == g.at[s]
           rest == Remaining(g, s)
           without == [c \in Conns |-> Without(g.view[c], {member[s]})]
           view == [Told(g.view, Hears(g, s), without) EXCEPT ![sock[s]] = <<>>]
           h == [g EXCEPT !.at[s] = NoRoom,
                       !.members[r] = rest,
                       !.hub[r] = Hears(g, s),
                       !.rooms = IF rest = <<>> THEN @ \ {r} ELSE @,
                       !.data[r] = IF rest = <<>> THEN NoData ELSE @,
                       !.view = [Told(@, Hears(g, s), without) EXCEPT ![sock[s]] = <<>>]]
<1>1. r # NoRoom  BY RoomsAssumption
<1>2. Left(g, s) = h  BY <1>1 DEF Left
<1>3. /\ h.at = [g.at EXCEPT ![s] = NoRoom]
      /\ h.members = [g.members EXCEPT ![r] = rest]
      /\ h.hub = [g.hub EXCEPT ![r] = Hears(g, s)]
      /\ h.rooms = (IF rest = <<>> THEN g.rooms \ {r} ELSE g.rooms)
      /\ h.data = [g.data EXCEPT ![r] = IF rest = <<>> THEN NoData ELSE g.data[r]]
      /\ h.mixed = g.mixed
      /\ h.view = view
  BY DEF GameStates
<1>4. Hears(g, s) = g.hub[r] \ {sock[s]}  BY DEF Hears
<1>5. view = [c \in Conns |-> IF c = sock[s] THEN <<>>
                               ELSE IF c \in g.hub[r] THEN Without(g.view[c], {member[s]})
                               ELSE g.view[c]]
  BY <1>4 DEF Told
<1>6. h \in GameStates
  <2>1. rest \in Seq(Sessions)  BY RemainingIs
  <2>2. \A c \in Conns : g.view[c] \in Seq(Members \cup {NoMember})  BY DEF GameStates
  <2>3. \A c \in Conns : Without(g.view[c], {member[s]}) \in Seq(Members \cup {NoMember})
    BY <2>2, WithoutType
  <2>4. <<>> \in Seq(Members \cup {NoMember})  OBVIOUS
  <2>5. view \in [Conns -> Seq(Members \cup {NoMember})]
    <3> HIDE DEF view
    <3> QED  BY <1>5, <2>2, <2>3, <2>4
  <2>6. Hears(g, s) \in SUBSET Conns  BY <1>4 DEF GameStates
  <2>7. /\ g.at \in [Sessions -> Rooms \cup {NoRoom}] /\ g.rooms \in SUBSET Rooms
        /\ g.data \in [Rooms -> RoomData \cup {NoData}] /\ g.members \in [Rooms -> Seq(Sessions)]
        /\ g.hub \in [Rooms -> SUBSET Conns] /\ g.mixed \in SUBSET Rooms
    BY DEF GameStates
  <2>8. /\ [g.at EXCEPT ![s] = NoRoom] \in [Sessions -> Rooms \cup {NoRoom}]
        /\ (IF rest = <<>> THEN g.rooms \ {r} ELSE g.rooms) \in SUBSET Rooms
        /\ [g.data EXCEPT ![r] = IF rest = <<>> THEN NoData ELSE g.data[r]] \in [Rooms -> RoomData \cup {NoData}]
        /\ [g.members EXCEPT ![r] = rest] \in [Rooms -> Seq(Sessions)]
        /\ [g.hub EXCEPT ![r] = Hears(g, s)] \in [Rooms -> SUBSET Conns]
    <3> HIDE DEF rest
    <3> QED  BY <2>1, <2>6, <2>7
  <2>9. h = [g EXCEPT !.at = [g.at EXCEPT ![s] = NoRoom],
                      !.members = [g.members EXCEPT ![r] = rest],
                      !.hub = [g.hub EXCEPT ![r] = Hears(g, s)],
                      !.rooms = IF rest = <<>> THEN g.rooms \ {r} ELSE g.rooms,
                      !.data = [g.data EXCEPT ![r] = IF rest = <<>> THEN NoData ELSE g.data[r]],
                      !.view = view]
    BY DEF GameStates
  <2> HIDE DEF h, view, rest
  <2> QED  BY <2>5, <2>7, <2>8, <2>9 DEF GameStates
<1> HIDE DEF h, view
<1> QED  BY <1>2, <1>3, <1>4, <1>5, <1>6

\* A room's member may leave it.
LEMMA MemberClear ==
    ASSUME NEW g \in GameStates, NEW gone, RoomsHold(g, sock, member, gone),
           NEW r \in Rooms, NEW s \in Within(g, r)
    PROVE  s \in Sessions /\ g.at[s] = r /\ Clear(g, s, sock[s])
<1>1. s \in Sessions
  BY DEF Within, ToSet, GameStates
<1>2. g.at[s] = r  BY DEF RoomsHold, Seats
<1>3. ASSUME NEW q \in Rooms \ g.mixed, sock[s] \in g.hub[q]
      PROVE  q = r
  <2>1. sock[s] \notin gone  BY <1>3 DEF RoomsHold, Hubs
  <2>2. sock[s] \in g.hub[r]  BY <2>1 DEF RoomsHold, Hubs
  <2> QED  BY <1>3, <2>2 DEF RoomsHold, Apart
<1> QED  BY <1>1, <1>2, <1>3 DEF Clear

\* room_remove_locked keeps the lists, the socket rooms and the clients' views in step.
LEMMA LeftHolds ==
    ASSUME sock \in [Sessions -> Conns \cup {NoConn}], member \in [Sessions -> Members \cup {NoMember}],
           NEW g \in GameStates, NEW gone, RoomsHold(g, sock, member, gone),
           NEW s \in Sessions, Clear(g, s, sock[s])
    PROVE  LET h == Left(g, s)
           IN  /\ h \in GameStates /\ RoomsHold(h, sock, member, gone)
               /\ h.at = [g.at EXCEPT ![s] = NoRoom]
               /\ h.mixed = g.mixed
               /\ \A r \in Rooms : /\ h.hub[r] \subseteq g.hub[r]
                                   /\ Within(h, r) \subseteq Within(g, r)
                                   /\ Stands(g, r) => Stands(h, r)
                                   /\ r \in h.rooms => r \in g.rooms /\ h.data[r] = g.data[r]
                                   /\ r # g.at[s] => h.members[r] = g.members[r]
<1>1. CASE g.at[s] = NoRoom
  <2>1. Left(g, s) = g  BY <1>1, LeftNone
  <2>2. g.at = [g.at EXCEPT ![s] = NoRoom]  BY <1>1 DEF GameStates
  <2> QED  BY <2>1, <2>2
<1>2. CASE g.at[s] \in Rooms
  <2> DEFINE h == Left(g, s)
             r == g.at[s]
             rest == Remaining(g, s)
  <2>1. /\ h \in GameStates
        /\ h.at = [g.at EXCEPT ![s] = NoRoom]
        /\ h.members = [g.members EXCEPT ![r] = rest]
        /\ h.hub = [g.hub EXCEPT ![r] = g.hub[r] \ {sock[s]}]
        /\ h.rooms = (IF rest = <<>> THEN g.rooms \ {r} ELSE g.rooms)
        /\ h.data = [g.data EXCEPT ![r] = IF rest = <<>> THEN NoData ELSE g.data[r]]
        /\ h.mixed = g.mixed
        /\ h.view = [c \in Conns |->
                        IF c = sock[s] THEN <<>>
                        ELSE IF c \in g.hub[r] THEN Without(g.view[c], {member[s]})
                        ELSE g.view[c]]
    BY <1>2, LeftFields
  <2>2. /\ g.members[r] \in Seq(Sessions) /\ rest \in Seq(Sessions)
        /\ ToSet(rest) = {t \in Within(g, r) : sock[t] # sock[s]}
        /\ IsInjective(g.members[r]) => IsInjective(rest)
    BY <1>2, RemainingIs DEF Within
  <2> HIDE DEF h, rest
  <2>3. /\ g.at \in [Sessions -> Rooms \cup {NoRoom}] /\ g.members \in [Rooms -> Seq(Sessions)]
        /\ g.hub \in [Rooms -> SUBSET Conns] /\ g.data \in [Rooms -> RoomData \cup {NoData}]
        /\ g.view \in [Conns -> Seq(Members \cup {NoMember})] /\ g.rooms \subseteq Rooms
        /\ g.mixed \subseteq Rooms
    BY DEF GameStates
  <2>4. /\ h.members[r] = rest /\ h.hub[r] = g.hub[r] \ {sock[s]} /\ h.at[s] = NoRoom
        /\ \A q \in Rooms \ {r} : h.members[q] = g.members[q] /\ h.hub[q] = g.hub[q] /\ h.data[q] = g.data[q]
        /\ \A t \in Sessions \ {s} : h.at[t] = g.at[t]
    BY <1>2, <2>1, <2>3
  <2>5. /\ Within(h, r) = {t \in Within(g, r) : sock[t] # sock[s]}
        /\ \A q \in Rooms \ {r} : Within(h, q) = Within(g, q)
        /\ \A q \in Rooms : Within(h, q) \subseteq Within(g, q)
    BY <1>2, <2>2, <2>4 DEF Within
  <2>6. \A q \in Rooms : Within(g, q) \subseteq Sessions
    BY <2>3 DEF Within, ToSet
  <2>7. Seats(h)
    <3> SUFFICES ASSUME NEW q \in Rooms
                 PROVE  (\A t \in Within(h, q) : h.at[t] = q) /\ IsInjective(h.members[q])
      BY DEF Seats
    <3>1. ASSUME NEW t \in Within(h, q) PROVE h.at[t] = q
      <4>1. t \in Within(g, q) /\ g.at[t] = q  BY <2>5 DEF RoomsHold, Seats
      <4>2. t # s  BY <2>5, <4>1
      <4> QED  BY <2>4, <2>6, <4>1, <4>2
    <3>2. IsInjective(g.members[q])  BY DEF RoomsHold, Seats
    <3>3. IsInjective(h.members[q])  BY <3>2, <2>2, <2>4
    <3> QED  BY <3>1, <3>3
  <2>8. Hubs(h, sock, gone)
    <3>1. \A q \in Rooms : g.hub[q] = {sock[t] : t \in Within(g, q)} \ gone
      BY DEF RoomsHold, Hubs
    <3>2. \A q \in Rooms \ {r} : h.hub[q] = {sock[t] : t \in Within(h, q)} \ gone
      BY <3>1, <2>4, <2>5
    <3>3. h.hub[r] = {sock[t] : t \in Within(h, r)} \ gone
      <4>1. \A c : c \in {sock[t] : t \in Within(h, r)} <=> c \in {sock[t] : t \in Within(g, r)} /\ c # sock[s]
        BY <2>5
      <4> QED  BY <1>2, <4>1, <3>1, <2>4
    <3> QED  BY <3>2, <3>3 DEF Hubs
  <2>9. Whole(h)
    <3> SUFFICES ASSUME NEW t \in Sessions, h.at[t] \in Rooms \ h.mixed
                 PROVE  t \in Within(h, h.at[t])
      BY DEF Whole
    <3>1. t # s  BY <2>4, RoomsAssumption
    <3>2. h.at[t] = g.at[t] /\ t \in Within(g, g.at[t])
      BY <3>1, <2>1, <2>4 DEF RoomsHold, Whole
    <3>3. CASE g.at[t] = r
      <4>1. s \in Within(g, r)  BY <1>2, <2>1, <3>2, <3>3 DEF RoomsHold, Whole
      <4>2. sock[t] # sock[s]  BY <1>2, <2>1, <3>1, <3>2, <3>3, <4>1 DEF RoomsHold, Distinct
      <4> QED  BY <2>5, <3>2, <3>3, <4>2
    <3>4. CASE g.at[t] # r  BY <2>1, <2>5, <3>2, <3>4
    <3> QED  BY <3>3, <3>4
  <2>10. Distinct(h, sock, member)
    BY <2>1, <2>5 DEF RoomsHold, Distinct
  <2>11. \A q \in Rooms : h.hub[q] \subseteq g.hub[q]
    BY <2>4
  <2>12. Apart(h)
    BY <2>1, <2>11 DEF RoomsHold, Apart
  <2>13. Seen(h, member)
    <3> SUFFICES ASSUME NEW q \in Rooms \ h.mixed, NEW c \in h.hub[q]
                 PROVE  h.view[c] = Mapped(member, h.members[q])
      BY DEF Seen
    <3>1. c \in Conns /\ c \in g.hub[q] /\ q \notin g.mixed /\ g.view[c] = Mapped(member, g.members[q])
      BY <2>1, <2>3, <2>11 DEF RoomsHold, Seen
    <3>2. CASE q = r
      <4>1. c # sock[s] /\ h.view[c] = Without(g.view[c], {member[s]})
        BY <1>2, <2>1, <2>4, <3>1, <3>2
      <4>2. s \in Within(g, r)  BY <3>1, <3>2 DEF RoomsHold, Whole
      <4> DEFINE S == {t \in Sessions : sock[t] = sock[s]}
      <4>3. \A t \in ToSet(g.members[r]) : t \in S <=> member[t] \in {member[s]}
        BY <2>6, <3>1, <3>2, <4>2 DEF RoomsHold, Distinct, Within
      <4>4. rest = Without(g.members[r], S)  BY DEF rest, Remaining
      <4> HIDE DEF S
      <4>5. Without(Mapped(member, g.members[r]), {member[s]}) = Mapped(member, Without(g.members[r], S))
        BY <2>2, <4>3, WithoutMapped
      <4> QED  BY <2>4, <3>1, <3>2, <4>1, <4>4, <4>5
    <3>3. CASE q # r
      <4>1. c \notin g.hub[r]  BY <1>2, <3>1, <3>3 DEF RoomsHold, Apart
      <4>2. c # sock[s]  BY <1>2, <3>1, <3>3, RoomsAssumption DEF Clear
      <4>3. h.view[c] = g.view[c]  BY <2>1, <3>1, <4>1, <4>2
      <4> QED  BY <2>4, <3>1, <3>3, <4>3
    <3> QED  BY <3>2, <3>3
  <2>14. RoomsHold(h, sock, member, gone)
    BY <2>7, <2>8, <2>9, <2>10, <2>12, <2>13 DEF RoomsHold
  <2>15. ASSUME NEW q \in Rooms, Stands(g, q) PROVE Stands(h, q)
    <3>1. CASE q = r
      <4>1. rest # <<>> => g.members[r] # <<>>
        <5>1. ASSUME g.members[r] = <<>> PROVE rest = <<>>
          BY <5>1, WithoutEmpty DEF rest, Remaining
        <5> QED  BY <5>1
      <4>2. h.data[r] = IF rest = <<>> THEN NoData ELSE g.data[r]  BY <1>2, <2>1, <2>3
      <4> QED  BY <1>2, <2>1, <2>4, <2>15, <3>1, <4>1, <4>2 DEF Stands
    <3>2. CASE q # r
      <4>1. q \in h.rooms <=> q \in g.rooms  BY <2>1, <3>2
      <4> QED  BY <2>4, <2>15, <3>2, <4>1 DEF Stands
    <3> QED  BY <3>1, <3>2
  <2>16. ASSUME NEW q \in Rooms, q \in h.rooms PROVE q \in g.rooms /\ h.data[q] = g.data[q]
    BY <1>2, <2>1, <2>3, <2>16
  <2> QED  BY <2>1, <2>4, <2>5, <2>11, <2>14, <2>15, <2>16 DEF h
<1>3. g.at[s] \in Rooms \cup {NoRoom}  BY DEF GameStates
<1> QED  BY <1>1, <1>2, <1>3

LEMMA ClearStays ==
    ASSUME NEW g \in GameStates, NEW h \in GameStates, NEW t \in Sessions, NEW c, Clear(g, t, c),
           h.mixed = g.mixed, h.at[t] \in {g.at[t], NoRoom},
           \A r \in Rooms : h.hub[r] \subseteq g.hub[r]
    PROVE  Clear(h, t, c)
BY DEF Clear, GameStates

\* Where the session's connection is heard already.
HeardIn(g, s) == {q \in Rooms : sock[s] \in g.hub[q]}

MixedBy(g, s, r) == HeardIn(g, s) # {} \/ \E t \in Within(g, r) : member[t] = member[s]

Joined(g, s, r) == Append(g.members[r], s)
Longer(g, s, c) == Append(g.view[c], member[s])

LEMMA EnteredFields ==
    ASSUME sock \in [Sessions -> Conns \cup {NoConn}], member \in [Sessions -> Members \cup {NoMember}],
           NEW g \in GameStates, NEW s \in Sessions, NEW r \in Rooms, sock[s] \in Conns
    PROVE  LET h == Entered(g, s, r)
               all == Joined(g, s, r)
           IN  /\ h \in GameStates
               /\ h.at = [g.at EXCEPT ![s] = r]
               /\ h.members = [g.members EXCEPT ![r] = all]
               /\ h.hub = [g.hub EXCEPT ![r] = g.hub[r] \cup {sock[s]}]
               /\ h.rooms = g.rooms /\ h.data = g.data
               /\ h.mixed = (IF MixedBy(g, s, r) THEN g.mixed \cup HeardIn(g, s) \cup {r} ELSE g.mixed)
               /\ h.view = [c \in Conns |->
                               IF c = sock[s] THEN Mapped(member, all)
                               ELSE IF c \in g.hub[r] THEN Longer(g, s, c)
                               ELSE g.view[c]]
<1> DEFINE all == Joined(g, s, r)
           twice == HeardIn(g, s) # {} \/ \E t \in ToSet(g.members[r]) : member[t] = member[s]
           more == [c \in Conns |-> Longer(g, s, c)]
           view == [Told(g.view, g.hub[r], more) EXCEPT ![sock[s]] = Numbers(all)]
           e == [g EXCEPT !.at[s] = r,
                  !.members[r] = all,
                  !.hub[r] = @ \cup {sock[s]},
                  !.view = [Told(@, g.hub[r], more) EXCEPT ![sock[s]] = Numbers(all)],
                  !.mixed = IF twice THEN @ \cup HeardIn(g, s) \cup {r} ELSE @]
<1>1. Entered(g, s, r) = e  BY DEF Entered, HeardIn, Within, Joined, Longer
<1>2. /\ e.at = [g.at EXCEPT ![s] = r]
      /\ e.members = [g.members EXCEPT ![r] = all]
      /\ e.hub = [g.hub EXCEPT ![r] = g.hub[r] \cup {sock[s]}]
      /\ e.rooms = g.rooms /\ e.data = g.data
      /\ e.mixed = (IF twice THEN g.mixed \cup HeardIn(g, s) \cup {r} ELSE g.mixed)
      /\ e.view = view
  <2> HIDE DEF all, twice, more
  <2> QED  BY DEF GameStates
<1>3. view = [c \in Conns |->
                IF c = sock[s] THEN Mapped(member, all)
                ELSE IF c \in g.hub[r] THEN Longer(g, s, c)
                ELSE g.view[c]]
  BY MappedNumbers DEF Told
<1>4. e \in GameStates
  <2>1. /\ g.at \in [Sessions -> Rooms \cup {NoRoom}] /\ g.rooms \in SUBSET Rooms
        /\ g.data \in [Rooms -> RoomData \cup {NoData}] /\ g.members \in [Rooms -> Seq(Sessions)]
        /\ g.hub \in [Rooms -> SUBSET Conns] /\ g.mixed \in SUBSET Rooms
        /\ g.view \in [Conns -> Seq(Members \cup {NoMember})]
    BY DEF GameStates
  <2>2. all \in Seq(Sessions)  BY <2>1 DEF Joined
  <2>3. Mapped(member, all) \in Seq(Members \cup {NoMember})
    <3> HIDE DEF all
    <3> QED  BY <2>2 DEF Mapped
  <2>4. \A c \in Conns : Longer(g, s, c) \in Seq(Members \cup {NoMember})
    BY <2>1 DEF Longer
  <2>5. view \in [Conns -> Seq(Members \cup {NoMember})]
    <3> HIDE DEF view, all
    <3> QED  BY <1>3, <2>1, <2>3, <2>4
  <2>6. /\ [g.at EXCEPT ![s] = r] \in [Sessions -> Rooms \cup {NoRoom}]
        /\ [g.members EXCEPT ![r] = all] \in [Rooms -> Seq(Sessions)]
        /\ [g.hub EXCEPT ![r] = g.hub[r] \cup {sock[s]}] \in [Rooms -> SUBSET Conns]
        /\ (IF twice THEN g.mixed \cup HeardIn(g, s) \cup {r} ELSE g.mixed) \in SUBSET Rooms
    <3>1. HeardIn(g, s) \subseteq Rooms  BY DEF HeardIn
    <3> HIDE DEF all, twice
    <3> QED  BY <2>1, <2>2, <3>1
  <2>7. e = [g EXCEPT !.at = [g.at EXCEPT ![s] = r],
                      !.members = [g.members EXCEPT ![r] = all],
                      !.hub = [g.hub EXCEPT ![r] = g.hub[r] \cup {sock[s]}],
                      !.view = view,
                      !.mixed = IF twice THEN g.mixed \cup HeardIn(g, s) \cup {r} ELSE g.mixed]
    <3> HIDE DEF all, twice, more
    <3> QED  BY DEF GameStates
  <2> HIDE DEF e, view, twice, all
  <2> QED  BY <2>1, <2>5, <2>6, <2>7 DEF GameStates
<1> HIDE DEF e, view
<1> QED  BY <1>1, <1>2, <1>3, <1>4 DEF MixedBy, Within

\* Joining keeps them in step too: a connection that is heard elsewhere, or a number that
\* is there already, makes the rooms concerned mixed.
LEMMA EnteredHolds ==
    ASSUME sock \in [Sessions -> Conns \cup {NoConn}], member \in [Sessions -> Members \cup {NoMember}],
           NEW g \in GameStates, NEW gone, RoomsHold(g, sock, member, gone),
           NEW s \in Sessions, sock[s] \in Conns, sock[s] \notin gone, g.at[s] = NoRoom,
           NEW r \in Rooms
    PROVE  LET h == Entered(g, s, r)
           IN  /\ h \in GameStates /\ RoomsHold(h, sock, member, gone)
               /\ h.at = [g.at EXCEPT ![s] = r]
               /\ h.members = [g.members EXCEPT ![r] = Joined(g, s, r)]
               /\ h.rooms = g.rooms /\ h.data = g.data
               /\ Clear(h, s, sock[s])
               /\ \A t \in Sessions, c \in Conns :
                    t # s /\ c # sock[s] /\ Clear(g, t, c) => Clear(h, t, c)
<1> DEFINE h == Entered(g, s, r)
           all == Joined(g, s, r)
<1>1. /\ h \in GameStates
      /\ h.at = [g.at EXCEPT ![s] = r]
      /\ h.members = [g.members EXCEPT ![r] = all]
      /\ h.hub = [g.hub EXCEPT ![r] = g.hub[r] \cup {sock[s]}]
      /\ h.rooms = g.rooms /\ h.data = g.data
      /\ h.mixed = (IF MixedBy(g, s, r)
                    THEN g.mixed \cup HeardIn(g, s) \cup {r} ELSE g.mixed)
      /\ h.view = [c \in Conns |->
                      IF c = sock[s] THEN Mapped(member, all)
                      ELSE IF c \in g.hub[r] THEN Longer(g, s, c)
                      ELSE g.view[c]]
  BY EnteredFields, SMTT(30)
<1> HIDE DEF h
<1>2. /\ g.at \in [Sessions -> Rooms \cup {NoRoom}] /\ g.members \in [Rooms -> Seq(Sessions)]
      /\ g.hub \in [Rooms -> SUBSET Conns]
      /\ g.view \in [Conns -> Seq(Members \cup {NoMember})]
      /\ g.mixed \subseteq Rooms
  BY DEF GameStates
<1>3. /\ h.members[r] = all /\ h.hub[r] = g.hub[r] \cup {sock[s]} /\ h.at[s] = r
      /\ \A q \in Rooms \ {r} : h.members[q] = g.members[q] /\ h.hub[q] = g.hub[q]
      /\ \A t \in Sessions \ {s} : h.at[t] = g.at[t]
      /\ g.mixed \subseteq h.mixed
  <2> HIDE DEF all
  <2> QED  BY <1>1, <1>2
<1>4. /\ Within(h, r) = Within(g, r) \cup {s}
      /\ \A q \in Rooms \ {r} : Within(h, q) = Within(g, q)
  BY <1>2, <1>3, ToSetAppend DEF Within, Joined
<1>5. \A q \in Rooms : Within(g, q) \subseteq Sessions /\ s \notin Within(g, q)
  <2>1. \A q \in Rooms : Within(g, q) \subseteq Sessions
    BY <1>2 DEF Within, ToSet
  <2>2. \A q \in Rooms : q # NoRoom  BY RoomsAssumption
  <2> QED  BY <2>1, <2>2 DEF RoomsHold, Seats
\* A room that is sound still.
<1>6. ASSUME NEW q \in Rooms \ h.mixed
      PROVE  /\ q \notin g.mixed /\ sock[s] \notin g.hub[q]
             /\ q = r => /\ \A p \in Rooms : sock[s] \notin g.hub[p]
                         /\ \A t \in Within(g, r) : member[t] # member[s]
  <2>1. q \notin g.mixed /\ HeardIn(g, s) = {p \in Rooms : sock[s] \in g.hub[p]}  BY <1>3 DEF HeardIn
  <2>2. CASE MixedBy(g, s, r)
    <3>1. h.mixed = g.mixed \cup HeardIn(g, s) \cup {r}  BY <1>1, <2>2
    <3>2. q \notin HeardIn(g, s) /\ q # r  BY <3>1
    <3> QED  BY <2>1, <3>2
  <2>3. CASE ~MixedBy(g, s, r)
    <3>1. \A p \in Rooms : sock[s] \notin g.hub[p]
      <4> QED  BY <2>1, <2>3 DEF MixedBy
    <3> QED  BY <2>1, <2>3, <3>1 DEF MixedBy
  <2> QED  BY <2>2, <2>3
<1>7. Seats(h)
  <2> SUFFICES ASSUME NEW q \in Rooms
               PROVE  (\A t \in Within(h, q) : h.at[t] = q) /\ IsInjective(h.members[q])
    BY DEF Seats
  <2>1. (\A t \in Within(g, q) : g.at[t] = q) /\ IsInjective(g.members[q])
    BY DEF RoomsHold, Seats
  <2>2. \A t \in Within(g, q) : h.at[t] = q
    BY <1>3, <1>5, <2>1
  <2>3. CASE q = r
    <3>1. IsInjective(all)  BY <1>2, <1>5, <2>1, <2>3, InjectiveAppend DEF Within, Joined
    <3> QED  BY <1>3, <1>4, <2>2, <2>3, <3>1
  <2>4. CASE q # r
    BY <1>3, <1>4, <2>1, <2>2, <2>4
  <2> QED  BY <2>3, <2>4
<1>8. Hubs(h, sock, gone)
  <2>1. \A q \in Rooms : g.hub[q] = {sock[t] : t \in Within(g, q)} \ gone
    BY DEF RoomsHold, Hubs
  <2>2. \A q \in Rooms \ {r} : h.hub[q] = {sock[t] : t \in Within(h, q)} \ gone
    BY <2>1, <1>3, <1>4
  <2>3. h.hub[r] = {sock[t] : t \in Within(h, r)} \ gone
    <3>1. \A c : c \in {sock[t] : t \in Within(h, r)} <=> c \in {sock[t] : t \in Within(g, r)} \/ c = sock[s]
      BY <1>4
    <3> QED  BY <3>1, <2>1, <1>3
  <2> QED  BY <2>2, <2>3 DEF Hubs
<1>9. Whole(h)
  <2> SUFFICES ASSUME NEW t \in Sessions, h.at[t] \in Rooms \ h.mixed
               PROVE  t \in Within(h, h.at[t])
    BY DEF Whole
  <2>1. CASE t = s  BY <1>3, <1>4, <2>1
  <2>2. CASE t # s
    <3>1. h.at[t] = g.at[t] /\ g.at[t] \in Rooms \ g.mixed  BY <1>3, <2>2
    <3>2. t \in Within(g, g.at[t])  BY <3>1 DEF RoomsHold, Whole
    <3> QED  BY <1>4, <3>1, <3>2
  <2> QED  BY <2>1, <2>2
<1>10. Distinct(h, sock, member)
  <2> SUFFICES ASSUME NEW q \in Rooms \ h.mixed, NEW t \in Within(h, q), NEW u \in Within(h, q), t # u
               PROVE  sock[t] # sock[u] /\ member[t] # member[u]
    BY DEF Distinct
  <2>1. \A v, w \in Within(g, q) : v # w => sock[v] # sock[w] /\ member[v] # member[w]
    BY <1>6 DEF RoomsHold, Distinct
  <2>2. CASE q = r
    <3>1. ASSUME NEW v \in Within(g, r) PROVE sock[v] # sock[s] /\ member[v] # member[s]
      <4>1. sock[s] \notin g.hub[r] /\ member[v] # member[s]  BY <1>6, <2>2
      <4>2. sock[v] # sock[s]  BY <4>1 DEF RoomsHold, Hubs
      <4> QED  BY <4>1, <4>2
    <3> QED  BY <1>4, <2>1, <2>2, <3>1
  <2>3. CASE q # r  BY <1>4, <2>1, <2>3
  <2> QED  BY <2>2, <2>3
<1>11. Apart(h)
  <2> SUFFICES ASSUME NEW q \in Rooms \ h.mixed, NEW p \in Rooms \ {q}
               PROVE  h.hub[q] \cap h.hub[p] = {}
    BY DEF Apart
  <2>1. g.hub[q] \cap g.hub[p] = {}  BY <1>6 DEF RoomsHold, Apart
  <2>2. CASE q = r  BY <1>3, <1>6, <2>1, <2>2
  <2>3. CASE p = r  BY <1>3, <1>6, <2>1, <2>3
  <2>4. CASE q # r /\ p # r  BY <1>3, <2>1, <2>4
  <2> QED  BY <2>2, <2>3, <2>4
<1>12. Seen(h, member)
  <2> SUFFICES ASSUME NEW q \in Rooms \ h.mixed, NEW c \in h.hub[q]
               PROVE  h.view[c] = Mapped(member, h.members[q])
    BY DEF Seen
  <2>1. c \in Conns  BY <1>1 DEF GameStates
  <2>2. c \in g.hub[q] => g.view[c] = Mapped(member, g.members[q])
    BY <1>6 DEF RoomsHold, Seen
  <2>3. CASE q = r /\ c = sock[s]  BY <1>1, <1>3, <2>1, <2>3
  <2>4. CASE q = r /\ c # sock[s]
    <3>1. c \in g.hub[r]  BY <1>3, <2>4
    <3>2. h.view[c] = Append(g.view[c], member[s])  BY <1>1, <2>1, <2>4, <3>1 DEF Longer
    <3>3. Mapped(member, all) = Append(Mapped(member, g.members[r]), member[s])
      <4> DEFINE p == g.members[r]
      <4>1. p \in Seq(Sessions)  BY <1>2
      <4> HIDE DEF p
      <4>2. Mapped(member, Append(p, s)) = Append(Mapped(member, p), member[s])  BY <4>1, MappedAppendIs
      <4> QED  BY <4>2 DEF p, Joined
    <3> QED  BY <1>3, <2>2, <2>4, <3>1, <3>2, <3>3
  <2>5. CASE q # r
    <3>1. c \in g.hub[q] /\ c # sock[s]  BY <1>3, <1>6, <2>5
    <3>2. c \notin g.hub[r]  BY <1>6, <2>5, <3>1 DEF RoomsHold, Apart
    <3> QED  BY <1>1, <1>3, <2>1, <2>2, <2>5, <3>1, <3>2
  <2> QED  BY <2>3, <2>4, <2>5
<1>13. Clear(h, s, sock[s])
  <2>1. ASSUME NEW q \in Rooms \ h.mixed, sock[s] \in h.hub[q] PROVE q = r
    BY <1>3, <1>6, <2>1
  <2> QED  BY <1>3, <2>1 DEF Clear
<1>14. ASSUME NEW t \in Sessions, NEW c \in Conns, t # s, c # sock[s], Clear(g, t, c)
       PROVE  Clear(h, t, c)
  BY <1>3, <1>14 DEF Clear
<1>15. RoomsHold(h, sock, member, gone)
  BY <1>7, <1>8, <1>9, <1>10, <1>11, <1>12 DEF RoomsHold
<1> QED  BY <1>1, <1>13, <1>14, <1>15 DEF h

-----------------------------------------------------------------------------
(* Chat rooms: every step keeps the invariant                               *)

\* The session that is handled is the connection's, and nobody else's.
LEMMA HandlingIs ==
    ASSUME RoomsInv, NEW c \in Conns, NEW s \in Sessions, Handling(c, s)
    PROVE  /\ sock[s] = c /\ member[s] \in Members /\ c \notin Gone /\ rm[c] = NoRemoval
           /\ bySocket[c] = s /\ Online(s) /\ Clear(gs, s, c)
           /\ \A d \in Conns : bySocket[d] = s => d = c
           /\ login # s /\ s \notin removed /\ ~Fresh(s)
<1>1. bySocket[c] = s /\ s # NoSession /\ link[c] = "open" /\ rm[c] = NoRemoval
  BY DEF Handling
<1>2. \A d \in Conns : bySocket[d] = s => sock[s] = d /\ member[s] \in Members /\ Clear(gs, s, d)
  BY <1>1 DEF RoomsInv, SessionsInv, SeatedInv
<1>3. Online(s)  BY <1>1 DEF Online
<1>4. login # s  BY <1>1, <1>3 DEF RoomsInv, SessionsInv, LoginInv
<1>5. s \notin removed  BY <1>3 DEF RoomsInv, LooksInv
<1>6. ~Fresh(s)  BY <1>1, <1>2, RoomsAssumption DEF Fresh
<1>7. c \notin Gone  BY <1>1 DEF Gone
<1> QED  BY <1>1, <1>2, <1>3, <1>4, <1>5, <1>6, <1>7

\* What a connection's handler does to the rooms, so that who acts may be moved, and others
\* put out, keeps the rest of the invariant.
LEMMA MoveStep ==
    ASSUME RoomsInv, NEW c \in Conns, NEW s \in Sessions, Handling(c, s),
           UNCHANGED <<link, online, rm, login, looks, removed, replaced>>, edits' \in Nat,
           gs' \in GameStates, RoomsHold(gs', sock, member, Gone), \A r \in Rooms : Stands(gs', r),
           NamesDiffer(gs'),
           \A t \in Sessions \ {s} : gs'.at[t] \in {gs.at[t], NoRoom},
           \A r \in Rooms : Within(gs', r) \subseteq Within(gs, r) \cup {s},
           Clear(gs', s, c),
           \A t \in Sessions, d \in Conns : t # s /\ d # c /\ Clear(gs, t, d) => Clear(gs', t, d)
    PROVE  RoomsInv'
<1>1. /\ sock[s] = c /\ rm[c] = NoRemoval /\ bySocket[c] = s /\ Online(s)
      /\ login # s /\ s \notin removed /\ ~Fresh(s)
      /\ member[s] \in Members
  BY HandlingIs
<1>2. /\ link' = link /\ bySocket' = bySocket /\ sock' = sock /\ member' = member /\ rm' = rm /\ login' = login
      /\ look' = look /\ delayed' = delayed /\ handed' = handed /\ removed' = removed /\ replaced' = replaced
  BY DEF online, looks
<1>3. RoomsTypeOK'
  BY <1>2 DEF RoomsInv, RoomsTypeOK
<1>4. Gone' = Gone  BY <1>2 DEF Gone
<1>5. RoomsHold(gs', sock', member', Gone')  BY <1>2, <1>4
<1>6. SeatedInv'
  <2> SUFFICES ASSUME NEW d \in Conns, bySocket[d] # NoSession
               PROVE  sock[bySocket[d]] = d /\ member[bySocket[d]] \in Members /\ Clear(gs', bySocket[d], d)
    BY <1>2 DEF SeatedInv, Clear
  <2>1. /\ sock[bySocket[d]] = d /\ member[bySocket[d]] \in Members /\ Clear(gs, bySocket[d], d)
        /\ bySocket[d] \in Sessions
    BY DEF RoomsInv, SessionsInv, SeatedInv, RoomsTypeOK
  <2>2. CASE d = c  BY <1>1, <2>1, <2>2
  <2>3. CASE d # c
    <3>1. bySocket[d] # s  BY <1>1, <2>1, <2>3
    <3> QED  BY <2>1, <2>3, <3>1
  <2> QED  BY <2>2, <2>3
<1>7. LoginInv'
  <2> SUFFICES ASSUME login # NoSession PROVE gs'.at[login] = NoRoom
    BY <1>2 DEF LoginInv, Online, RoomsInv, SessionsInv
  <2>1. login \in Sessions \ {s} /\ gs.at[login] = NoRoom
    BY <1>1 DEF RoomsInv, SessionsInv, LoginInv, RoomsTypeOK
  <2> QED  BY <2>1
<1>8. FreshInv'
  <2> SUFFICES ASSUME NEW t \in Sessions, Fresh(t) PROVE gs'.at[t] = NoRoom
    BY <1>2 DEF FreshInv, Fresh, RoomsInv, SessionsInv
  <2>1. t # s /\ gs.at[t] = NoRoom
    BY <1>1 DEF RoomsInv, SessionsInv, FreshInv
  <2> QED  BY <2>1
<1>9. RemovalInv'
  <2> SUFFICES ASSUME NEW x \in Removers
               PROVE  /\ rm[x].step = "hook" => Clear(gs', rm[x].acc, rm[x].id)
                      /\ rm[x].step = "erase" /\ x \in Conns => gs'.at[rm[x].acc] = NoRoom
    BY <1>2 DEF RemovalInv, RoomsInv, SessionsInv, Clear
  <2>1. ASSUME rm[x].step \in {"hook", "erase"}
        PROVE  rm[x].id \in Conns /\ rm[x].acc \in Sessions /\ sock[rm[x].acc] = rm[x].id
               /\ (x \in Conns => rm[x].id = x)
    BY <2>1 DEF RoomsInv, SessionsInv, RemovalInv
  <2>2. ASSUME rm[x].step = "hook" PROVE Clear(gs', rm[x].acc, rm[x].id)
    <3>1. Clear(gs, rm[x].acc, rm[x].id)  BY <2>2 DEF RoomsInv, SessionsInv, RemovalInv
    <3>2. CASE rm[x].id = c
      <4>1. x # c  BY <1>1, <2>2 DEF NoRemoval
      <4>2. x = Login  BY <2>1, <2>2, <3>2, <4>1 DEF Removers
      <4>3. rm[x].acc = s
        BY <1>1, <2>2, <3>2, <4>2, RoomsAssumption DEF RoomsInv, SessionsInv, ReplacingInv
      <4> QED  BY <3>2, <4>3
    <3>3. CASE rm[x].id # c
      <4>1. rm[x].acc # s  BY <1>1, <2>1, <2>2, <3>3
      <4> QED  BY <2>1, <2>2, <3>1, <3>3, <4>1
    <3> QED  BY <3>2, <3>3
  <2>3. ASSUME rm[x].step = "erase", x \in Conns PROVE gs'.at[rm[x].acc] = NoRoom
    <3>1. gs.at[rm[x].acc] = NoRoom  BY <2>3 DEF RoomsInv, SessionsInv, RemovalInv
    <3>2. x # c  BY <1>1, <2>3 DEF NoRemoval
    <3>3. rm[x].acc \in Sessions \ {s}  BY <1>1, <2>1, <2>3, <3>2
    <3> QED  BY <3>1, <3>3
  <2> QED  BY <2>2, <2>3
<1>10. ReplacingInv'
  BY <1>2 DEF ReplacingInv, RoomsInv, SessionsInv
<1>11. LooksInv'
  <2> SUFFICES ASSUME NEW t \in removed, t \notin replaced PROVE gs'.at[t] = NoRoom
    BY <1>2 DEF LooksInv, Online, RoomsInv
  <2>1. t \in Sessions \ {s} /\ gs.at[t] = NoRoom
    BY <1>1 DEF RoomsInv, LooksInv, RoomsTypeOK
  <2> QED  BY <2>1
<1>12. NoGhosts'
  <2> SUFFICES ASSUME NEW r \in Rooms, NEW t \in Within(gs', r)
               PROVE  Online(t) \/ t \in replaced \/ \E u \in Sessions \ {t} : sock[u] = sock[t]
    BY <1>2 DEF NoGhosts, Online, Within
  <2>1. CASE t = s  BY <1>1, <2>1
  <2>2. CASE t # s
    <3>1. t \in Within(gs, r)  BY <2>2
    <3> QED  BY <3>1 DEF RoomsInv, NoGhosts, Within
  <2> QED  BY <2>1, <2>2
<1> QED
  BY <1>3, <1>5, <1>6, <1>7, <1>8, <1>9, <1>10, <1>11, <1>12 DEF RoomsInv, SessionsInv

\* A room that is there has its settings and a member.
LEMMA RoomIs ==
    ASSUME RoomsInv, NEW r \in Rooms, r \in gs.rooms
    PROVE  gs.data[r] \in RoomData /\ gs.members[r] # <<>>
BY DEF RoomsInv, RoomsTypeOK, GameStates, Stands

\* Settings have no part in who is where.
LEMMA DataHolds ==
    ASSUME RoomsInv, NEW r \in Rooms, r \in gs.rooms, NEW d \in RoomData
    PROVE  LET g == [gs EXCEPT !.data[r] = d]
           IN  /\ g \in GameStates /\ RoomsHold(g, sock, member, Gone) /\ \A q \in Rooms : Stands(g, q)
               /\ g.at = gs.at /\ g.members = gs.members /\ g.hub = gs.hub /\ g.mixed = gs.mixed
               /\ g.rooms = gs.rooms /\ g.data = [gs.data EXCEPT ![r] = d]
<1> DEFINE g == [gs EXCEPT !.data[r] = d]
<1>0. gs \in GameStates  BY DEF RoomsInv, RoomsTypeOK
<1>1. /\ g.at = gs.at /\ g.members = gs.members /\ g.hub = gs.hub /\ g.mixed = gs.mixed
      /\ g.rooms = gs.rooms /\ g.data = [gs.data EXCEPT ![r] = d] /\ g.view = gs.view
  BY <1>0 DEF GameStates
<1>2. g \in GameStates
  <2>1. gs.data \in [Rooms -> RoomData \cup {NoData}]  BY <1>0 DEF GameStates
  <2>2. [gs.data EXCEPT ![r] = d] \in [Rooms -> RoomData \cup {NoData}]  BY <2>1
  <2>3. g = [gs EXCEPT !.data = [gs.data EXCEPT ![r] = d]]  BY <1>0 DEF GameStates
  <2> HIDE DEF g
  <2> QED  BY <1>0, <2>2, <2>3 DEF GameStates
<1> HIDE DEF g
<1>3. \A q \in Rooms : Within(g, q) = Within(gs, q)  BY <1>1 DEF Within
<1>4. RoomsHold(g, sock, member, Gone)
  <2>1. RoomsHold(gs, sock, member, Gone)  BY DEF RoomsInv
  <2>2. Seats(g)  BY <1>1, <1>3, <2>1 DEF RoomsHold, Seats
  <2>3. Hubs(g, sock, Gone)  BY <1>1, <1>3, <2>1 DEF RoomsHold, Hubs
  <2>4. Whole(g)  BY <1>1, <2>1 DEF RoomsHold, Whole, Within
  <2>5. Distinct(g, sock, member)  BY <1>1, <1>3, <2>1 DEF RoomsHold, Distinct
  <2>6. Apart(g)  BY <1>1, <2>1 DEF RoomsHold, Apart
  <2>7. Seen(g, member)  BY <1>1, <2>1 DEF RoomsHold, Seen
  <2> QED  BY <2>2, <2>3, <2>4, <2>5, <2>6, <2>7 DEF RoomsHold
<1>5. \A q \in Rooms : Stands(g, q)
  <2> TAKE q \in Rooms
  <2>1. Stands(gs, q)  BY DEF RoomsInv
  <2>2. CASE q = r
    <3>1. gs.members[r] # <<>> /\ d # NoData  BY RoomIs, RoomsAssumption
    <3>2. g.data[r] = d  BY <1>0, <1>1 DEF GameStates
    <3> QED  BY <1>1, <2>1, <2>2, <3>1, <3>2 DEF Stands
  <2>3. CASE q # r
    <3>1. g.data[q] = gs.data[q]  BY <1>0, <1>1, <2>3 DEF GameStates
    <3> QED  BY <1>1, <2>1, <3>1 DEF Stands
  <2> QED  BY <2>2, <2>3
<1> QED  BY <1>1, <1>2, <1>4, <1>5 DEF g

\* A change of a room's settings to d keeps the names apart, if d's name is no other room's.
LEMMA DataNames ==
    ASSUME RoomsInv, NEW r \in Rooms, r \in gs.rooms, NEW d \in RoomData, NEW g \in GameStates,
           g.rooms = gs.rooms, g.data = [gs.data EXCEPT ![r] = d],
           \A q \in gs.rooms \ {r} : Upper(gs.data[q].name) # Upper(d.name)
    PROVE  NamesDiffer(g)
<1>0. gs.rooms \subseteq Rooms /\ gs.data \in [Rooms -> RoomData \cup {NoData}]
  BY DEF RoomsInv, RoomsTypeOK, GameStates
<1>1. g.data[r] = d /\ \A q \in gs.rooms \ {r} : g.data[q] = gs.data[q]
  BY <1>0
<1>2. \A p, q \in gs.rooms : Upper(gs.data[p].name) = Upper(gs.data[q].name) => p = q
  BY DEF RoomsInv, NamesDiffer
<1> SUFFICES ASSUME NEW p \in gs.rooms, NEW q \in gs.rooms, Upper(g.data[p].name) = Upper(g.data[q].name)
             PROVE  p = q
  BY DEF NamesDiffer
<1>3. CASE p = r /\ q # r  BY <1>1, <1>3
<1>4. CASE p # r /\ q = r  BY <1>1, <1>4
<1>5. CASE p # r /\ q # r  BY <1>1, <1>2, <1>5
<1> QED  BY <1>3, <1>4, <1>5

\* As long as the name stays, they do.
LEMMA SameNames ==
    ASSUME RoomsInv, NEW r \in Rooms, r \in gs.rooms, NEW d \in RoomData, d.name = gs.data[r].name
    PROVE  NamesDiffer([gs EXCEPT !.data[r] = d])
<1> DEFINE g == [gs EXCEPT !.data[r] = d]
<1>1. g \in GameStates /\ g.rooms = gs.rooms /\ g.data = [gs.data EXCEPT ![r] = d]
  BY DataHolds
<1>2. \A q \in gs.rooms \ {r} : Upper(gs.data[q].name) # Upper(d.name)
  BY DEF RoomsInv, NamesDiffer
<1> HIDE DEF g
<1>3. NamesDiffer(g)  BY <1>1, <1>2, DataNames
<1> QED  BY <1>3 DEF g

\* A session that leaves its room, after a change of its settings or not.
LEMMA OutStep ==
    ASSUME RoomsInv, NEW c \in Conns, NEW s \in Sessions, Handling(c, s),
           UNCHANGED <<link, online, rm, login, looks, removed, replaced>>, edits' \in Nat,
           NEW g \in GameStates, RoomsHold(g, sock, member, Gone), \A r \in Rooms : Stands(g, r),
           g.at = gs.at, g.members = gs.members, g.hub = gs.hub, g.mixed = gs.mixed, NamesDiffer(g),
           NEW u \in Sessions, Clear(gs, u, sock[u]), gs' = Left(g, u)
    PROVE  RoomsInv'
<1>0. /\ sock \in [Sessions -> Conns \cup {NoConn}] /\ member \in [Sessions -> Members \cup {NoMember}]
      /\ gs \in GameStates /\ gs.at \in [Sessions -> Rooms \cup {NoRoom}]
  BY DEF RoomsInv, RoomsTypeOK, GameStates
<1>1. Clear(g, u, sock[u])  BY DEF Clear
<1>2. /\ gs' \in GameStates /\ RoomsHold(gs', sock, member, Gone)
      /\ gs'.at = [g.at EXCEPT ![u] = NoRoom]
      /\ gs'.mixed = g.mixed
      /\ \A r \in Rooms : /\ gs'.hub[r] \subseteq g.hub[r]
                          /\ Within(gs', r) \subseteq Within(g, r)
                          /\ Stands(g, r) => Stands(gs', r)
                          /\ r \in gs'.rooms => r \in g.rooms /\ gs'.data[r] = g.data[r]
  BY <1>0, <1>1, LeftHolds
<1>3. \A r \in Rooms : Stands(gs', r)  BY <1>2
<1>4. NamesDiffer(gs')
  <2>1. gs'.rooms \subseteq Rooms  BY <1>2 DEF GameStates
  <2>2. \A r \in gs'.rooms : r \in g.rooms /\ gs'.data[r] = g.data[r]  BY <1>2, <2>1
  <2> QED  BY <2>2 DEF NamesDiffer
<1>5. \A t \in Sessions : gs'.at[t] \in {gs.at[t], NoRoom}
  BY <1>0, <1>2
<1>6. \A r \in Rooms : Within(gs', r) \subseteq Within(gs, r) \cup {s}
  BY <1>2 DEF Within
<1>7. \A t \in Sessions : \A d : Clear(gs, t, d) => Clear(gs', t, d)
  BY <1>0, <1>2, <1>5, ClearStays
<1>8. Clear(gs', s, c)  BY <1>7, HandlingIs
<1> QED  BY <1>2, <1>3, <1>4, <1>5, <1>6, <1>7, <1>8, MoveStep

\* A session that has left its room for another.
LEMMA InStep ==
    ASSUME RoomsInv, NEW c \in Conns, NEW s \in Sessions, Handling(c, s),
           UNCHANGED <<link, online, rm, login, looks, removed, replaced, edits>>,
           NEW g \in GameStates, RoomsHold(g, sock, member, Gone), NamesDiffer(g),
           g.at = [gs.at EXCEPT ![s] = NoRoom],
           \A q \in Rooms : Within(g, q) \subseteq Within(gs, q),
           \A t \in Sessions, d \in Conns : Clear(gs, t, d) => Clear(g, t, d),
           NEW r \in Rooms, r \in g.rooms, g.data[r] # NoData,
           \A q \in Rooms \ {r} : Stands(g, q),
           gs' = Entered(g, s, r)
    PROVE  RoomsInv'
<1>0. /\ sock \in [Sessions -> Conns \cup {NoConn}] /\ member \in [Sessions -> Members \cup {NoMember}]
      /\ gs \in GameStates /\ gs.at \in [Sessions -> Rooms \cup {NoRoom}] /\ edits' \in Nat
  BY DEF RoomsInv, RoomsTypeOK, GameStates
<1>1. sock[s] = c /\ c \notin Gone /\ g.at[s] = NoRoom
  BY <1>0, HandlingIs
<1>2. /\ gs' \in GameStates /\ RoomsHold(gs', sock, member, Gone)
      /\ gs'.at = [g.at EXCEPT ![s] = r]
      /\ gs'.members = [g.members EXCEPT ![r] = Joined(g, s, r)]
      /\ gs'.rooms = g.rooms /\ gs'.data = g.data
      /\ Clear(gs', s, sock[s])
      /\ \A t \in Sessions, d \in Conns :
            t # s /\ d # sock[s] /\ Clear(g, t, d) => Clear(gs', t, d)
  <2> DEFINE h == Entered(g, s, r)
             done == Gone
  <2>1. RoomsHold(g, sock, member, done) /\ sock[s] \in Conns /\ sock[s] \notin done  BY <1>1
  <2> HIDE DEF done
  <2>2. /\ h \in GameStates /\ RoomsHold(h, sock, member, done)
        /\ h.at = [g.at EXCEPT ![s] = r]
        /\ h.members = [g.members EXCEPT ![r] = Joined(g, s, r)]
        /\ h.rooms = g.rooms /\ h.data = g.data
        /\ Clear(h, s, sock[s])
        /\ \A t \in Sessions, d \in Conns :
              t # s /\ d # sock[s] /\ Clear(g, t, d) => Clear(h, t, d)
    BY <1>0, <1>1, <2>1, EnteredHolds
  <2>3. gs' = h  OBVIOUS
  <2> HIDE DEF h
  <2> QED  BY <2>2, <2>3 DEF done
<1>3. /\ g.members \in [Rooms -> Seq(Sessions)] /\ g.members[r] \in Seq(Sessions)
      /\ g.at \in [Sessions -> Rooms \cup {NoRoom}]
  BY DEF GameStates
<1>4. Joined(g, s, r) # <<>> /\ ToSet(Joined(g, s, r)) = Within(g, r) \cup {s}
  BY <1>3, ToSetAppend DEF Joined, Within
<1>5. /\ gs'.members[r] = Joined(g, s, r)
      /\ \A q \in Rooms \ {r} : gs'.members[q] = g.members[q]
  BY <1>2, <1>3
<1>6. \A q \in Rooms : Stands(gs', q)
  <2> TAKE q \in Rooms
  <2>1. CASE q = r  BY <1>2, <1>4, <1>5, <2>1 DEF Stands
  <2>2. CASE q # r
    <3>1. Stands(g, q)  BY <2>2
    <3> QED  BY <1>2, <1>5, <2>2, <3>1 DEF Stands
  <2> QED  BY <2>1, <2>2
<1>7. NamesDiffer(gs')  BY <1>2 DEF NamesDiffer
<1>8. \A t \in Sessions \ {s} : gs'.at[t] \in {gs.at[t], NoRoom}
  BY <1>0, <1>2, <1>3
<1>9. \A q \in Rooms : Within(gs', q) \subseteq Within(gs, q) \cup {s}
  <2> TAKE q \in Rooms
  <2>1. CASE q = r  BY <1>4, <1>5, <2>1 DEF Within
  <2>2. CASE q # r  BY <1>5, <2>2 DEF Within
  <2> QED  BY <2>1, <2>2
<1>10. \A t \in Sessions, d \in Conns : t # s /\ d # c /\ Clear(gs, t, d) => Clear(gs', t, d)
  BY <1>1, <1>2
<1> QED  BY <1>0, <1>1, <1>2, <1>6, <1>7, <1>8, <1>9, <1>10, MoveStep

-----------------------------------------------------------------------------
(* Chat rooms: the handlers                                                 *)

\* Who is where does not depend on which rooms are listed, nor on their settings.
LEMMA SamePlaces ==
    ASSUME NEW g, NEW h, NEW gone, RoomsHold(g, sock, member, gone),
           h.at = g.at, h.members = g.members, h.hub = g.hub, h.mixed = g.mixed, h.view = g.view
    PROVE  RoomsHold(h, sock, member, gone)
<1>1. \A q \in Rooms : Within(h, q) = Within(g, q)  BY DEF Within
<1>2. Seats(h)  BY <1>1 DEF RoomsHold, Seats
<1>3. Hubs(h, sock, gone)  BY <1>1 DEF RoomsHold, Hubs
<1>4. Whole(h)  BY DEF RoomsHold, Whole, Within
<1>5. Distinct(h, sock, member)  BY <1>1 DEF RoomsHold, Distinct
<1>6. Apart(h)  BY DEF RoomsHold, Apart
<1>7. Seen(h, member)  BY DEF RoomsHold, Seen
<1> QED  BY <1>2, <1>3, <1>4, <1>5, <1>6, <1>7 DEF RoomsHold

\* New settings, whose name is no other room's.
LEMMA DataStep ==
    ASSUME RoomsInv, NEW c \in Conns, NEW s \in Sessions, Handling(c, s),
           UNCHANGED <<link, online, rm, login, looks, removed, replaced>>, edits' \in Nat,
           NEW r \in Rooms, r \in gs.rooms, NEW d \in RoomData,
           gs' = [gs EXCEPT !.data[r] = d], NamesDiffer(gs')
    PROVE  RoomsInv'
<1>1. /\ gs' \in GameStates /\ RoomsHold(gs', sock, member, Gone) /\ \A q \in Rooms : Stands(gs', q)
      /\ gs'.at = gs.at /\ gs'.members = gs.members /\ gs'.hub = gs.hub /\ gs'.mixed = gs.mixed
  BY DataHolds
<1>2. \A t \in Sessions : \A e : Clear(gs, t, e) => Clear(gs', t, e)
  BY <1>1 DEF Clear
<1>3. \A q \in Rooms : Within(gs', q) \subseteq Within(gs, q) \cup {s}
  BY <1>1 DEF Within
<1>4. Clear(gs', s, c)  BY <1>2, HandlingIs
<1>5. \A t \in Sessions \ {s} : gs'.at[t] \in {gs.at[t], NoRoom}  BY <1>1
<1>6. \A t \in Sessions, e \in Conns : t # s /\ e # c /\ Clear(gs, t, e) => Clear(gs', t, e)
  BY <1>2
<1> QED  BY <1>1, <1>3, <1>4, <1>5, <1>6, MoveStep

\* ChatRoomAdmin's caller is handled, in a room that is there.
LEMMA AdministersIs ==
    ASSUME RoomsInv, NEW c \in Conns, NEW s \in Sessions, NEW r \in Rooms, Administers(c, s, r), Edited
    PROVE  /\ Handling(c, s) /\ r \in gs.rooms /\ gs.data[r] \in RoomData /\ gs.members[r] # <<>>
           /\ edits' \in Nat /\ removed' = removed /\ replaced' = replaced
<1>1. Handling(c, s) /\ r \in gs.rooms  BY DEF Administers
<1>2. edits \in Nat  BY DEF RoomsInv, RoomsTypeOK
<1> QED  BY <1>1, <1>2, RoomIs DEF Edited

LEMMA UpdateKeeps ==
    ASSUME RoomsInv, NEW c \in Conns, NEW s \in Sessions, Update(c, s)
    PROVE  RoomsInv'
<1>0. Edited /\ UNCHANGED <<link, online, rm, login, looks>>  BY DEF Update
<1>1. PICK r \in Rooms, o \in Offers : Administers(c, s, r) /\ ~Taken(r, o.name) /\ gs' = [gs EXCEPT !.data[r] = o]
  BY DEF Update
<1>2. /\ Handling(c, s) /\ r \in gs.rooms /\ edits' \in Nat /\ removed' = removed /\ replaced' = replaced
      /\ gs.data[r] \in RoomData
  BY <1>0, <1>1, AdministersIs
<1>3. o \in RoomData  BY RoomsAssumption
<1>4. \A q \in gs.rooms \ {r} : Upper(gs.data[q].name) # Upper(o.name)
  <2> SUFFICES ASSUME NEW q \in gs.rooms \ {r}, Upper(gs.data[q].name) = Upper(o.name) PROVE FALSE
    OBVIOUS
  <2>1. Upper(gs.data[r].name) = o.name  BY <1>1 DEF Taken
  <2>2. gs.data[r].name \in Names  BY <1>2 DEF RoomData
  <2>3. Upper(o.name) = Upper(gs.data[r].name)  BY <2>1, <2>2, RoomsAssumption
  <2> QED  BY <1>2, <2>3 DEF RoomsInv, NamesDiffer
<1>5. NamesDiffer(gs')
  <2> DEFINE g == [gs EXCEPT !.data[r] = o]
  <2>1. g \in GameStates /\ g.rooms = gs.rooms /\ g.data = [gs.data EXCEPT ![r] = o]
    BY <1>2, <1>3, DataHolds
  <2>2. gs' = g  BY <1>1
  <2> HIDE DEF g
  <2>3. NamesDiffer(g)  BY <1>2, <1>3, <1>4, <2>1, DataNames
  <2> QED  BY <2>2, <2>3
<1> QED  BY <1>0, <1>1, <1>2, <1>3, <1>5, DataStep

LEMMA EnlistKeeps ==
    ASSUME RoomsInv, NEW c \in Conns, NEW s \in Sessions, Enlist(c, s)
    PROVE  RoomsInv'
<1>0. Edited /\ UNCHANGED <<link, online, rm, login, looks>>  BY DEF Enlist
<1>1. PICK r \in Rooms, m \in Members \ {member[s]} :
          /\ Administers(c, s, r)
          /\ \/ gs' = [gs EXCEPT !.data[r].ban = @ \ {m}]
             \/ gs' = [gs EXCEPT !.data[r].admin = @ \cup {m}]
             \/ gs' = [gs EXCEPT !.data[r].admin = @ \ {m}]
             \/ gs' = [gs EXCEPT !.data[r].white = @ \cup {m}]
             \/ gs' = [gs EXCEPT !.data[r].white = @ \ {m}]
  BY DEF Enlist
<1>2. /\ Handling(c, s) /\ r \in gs.rooms /\ edits' \in Nat /\ removed' = removed /\ replaced' = replaced
      /\ gs.data[r] \in RoomData
  BY <1>0, <1>1, AdministersIs
<1> DEFINE e == gs.data[r]
<1>3. /\ gs.data \in [Rooms -> RoomData \cup {NoData}]
      /\ gs \in GameStates
  BY DEF RoomsInv, RoomsTypeOK, GameStates
<1>4. PICK d \in RoomData : d.name = e.name /\ gs' = [gs EXCEPT !.data[r] = d]
  <2>1. CASE gs' = [gs EXCEPT !.data[r].ban = @ \ {m}]
    <3>1. [e EXCEPT !.ban = @ \ {m}] \in RoomData /\ [e EXCEPT !.ban = @ \ {m}].name = e.name
      BY <1>2 DEF RoomData
    <3> QED  BY <2>1, <3>1
  <2>2. CASE gs' = [gs EXCEPT !.data[r].admin = @ \cup {m}]
    <3>1. [e EXCEPT !.admin = @ \cup {m}] \in RoomData /\ [e EXCEPT !.admin = @ \cup {m}].name = e.name
      BY <1>2 DEF RoomData
    <3> QED  BY <2>2, <3>1
  <2>3. CASE gs' = [gs EXCEPT !.data[r].admin = @ \ {m}]
    <3>1. [e EXCEPT !.admin = @ \ {m}] \in RoomData /\ [e EXCEPT !.admin = @ \ {m}].name = e.name
      BY <1>2 DEF RoomData
    <3> QED  BY <2>3, <3>1
  <2>4. CASE gs' = [gs EXCEPT !.data[r].white = @ \cup {m}]
    <3>1. [e EXCEPT !.white = @ \cup {m}] \in RoomData /\ [e EXCEPT !.white = @ \cup {m}].name = e.name
      BY <1>2 DEF RoomData
    <3> QED  BY <2>4, <3>1
  <2>5. CASE gs' = [gs EXCEPT !.data[r].white = @ \ {m}]
    <3>1. [e EXCEPT !.white = @ \ {m}] \in RoomData /\ [e EXCEPT !.white = @ \ {m}].name = e.name
      BY <1>2 DEF RoomData
    <3> QED  BY <2>5, <3>1
  <2> QED  BY <1>1, <2>1, <2>2, <2>3, <2>4, <2>5
<1>5. NamesDiffer(gs')  BY <1>2, <1>4, SameNames
<1> QED  BY <1>0, <1>2, <1>4, <1>5, DataStep

\* The first of a room's members with a number is one of its members.
LEMMA FirstIs ==
    ASSUME RoomsInv, NEW r \in Rooms, NEW m, Present(r, m)
    PROVE  First(r, m) \in Within(gs, r) /\ member[First(r, m)] = m
<1> DEFINE q == gs.members[r]
           Has == {i \in 1 .. Len(q) : member[q[i]] = m}
<1>1. q \in Seq(Sessions)  BY DEF RoomsInv, RoomsTypeOK, GameStates
<1>2. Has # {} /\ Has \subseteq Nat  BY <1>1 DEF Present
<1>3. PICK i \in Has : \A k \in Has : ~(<<k, i>> \in OpToRel(<, Nat))
  <2> HIDE DEF Has
  <2> QED  BY <1>2, NatLessThanWellFounded, WFMin
<1>4. \A k \in Has : ~(k < i)  BY <1>2, <1>3 DEF OpToRel
<1>5. \A k \in 1 .. i - 1 : member[q[k]] # m
  <2> TAKE k \in 1 .. i - 1
  <2>1. i \in Nat /\ i \in 1 .. Len(q) /\ Len(q) \in Nat  BY <1>1
  <2>2. k \in 1 .. Len(q) /\ k < i  BY <2>1
  <2> QED  BY <1>4, <2>2
<1> DEFINE n0 == CHOOSE j \in 1 .. Len(gs.members[r]) :
                    /\ member[gs.members[r][j]] = m
                    /\ \A k \in 1 .. j - 1 : member[gs.members[r][k]] # m
<1>6. n0 \in 1 .. Len(q) /\ member[q[n0]] = m
  BY <1>5
<1>7. First(r, m) = q[n0]  BY DEF First
<1> HIDE DEF n0
<1>8. q[n0] \in Within(gs, r)  BY <1>1, <1>6 DEF Within, ToSet
<1> QED  BY <1>6, <1>7, <1>8

LEMMA KickKeeps ==
    ASSUME RoomsInv, NEW c \in Conns, NEW s \in Sessions, Kick(c, s)
    PROVE  RoomsInv'
<1>0. Edited /\ UNCHANGED <<link, online, rm, login, looks>>  BY DEF Kick
<1>1. PICK r \in Rooms, m \in Members : Administers(c, s, r) /\ Present(r, m) /\ gs' = Left(gs, First(r, m))
  BY DEF Kick
<1>2. /\ Handling(c, s) /\ edits' \in Nat /\ removed' = removed /\ replaced' = replaced
  BY <1>0, <1>1, AdministersIs
<1> DEFINE u == First(r, m)
           done == Gone
<1>3. u \in Within(gs, r)  BY <1>1, FirstIs
<1>4. /\ gs \in GameStates /\ RoomsHold(gs, sock, member, done) /\ NamesDiffer(gs)
      /\ \A q \in Rooms : Stands(gs, q)
  BY DEF RoomsInv, RoomsTypeOK
<1>5. gs' = Left(gs, u)  BY <1>1
<1> HIDE DEF u, done
<1>6. u \in Sessions /\ Clear(gs, u, sock[u])  BY <1>3, <1>4, MemberClear
<1> USE DEF done
<1> QED  BY <1>0, <1>2, <1>4, <1>5, <1>6, OutStep

LEMMA BanKeeps ==
    ASSUME RoomsInv, NEW c \in Conns, NEW s \in Sessions, Ban(c, s)
    PROVE  RoomsInv'
<1>0. Edited /\ UNCHANGED <<link, online, rm, login, looks>>  BY DEF Ban
<1>1. PICK r \in Rooms, m \in Members :
          /\ Administers(c, s, r)
          /\ LET g == [gs EXCEPT !.data[r].ban = @ \cup {m}]
             IN  gs' = IF Present(r, m) THEN Left(g, First(r, m)) ELSE g
  BY DEF Ban
<1>2. /\ Handling(c, s) /\ r \in gs.rooms /\ edits' \in Nat /\ removed' = removed /\ replaced' = replaced
      /\ gs.data[r] \in RoomData
  BY <1>0, <1>1, AdministersIs
<1> DEFINE d == [gs.data[r] EXCEPT !.ban = @ \cup {m}]
           g == [gs EXCEPT !.data[r] = d]
           u == First(r, m)
           done == Gone
<1>3. d \in RoomData /\ d.name = gs.data[r].name  BY <1>2 DEF RoomData
<1>4. gs' = IF Present(r, m) THEN Left(g, u) ELSE g  BY <1>1
<1> HIDE DEF d
<1>5. NamesDiffer(g)  BY <1>2, <1>3, SameNames
<1>6. CASE ~Present(r, m)
  <2>1. gs' = g  BY <1>4, <1>6
  <2> QED  BY <1>0, <1>2, <1>3, <1>5, <2>1, DataStep
<1>7. CASE Present(r, m)
  <2>1. gs' = Left(g, u)  BY <1>4, <1>7
  <2>2. /\ g \in GameStates /\ RoomsHold(g, sock, member, Gone) /\ \A q \in Rooms : Stands(g, q)
        /\ g.at = gs.at /\ g.members = gs.members /\ g.hub = gs.hub /\ g.mixed = gs.mixed
    BY <1>2, <1>3, DataHolds
  <2>3. u \in Within(gs, r)  BY <1>7, FirstIs
  <2>4. gs \in GameStates /\ RoomsHold(gs, sock, member, done)  BY DEF RoomsInv, RoomsTypeOK
  <2> HIDE DEF g, u, done
  <2>5. u \in Sessions /\ Clear(gs, u, sock[u])  BY <2>3, <2>4, MemberClear
  <2> QED  BY <1>0, <1>2, <1>5, <2>1, <2>2, <2>5, OutStep
<1> QED  BY <1>6, <1>7

\* Whoever is handled may leave its room, for another.
LEMMA LeftFor ==
    ASSUME RoomsInv, NEW c \in Conns, NEW s \in Sessions, Handling(c, s)
    PROVE  LET h == Left(gs, s)
           IN  /\ h \in GameStates /\ RoomsHold(h, sock, member, Gone)
               /\ h.at = [gs.at EXCEPT ![s] = NoRoom]
               /\ \A q \in Rooms : /\ Within(h, q) \subseteq Within(gs, q)
                                   /\ Stands(h, q)
                                   /\ q \in h.rooms => q \in gs.rooms /\ h.data[q] = gs.data[q]
                                   /\ q # gs.at[s] => h.members[q] = gs.members[q]
               /\ \A t \in Sessions, d \in Conns : Clear(gs, t, d) => Clear(h, t, d)
               /\ h.mixed = gs.mixed /\ \A q \in Rooms : h.hub[q] \subseteq gs.hub[q]
<1> DEFINE h == Left(gs, s)
           done == Gone
<1>1. /\ sock \in [Sessions -> Conns \cup {NoConn}] /\ member \in [Sessions -> Members \cup {NoMember}]
      /\ gs \in GameStates /\ RoomsHold(gs, sock, member, done) /\ Clear(gs, s, sock[s])
      /\ \A q \in Rooms : Stands(gs, q)
  BY HandlingIs DEF RoomsInv, RoomsTypeOK
<1> HIDE DEF done
<1>2. /\ h \in GameStates /\ RoomsHold(h, sock, member, done)
      /\ h.at = [gs.at EXCEPT ![s] = NoRoom]
      /\ h.mixed = gs.mixed
      /\ \A r \in Rooms : /\ h.hub[r] \subseteq gs.hub[r]
                          /\ Within(h, r) \subseteq Within(gs, r)
                          /\ Stands(gs, r) => Stands(h, r)
                          /\ r \in h.rooms => r \in gs.rooms /\ h.data[r] = gs.data[r]
                          /\ r # gs.at[s] => h.members[r] = gs.members[r]
  BY <1>1, LeftHolds
<1> HIDE DEF h
<1>3. \A t \in Sessions : h.at[t] \in {gs.at[t], NoRoom}
  BY <1>1, <1>2 DEF GameStates
<1>4. \A t \in Sessions, d \in Conns : Clear(gs, t, d) => Clear(h, t, d)
  BY <1>1, <1>2, <1>3, ClearStays
<1> USE DEF h, done
<1> QED  BY <1>1, <1>2, <1>4

LEMMA LeaveKeeps ==
    ASSUME RoomsInv, NEW c \in Conns, NEW s \in Sessions, Leave(c, s)
    PROVE  RoomsInv'
<1>1. /\ Handling(c, s) /\ gs' = Left(gs, s)
      /\ UNCHANGED <<link, online, rm, login, looks, removed, replaced>> /\ edits' = edits
  BY DEF Leave, history
<1>2. /\ gs \in GameStates /\ RoomsHold(gs, sock, member, Gone) /\ NamesDiffer(gs)
      /\ \A q \in Rooms : Stands(gs, q) /\ edits \in Nat
  BY DEF RoomsInv, RoomsTypeOK
<1>3. Clear(gs, s, sock[s])  BY <1>1, HandlingIs
<1>4. edits' \in Nat  BY <1>1, <1>2 DEF RoomsInv, RoomsTypeOK
<1> QED  BY <1>1, <1>2, <1>3, <1>4, OutStep

LEMMA JoinKeeps ==
    ASSUME RoomsInv, NEW c \in Conns, NEW s \in Sessions, Join(c, s)
    PROVE  RoomsInv'
<1>0. Handling(c, s) /\ UNCHANGED <<link, online, rm, login, looks, removed, replaced, edits>>
  BY DEF Join, history
<1>n. PICK n \in Names :
         \E r \in Named(n) : Answer(r, s) = "JoinedRoom" /\ gs' = Entered(Left(gs, s), s, r)
  BY DEF Join
<1>1. PICK r \in Named(n) : Answer(r, s) = "JoinedRoom" /\ gs' = Entered(Left(gs, s), s, r)
  BY <1>n
<1>2. r \in gs.rooms /\ r \in Rooms /\ gs \in GameStates
  BY DEF Named, RoomsInv, RoomsTypeOK, GameStates
<1>3. r # gs.at[s]
  <2>1. ASSUME gs.at[s] = r PROVE Answer(r, s) # "JoinedRoom"
    BY <2>1 DEF Answer
  <2> QED  BY <1>1, <2>1
<1> DEFINE g == Left(gs, s)
<1>4. /\ g \in GameStates /\ RoomsHold(g, sock, member, Gone)
      /\ g.at = [gs.at EXCEPT ![s] = NoRoom]
      /\ \A q \in Rooms : /\ Within(g, q) \subseteq Within(gs, q)
                          /\ Stands(g, q)
                          /\ q \in g.rooms => q \in gs.rooms /\ g.data[q] = gs.data[q]
                          /\ q # gs.at[s] => g.members[q] = gs.members[q]
      /\ \A t \in Sessions, d \in Conns : Clear(gs, t, d) => Clear(g, t, d)
  BY <1>0, LeftFor
<1>5. gs' = Entered(g, s, r)  BY <1>1
<1> HIDE DEF g
<1>6. r \in g.rooms /\ g.data[r] # NoData
  <2>1. gs.members[r] # <<>>  BY <1>2, RoomIs
  <2>2. g.members[r] = gs.members[r] /\ Stands(g, r)  BY <1>2, <1>3, <1>4
  <2> QED  BY <2>1, <2>2 DEF Stands
<1>7. NamesDiffer(g)
  <2>1. \A q \in g.rooms : q \in gs.rooms /\ g.data[q] = gs.data[q]  BY <1>4 DEF GameStates
  <2> QED  BY <2>1 DEF RoomsInv, NamesDiffer
<1> QED  BY <1>0, <1>2, <1>4, <1>5, <1>6, <1>7, InStep

LEMMA CreateKeeps ==
    ASSUME RoomsInv, NEW c \in Conns, NEW s \in Sessions, Create(c, s)
    PROVE  RoomsInv'
<1>0. Handling(c, s) /\ UNCHANGED <<link, online, rm, login, looks, removed, replaced, edits>>
  BY DEF Create
<1>1. PICK o \in Offers, r \in Rooms :
          /\ Named(o.name) = {} /\ gs.data[r] = NoData /\ \A t \in Sessions : gs.at[t] # r
          /\ \E d \in {o, [o EXCEPT !.admin = {member[s]}]} :
                gs' = Entered([Left(gs, s) EXCEPT !.rooms = @ \cup {r}, !.data[r] = d], s, r)
  BY DEF Create
<1>2. PICK d \in {o, [o EXCEPT !.admin = {member[s]}]} :
          gs' = Entered([Left(gs, s) EXCEPT !.rooms = @ \cup {r}, !.data[r] = d], s, r)
  BY <1>1
<1>3. d \in RoomData /\ d.name = o.name /\ d # NoData
  <2>1. o \in RoomData /\ member[s] \in Members  BY <1>0, HandlingIs, RoomsAssumption
  <2>2. [o EXCEPT !.admin = {member[s]}] \in RoomData /\ [o EXCEPT !.admin = {member[s]}].name = o.name
    BY <2>1 DEF RoomData
  <2> QED  BY <2>1, <2>2, RoomsAssumption
<1> DEFINE h == Left(gs, s)
           g == [h EXCEPT !.rooms = @ \cup {r}, !.data[r] = d]
<1>4. /\ h \in GameStates /\ RoomsHold(h, sock, member, Gone)
      /\ h.at = [gs.at EXCEPT ![s] = NoRoom]
      /\ \A q \in Rooms : /\ Within(h, q) \subseteq Within(gs, q)
                          /\ Stands(h, q)
                          /\ q \in h.rooms => q \in gs.rooms /\ h.data[q] = gs.data[q]
                          /\ q # gs.at[s] => h.members[q] = gs.members[q]
      /\ \A t \in Sessions, e \in Conns : Clear(gs, t, e) => Clear(h, t, e)
  BY <1>0, LeftFor
<1>5. gs' = Entered(g, s, r)  BY <1>2
<1> HIDE DEF h
<1>6. /\ g.at = h.at /\ g.members = h.members /\ g.hub = h.hub /\ g.mixed = h.mixed /\ g.view = h.view
      /\ g.rooms = h.rooms \cup {r} /\ g.data = [h.data EXCEPT ![r] = d]
  BY <1>4 DEF GameStates
<1>7. /\ h.rooms \subseteq Rooms /\ h.data \in [Rooms -> RoomData \cup {NoData}]
  BY <1>4 DEF GameStates
<1>8. g \in GameStates
  <2>1. g = [h EXCEPT !.rooms = h.rooms \cup {r}, !.data = [h.data EXCEPT ![r] = d]]
    BY <1>4 DEF GameStates
  <2>2. h.rooms \cup {r} \in SUBSET Rooms /\ [h.data EXCEPT ![r] = d] \in [Rooms -> RoomData \cup {NoData}]
    BY <1>3, <1>7
  <2> HIDE DEF g
  <2> QED  BY <1>4, <2>1, <2>2 DEF GameStates
<1> HIDE DEF g
<1>9. /\ r \in g.rooms /\ g.data[r] = d
      /\ \A q \in Rooms \ {r} : (q \in g.rooms <=> q \in h.rooms) /\ g.data[q] = h.data[q]
  BY <1>6, <1>7
<1>10. RoomsHold(g, sock, member, Gone)
  <2> DEFINE done == Gone
  <2>1. RoomsHold(h, sock, member, done)  BY <1>4
  <2> HIDE DEF done
  <2>2. RoomsHold(g, sock, member, done)  BY <1>6, <2>1, SamePlaces
  <2> QED  BY <2>2 DEF done
<1>11. \A q \in Rooms \ {r} : Stands(g, q)
  <2> TAKE q \in Rooms \ {r}
  <2>1. Stands(h, q)  BY <1>4
  <2> QED  BY <1>6, <1>9, <2>1 DEF Stands
<1>12. \A q \in Rooms : Within(g, q) \subseteq Within(gs, q)
  BY <1>4, <1>6 DEF Within
<1>13. \A t \in Sessions, e \in Conns : Clear(gs, t, e) => Clear(g, t, e)
  BY <1>4, <1>6 DEF Clear
<1>14. NamesDiffer(g)
  <2>1. \A q \in g.rooms \ {r} : /\ q \in gs.rooms /\ g.data[q] = gs.data[q]
                                 /\ Upper(g.data[q].name) # Upper(d.name)
    <3> TAKE q \in g.rooms \ {r}
    <3>1. q \in Rooms \ {r} /\ q \in h.rooms /\ g.data[q] = h.data[q]  BY <1>6, <1>7, <1>9
    <3>2. q \in gs.rooms /\ h.data[q] = gs.data[q]  BY <1>4, <3>1
    <3>3. Upper(gs.data[q].name) # Upper(o.name)  BY <1>1, <3>2 DEF Named
    <3> QED  BY <1>3, <3>1, <3>2, <3>3
  <2>2. \A p, q \in gs.rooms : Upper(gs.data[p].name) = Upper(gs.data[q].name) => p = q
    BY DEF RoomsInv, NamesDiffer
  <2> SUFFICES ASSUME NEW p \in g.rooms, NEW q \in g.rooms, Upper(g.data[p].name) = Upper(g.data[q].name)
               PROVE  p = q
    BY DEF NamesDiffer
  <2>3. CASE p = r /\ q # r  BY <1>9, <2>1, <2>3
  <2>4. CASE p # r /\ q = r  BY <1>9, <2>1, <2>4
  <2>5. CASE p # r /\ q # r  BY <2>1, <2>2, <2>5
  <2> QED  BY <2>3, <2>4, <2>5
<1>15. g.at = [gs.at EXCEPT ![s] = NoRoom] /\ r \in g.rooms /\ g.data[r] # NoData
  BY <1>3, <1>4, <1>6, <1>9
<1> QED  BY <1>0, <1>5, <1>8, <1>10, <1>11, <1>12, <1>13, <1>14, <1>15, InStep

\* A reordering of a room's members has the same members, each once.
LEMMA ReorderingIs ==
    ASSUME NEW T, NEW p \in Seq(T), NEW q \in SetToSeqs(ToSet(p)), Len(q) = Len(p)
    PROVE  q \in Seq(T) /\ ToSet(q) = ToSet(p) /\ IsInjective(q)
<1> DEFINE S == ToSet(p)
           D == 1 .. Cardinality(S)
<1>1. q \in [D -> S] /\ \A i, j \in D : i # j => q[i] # q[j]
  BY DEF SetToSeqs
<1>2. IsFiniteSet(S) /\ Cardinality(S) \in Nat /\ S \subseteq T
  <2>1. S = {p[i] : i \in 1 .. Len(p)} /\ Len(p) \in Nat /\ p \in [1 .. Len(p) -> T]  BY DEF ToSet
  <2>2. p \in Surjection(1 .. Len(p), S)  BY <2>1 DEF Surjection
  <2>3. IsFiniteSet(1 .. Len(p))  BY <2>1, FS_Interval
  <2>4. IsFiniteSet(S)  BY <2>2, <2>3, FS_Surjection
  <2> HIDE DEF S
  <2>5. Cardinality(S) \in Nat  BY <2>4, FS_CardinalityType
  <2> QED  BY <2>1, <2>4, <2>5
<1> HIDE DEF S
<1>3. IsFiniteSet(D) /\ Cardinality(D) = Cardinality(S)
  BY <1>2, FS_Interval
<1>4. q \in Injection(D, S)  BY <1>1 DEF Injection, IsInjective
<1>5. q \in Surjection(D, S)  BY <1>2, <1>3, <1>4, FS_Injection
<1>6. DOMAIN q = D /\ \A y \in S : \E i \in D : q[i] = y
  BY <1>5 DEF Surjection
<1>7. ToSet(q) = S
  <2> HIDE DEF D
  <2> QED  BY <1>1, <1>6 DEF ToSet
<1>8. q \in Seq(T)  BY <1>1, <1>2
<1>9. IsInjective(q)  BY <1>1 DEF IsInjective
<1> QED  BY <1>7, <1>8, <1>9 DEF S

LEMMA ReorderKeeps ==
    ASSUME RoomsInv, NEW c \in Conns, NEW s \in Sessions, Reorder(c, s)
    PROVE  RoomsInv'
<1>0. Edited /\ UNCHANGED <<link, online, rm, login, looks>>  BY DEF Reorder
<1>1. PICK r \in Rooms :
          /\ Administers(c, s, r)
          /\ \E q \in SetToSeqs(ToSet(gs.members[r])) :
                Len(q) = Len(gs.members[r]) /\ gs' = Reordered(r, q)
  BY DEF Reorder
<1>2. PICK q \in SetToSeqs(ToSet(gs.members[r])) : Len(q) = Len(gs.members[r]) /\ gs' = Reordered(r, q)
  BY <1>1
<1>3. /\ Handling(c, s) /\ r \in gs.rooms /\ edits' \in Nat /\ removed' = removed /\ replaced' = replaced
      /\ gs.members[r] # <<>>
  BY <1>0, <1>1, AdministersIs
<1>4. /\ gs \in GameStates /\ RoomsHold(gs, sock, member, Gone) /\ \A p \in Rooms : Stands(gs, p)
      /\ member \in [Sessions -> Members \cup {NoMember}] /\ NamesDiffer(gs)
  BY DEF RoomsInv, RoomsTypeOK
<1>5. /\ gs.members \in [Rooms -> Seq(Sessions)] /\ gs.members[r] \in Seq(Sessions)
      /\ gs.view \in [Conns -> Seq(Members \cup {NoMember})] /\ gs.hub \in [Rooms -> SUBSET Conns]
  BY <1>4 DEF GameStates
<1>6. q \in Seq(Sessions) /\ ToSet(q) = ToSet(gs.members[r]) /\ IsInjective(q)
  <2> DEFINE p == gs.members[r]
  <2>1. p \in Seq(Sessions) /\ q \in SetToSeqs(ToSet(p)) /\ Len(q) = Len(p)  BY <1>2, <1>5
  <2> HIDE DEF p
  <2>2. q \in Seq(Sessions) /\ ToSet(q) = ToSet(p) /\ IsInjective(q)  BY <2>1, ReorderingIs
  <2> QED  BY <2>2 DEF p
<1> DEFINE told == [e \in Conns |-> IF e \in gs.hub[r] THEN Mapped(member, q) ELSE gs.view[e]]
           h == [gs EXCEPT !.members = [gs.members EXCEPT ![r] = q], !.view = told]
<1>7. gs' = h
  <2>1. Told(gs.view, gs.hub[r], [e \in Conns |-> Numbers(q)]) = told
    BY MappedNumbers DEF Told
  <2>2. gs' = [gs EXCEPT !.members[r] = q, !.view = Told(@, gs.hub[r], [e \in Conns |-> Numbers(q)])]
    BY <1>2 DEF Reordered
  <2> HIDE DEF told
  <2> QED  BY <1>4, <2>1, <2>2 DEF GameStates
<1>8. /\ h.at = gs.at /\ h.hub = gs.hub /\ h.mixed = gs.mixed /\ h.rooms = gs.rooms /\ h.data = gs.data
      /\ h.members = [gs.members EXCEPT ![r] = q] /\ h.view = told
  <2> HIDE DEF told
  <2> QED  BY <1>4 DEF GameStates
<1>9. h \in GameStates
  <2>1. Mapped(member, q) \in Seq(Members \cup {NoMember})
    <3>1. q \in Seq(Sessions) /\ \A i \in 1 .. Len(q) : q[i] \in Sessions  BY <1>6
    <3> QED  BY <1>4, <3>1 DEF Mapped
  <2>2. told \in [Conns -> Seq(Members \cup {NoMember})]  BY <1>5, <2>1
  <2>3. [gs.members EXCEPT ![r] = q] \in [Rooms -> Seq(Sessions)]  BY <1>5, <1>6
  <2> HIDE DEF told
  <2> QED  BY <1>4, <2>2, <2>3 DEF GameStates
<1> HIDE DEF h
<1>10. /\ h.members[r] = q /\ \A p \in Rooms \ {r} : h.members[p] = gs.members[p]
       /\ \A p \in Rooms : Within(h, p) = Within(gs, p)
  BY <1>5, <1>6, <1>8 DEF Within
<1>11. RoomsHold(h, sock, member, Gone)
  <2>1. Seats(h)
    <3>1. \A p \in Rooms : IsInjective(h.members[p])  BY <1>4, <1>6, <1>10 DEF RoomsHold, Seats
    <3> QED  BY <1>4, <1>8, <1>10, <3>1 DEF RoomsHold, Seats
  <2>2. Hubs(h, sock, Gone)  BY <1>4, <1>8, <1>10 DEF RoomsHold, Hubs
  <2>3. Whole(h)
    <3> SUFFICES ASSUME NEW t \in Sessions, h.at[t] \in Rooms \ h.mixed PROVE t \in Within(h, h.at[t])
      BY DEF Whole
    <3>1. t \in Within(gs, gs.at[t])  BY <1>4, <1>8 DEF RoomsHold, Whole
    <3> QED  BY <1>8, <1>10, <3>1
  <2>4. Distinct(h, sock, member)  BY <1>4, <1>8, <1>10 DEF RoomsHold, Distinct
  <2>5. Apart(h)  BY <1>4, <1>8 DEF RoomsHold, Apart
  <2>6. Seen(h, member)
    <3> SUFFICES ASSUME NEW p \in Rooms \ h.mixed, NEW e \in h.hub[p]
                 PROVE  h.view[e] = Mapped(member, h.members[p])
      BY DEF Seen
    <3>1. e \in Conns /\ e \in gs.hub[p] /\ p \notin gs.mixed /\ gs.view[e] = Mapped(member, gs.members[p])
      BY <1>4, <1>5, <1>8 DEF RoomsHold, Seen
    <3>2. CASE p = r  BY <1>8, <1>10, <3>1, <3>2
    <3>3. CASE p # r
      <4>1. e \notin gs.hub[r]  BY <1>4, <3>1, <3>3 DEF RoomsHold, Apart
      <4> QED  BY <1>8, <1>10, <3>1, <3>3, <4>1
    <3> QED  BY <3>2, <3>3
  <2> QED  BY <2>1, <2>2, <2>3, <2>4, <2>5, <2>6 DEF RoomsHold
<1>12. \A p \in Rooms : Stands(h, p)
  <2> TAKE p \in Rooms
  <2>1. Stands(gs, p)  BY <1>4
  <2>2. CASE p = r
    <3>1. q # <<>>
      <4>1. Len(gs.members[r]) # 0  BY <1>3, <1>5
      <4> QED  BY <1>2, <4>1
    <3> QED  BY <1>3, <1>8, <1>10, <2>1, <2>2, <3>1 DEF Stands
  <2>3. CASE p # r  BY <1>8, <1>10, <2>1, <2>3 DEF Stands
  <2> QED  BY <2>2, <2>3
<1>13. NamesDiffer(h)  BY <1>4, <1>8 DEF NamesDiffer
<1>14. \A t \in Sessions : \A e : Clear(gs, t, e) => Clear(h, t, e)
  BY <1>8 DEF Clear
<1>15. Clear(h, s, c)  BY <1>3, <1>14, HandlingIs
<1>16. /\ \A t \in Sessions \ {s} : h.at[t] \in {gs.at[t], NoRoom}
       /\ \A p \in Rooms : Within(h, p) \subseteq Within(gs, p) \cup {s}
       /\ \A t \in Sessions, e \in Conns : t # s /\ e # c /\ Clear(gs, t, e) => Clear(h, t, e)
  BY <1>8, <1>10, <1>14
<1> QED  BY <1>0, <1>3, <1>7, <1>9, <1>11, <1>12, <1>13, <1>15, <1>16, MoveStep

LEMMA DressKeeps ==
    ASSUME RoomsInv, NEW c \in Conns, NEW s \in Sessions, Dress(c, s)
    PROVE  RoomsInv'
<1>1. PICK i \in 1 .. Len(gs.members[gs.at[s]]) :
          LET t == gs.members[gs.at[s]][i]
          IN  /\ look' = [look EXCEPT ![t] = edits + 1]
              /\ delayed' = [delayed EXCEPT ![t] = edits + 1]
  BY DEF Dress
<1> DEFINE r == gs.at[s]
           t == gs.members[r][i]
<1>2. /\ link' = link /\ bySocket' = bySocket /\ sock' = sock /\ member' = member /\ gs' = gs /\ rm' = rm
      /\ login' = login /\ handed' = handed /\ edits' = edits + 1 /\ removed' = removed /\ replaced' = replaced
      /\ r \in gs.rooms
  BY DEF Dress, Edited, online
<1>3. look' = [look EXCEPT ![t] = edits + 1] /\ delayed' = [delayed EXCEPT ![t] = edits + 1]
  BY <1>1
<1>4. /\ look \in [Sessions -> Nat] /\ delayed \in [Sessions -> Nat] /\ handed \in [Sessions -> Nat]
      /\ edits \in Nat /\ gs \in GameStates /\ removed \subseteq Sessions
  BY DEF RoomsInv, RoomsTypeOK
<1>5. r \in Rooms /\ t \in Sessions /\ gs.at[t] = r
  <2>1. r \in Rooms /\ gs.members[r] \in Seq(Sessions)  BY <1>2, <1>4 DEF GameStates
  <2>2. t \in Within(gs, r) /\ t \in Sessions  BY <2>1 DEF Within, ToSet
  <2> QED  BY <2>1, <2>2 DEF RoomsInv, RoomsHold, Seats
<1> HIDE DEF t
<1>6. RoomsTypeOK'
  <2>1. edits + 1 \in Nat /\ edits' \in Nat  BY <1>2, <1>4
  <2>2. look' \in [Sessions -> Nat]  BY <1>3, <1>4, <2>1
  <2>3. delayed' \in [Sessions -> Nat]  BY <1>3, <1>4, <2>1
  <2> QED  BY <1>2, <2>1, <2>2, <2>3 DEF RoomsInv, RoomsTypeOK
<1>7. Gone' = Gone /\ \A x : Online(x)' <=> Online(x)  BY <1>2 DEF Gone, Online
<1>8. LooksInv'
  <2>1. ASSUME NEW x \in Sessions PROVE look'[x] = IF delayed'[x] # 0 THEN delayed'[x] ELSE handed'[x]
    BY <1>2, <1>3, <1>4 DEF RoomsInv, LooksInv
  <2>2. ASSUME NEW x \in removed
        PROVE ~Online(x) /\ (x \notin replaced => gs.at[x] = NoRoom /\ handed[x] = look'[x])
    <3>1. ~Online(x) /\ (x \notin replaced => gs.at[x] = NoRoom /\ handed[x] = look[x])
      BY DEF RoomsInv, LooksInv
    <3>2. x \notin replaced => x # t  BY <1>5, <3>1, RoomsAssumption
    <3> QED  BY <1>3, <1>4, <3>1, <3>2
  <2> QED  BY <1>2, <1>7, <2>1, <2>2 DEF LooksInv
<1>9. SessionsInv'
  BY <1>2 DEF RoomsInv, SessionsInv, SeatedInv, LoginInv, FreshInv, RemovalInv, ReplacingInv, Clear, Online, Fresh
<1>10. NoGhosts'  BY <1>2 DEF RoomsInv, NoGhosts, Online
<1> QED  BY <1>2, <1>6, <1>7, <1>8, <1>9, <1>10 DEF RoomsInv

LEMMA FlushKeeps ==
    ASSUME RoomsInv, Flush
    PROVE  RoomsInv'
<1>1. /\ link' = link /\ bySocket' = bySocket /\ sock' = sock /\ member' = member /\ gs' = gs /\ rm' = rm
      /\ login' = login /\ look' = look /\ edits' = edits /\ removed' = removed /\ replaced' = replaced
  BY DEF Flush, online, history
<1>2. /\ handed' = [s \in Sessions |-> IF Online(s) /\ delayed[s] # 0 THEN delayed[s] ELSE handed[s]]
      /\ delayed' = [s \in Sessions |-> IF Online(s) THEN 0 ELSE delayed[s]]
  BY DEF Flush, HandsOver
<1>3. look \in [Sessions -> Nat] /\ delayed \in [Sessions -> Nat] /\ handed \in [Sessions -> Nat]
      /\ removed \subseteq Sessions
  BY DEF RoomsInv, RoomsTypeOK
<1>4. RoomsTypeOK'
  <2>1. delayed' \in [Sessions -> Nat] /\ handed' \in [Sessions -> Nat]
    BY <1>2, <1>3
  <2> QED  BY <1>1, <2>1 DEF RoomsInv, RoomsTypeOK
<1>5. Gone' = Gone /\ \A x : Online(x)' <=> Online(x)  BY <1>1 DEF Gone, Online
<1>6. LooksInv'
  <2>1. ASSUME NEW x \in Sessions PROVE look[x] = IF delayed'[x] # 0 THEN delayed'[x] ELSE handed'[x]
    BY <1>2, <1>3 DEF RoomsInv, LooksInv
  <2>2. ASSUME NEW x \in removed
        PROVE ~Online(x) /\ (x \notin replaced => gs.at[x] = NoRoom /\ handed'[x] = look[x])
    BY <1>2, <1>3 DEF RoomsInv, LooksInv
  <2> QED  BY <1>1, <1>5, <2>1, <2>2 DEF LooksInv
<1>7. SessionsInv'
  BY <1>1 DEF RoomsInv, SessionsInv, SeatedInv, LoginInv, FreshInv, RemovalInv, ReplacingInv, Clear, Online, Fresh
<1>8. NoGhosts'  BY <1>1 DEF RoomsInv, NoGhosts, Online
<1> QED  BY <1>1, <1>4, <1>5, <1>6, <1>7, <1>8 DEF RoomsInv

-----------------------------------------------------------------------------
(* Chat rooms: sessions come and go                                         *)

\* Who is in a room was made for a connection.
LEMMA InsideIs ==
    ASSUME RoomsInv, NEW r \in Rooms, NEW t \in Within(gs, r)
    PROVE  t \in Sessions /\ gs.at[t] = r /\ ~Fresh(t) /\ t # login
<1>1. t \in Sessions /\ gs.at[t] = r
  <2>1. gs.members[r] \in Seq(Sessions)  BY DEF RoomsInv, RoomsTypeOK, GameStates
  <2>2. t \in Sessions  BY <2>1 DEF Within, ToSet
  <2> QED  BY <2>2 DEF RoomsInv, RoomsHold, Seats
<1>2. r # NoRoom  BY RoomsAssumption
<1> QED
  BY <1>1, <1>2, RoomsAssumption DEF RoomsInv, SessionsInv, FreshInv, LoginInv

LEMMA StartLoginKeeps ==
    ASSUME RoomsInv, NEW s \in Sessions, NEW c \in Conns, NEW m \in Members, StartLogin(s, c, m)
    PROVE  RoomsInv'
<1>1. /\ link' = link /\ bySocket' = bySocket /\ gs' = gs /\ look' = look /\ delayed' = delayed
      /\ handed' = handed /\ edits' = edits /\ removed' = removed /\ replaced' = replaced
      /\ Fresh(s) /\ login' = s
      /\ sock' = [sock EXCEPT ![s] = c] /\ member' = [member EXCEPT ![s] = m]
  BY DEF StartLogin, looks, history
<1>2. \/ rm' = rm
      \/ \E d \in Conns : rm' = [rm EXCEPT ![Login] = [step |-> "find", id |-> d, acc |-> NoSession]]
  BY DEF StartLogin
<1>3. /\ sock \in [Sessions -> Conns \cup {NoConn}] /\ member \in [Sessions -> Members \cup {NoMember}]
      /\ rm \in [Removers -> Removals] /\ bySocket \in [Conns -> Sessions \cup {NoSession}] /\ gs \in GameStates
  BY DEF RoomsInv, RoomsTypeOK
<1>4. rm' \in [Removers -> Removals] /\ \A x \in Removers : rm'[x] = rm[x] \/ 
        (x = Login /\ rm'[x].step = "find" /\ rm'[x].id \in Conns /\ rm'[x].acc = NoSession)
  <2>1. CASE rm' = rm  BY <1>3, <2>1
  <2>2. ASSUME NEW d \in Conns, rm' = [rm EXCEPT ![Login] = [step |-> "find", id |-> d, acc |-> NoSession]]
        PROVE  rm' \in [Removers -> Removals] /\ \A x \in Removers : rm'[x] = rm[x] \/ 
        (x = Login /\ rm'[x].step = "find" /\ rm'[x].id \in Conns /\ rm'[x].acc = NoSession)
    <3>1. [step |-> "find", id |-> d, acc |-> NoSession] \in Removals  BY DEF Removals
    <3> QED  BY <1>3, <2>2, <3>1
  <2> QED  BY <1>2, <2>1, <2>2
<1>5. /\ sock'[s] = c /\ member'[s] = m
      /\ \A t \in Sessions \ {s} : sock'[t] = sock[t] /\ member'[t] = member[t]
      /\ sock' \in [Sessions -> Conns \cup {NoConn}] /\ member' \in [Sessions -> Members \cup {NoMember}]
  BY <1>1, <1>3
<1>6. /\ gs.at[s] = NoRoom /\ s \notin removed /\ \A x \in Removers : rm[x].acc # s
  BY <1>1 DEF RoomsInv, SessionsInv, FreshInv
<1>7. sock[s] \notin Conns  BY <1>1, RoomsAssumption DEF Fresh
<1>8. \A d \in Conns : bySocket[d] # s
  BY <1>7, RoomsAssumption DEF RoomsInv, SessionsInv, SeatedInv
<1>9. Gone' = Gone /\ \A x : Online(x)' <=> Online(x)  BY <1>1 DEF Gone, Online
<1>10. \A r \in Rooms : \A t \in Within(gs, r) : t \in Sessions \ {s} /\ sock'[t] = sock[t] /\ member'[t] = member[t]
  BY <1>1, <1>5, InsideIs
<1>11. RoomsTypeOK'
  BY <1>1, <1>4, <1>5 DEF RoomsInv, RoomsTypeOK
<1>12. RoomsHold(gs, sock', member', Gone)
  <2>0. RoomsHold(gs, sock, member, Gone)  BY DEF RoomsInv
  <2>1. Hubs(gs, sock', Gone)
    <3>1. \A r \in Rooms : {sock'[t] : t \in Within(gs, r)} = {sock[t] : t \in Within(gs, r)}
      BY <1>10
    <3> QED  BY <2>0, <3>1 DEF RoomsHold, Hubs
  <2>2. Distinct(gs, sock', member')  BY <1>10, <2>0 DEF RoomsHold, Distinct
  <2>3. Seen(gs, member')
    <3>1. ASSUME NEW r \in Rooms PROVE Mapped(member', gs.members[r]) = Mapped(member, gs.members[r])
      <4>1. gs.members[r] \in Seq(Sessions)  BY <1>3 DEF GameStates
      <4>2. \A i \in 1 .. Len(gs.members[r]) : gs.members[r][i] \in Within(gs, r)
        BY <4>1 DEF Within, ToSet
      <4>3. \A i \in 1 .. Len(gs.members[r]) : member'[gs.members[r][i]] = member[gs.members[r][i]]
        BY <1>10, <4>2
      <4> QED  BY <4>3 DEF Mapped
    <3> QED  BY <2>0, <3>1 DEF RoomsHold, Seen
  <2> QED  BY <2>0, <2>1, <2>2, <2>3 DEF RoomsHold
<1>13. SeatedInv'
  <2> SUFFICES ASSUME NEW d \in Conns, bySocket[d] # NoSession
               PROVE  sock'[bySocket[d]] = d /\ member'[bySocket[d]] \in Members /\ Clear(gs, bySocket[d], d)
    BY <1>1 DEF SeatedInv, Clear
  <2>1. bySocket[d] \in Sessions \ {s}  BY <1>3, <1>8
  <2> QED  BY <1>5, <2>1 DEF RoomsInv, SessionsInv, SeatedInv
<1>14. LoginInv'
  <2>1. sock'[s] \in Conns /\ member'[s] \in Members  BY <1>5
  <2>2. ~Online(s)  BY <1>8 DEF Online
  <2>3. \A x \in Removers : rm'[x].acc # s  BY <1>4, <1>6, RoomsAssumption
  <2> QED  BY <1>1, <1>6, <1>9, <2>1, <2>2, <2>3 DEF LoginInv
<1>15. FreshInv'
  <2> SUFFICES ASSUME NEW t \in Sessions, sock'[t] = NoConn
               PROVE  gs.at[t] = NoRoom /\ t \notin removed /\ \A x \in Removers : rm'[x].acc # t
    BY <1>1 DEF FreshInv, Fresh
  <2>1. t # s  BY <1>5, RoomsAssumption
  <2>2. Fresh(t)  BY <1>5, <2>1 DEF Fresh
  <2>3. gs.at[t] = NoRoom /\ t \notin removed /\ \A x \in Removers : rm[x].acc # t
    BY <2>2 DEF RoomsInv, SessionsInv, FreshInv
  <2> QED  BY <1>4, <2>3, RoomsAssumption
<1>16. RemovalInv'
  <2> SUFFICES ASSUME NEW x \in Removers
               PROVE  /\ rm'[x].step = "none" => rm'[x] = NoRemoval
                      /\ rm'[x].step = "find" => rm'[x].id \in Conns /\ rm'[x].acc = NoSession /\ x = Login
                      /\ rm'[x].step \in {"hook", "erase"} =>
                            /\ rm'[x].id \in Conns /\ rm'[x].acc \in Sessions /\ sock'[rm'[x].acc] = rm'[x].id
                            /\ x \in Conns => rm'[x].id = x
                      /\ rm'[x].step = "hook" => Clear(gs, rm'[x].acc, rm'[x].id)
                      /\ rm'[x].step = "erase" /\ x \in Conns => gs.at[rm'[x].acc] = NoRoom
    BY <1>1 DEF RemovalInv, Clear
  <2>1. CASE rm'[x] = rm[x]
    <3>1. rm[x].acc # s  BY <1>6
    <3>2. rm[x].step \in {"hook", "erase"} => sock'[rm[x].acc] = sock[rm[x].acc]
      BY <1>5, <3>1 DEF RoomsInv, SessionsInv, RemovalInv
    <3> QED  BY <2>1, <3>2 DEF RoomsInv, SessionsInv, RemovalInv
  <2>2. CASE rm'[x] # rm[x]
    BY <1>4, <2>2
  <2> QED  BY <2>1, <2>2
<1>17. ReplacingInv'
  <2>1. rm'[Login] = rm[Login] \/ rm'[Login].step = "find"  BY <1>4 DEF Removers
  <2> QED  BY <1>1, <2>1 DEF RoomsInv, SessionsInv, ReplacingInv
<1>18. LooksInv'
  BY <1>1, <1>9 DEF RoomsInv, LooksInv
<1>19. NoGhosts'
  <2> SUFFICES ASSUME NEW r \in Rooms, NEW t \in Within(gs, r)
               PROVE  Online(t) \/ t \in replaced \/ \E u \in Sessions \ {t} : sock'[u] = sock'[t]
    BY <1>1, <1>9 DEF NoGhosts, Within
  <2>1. Online(t) \/ t \in replaced \/ \E u \in Sessions \ {t} : sock[u] = sock[t]
    BY DEF RoomsInv, NoGhosts, Within
  <2>2. ASSUME NEW u \in Sessions \ {t}, sock[u] = sock[t] PROVE sock'[u] = sock'[t]
    <3>1. ~Fresh(t) /\ t # s  BY <1>1, InsideIs
    <3>2. u # s  BY <1>1, <2>2, <3>1 DEF Fresh
    <3> QED  BY <1>5, <1>10, <2>2, <3>2
  <2> QED  BY <2>1, <2>2
<1>20. SessionsInv'  BY <1>13, <1>14, <1>15, <1>16, <1>17 DEF SessionsInv
<1> QED  BY <1>1, <1>9, <1>11, <1>12, <1>18, <1>19, <1>20 DEF RoomsInv

LEMMA SeatLoginKeeps ==
    ASSUME RoomsInv, SeatLogin
    PROVE  RoomsInv'
<1> DEFINE c == sock[login]
<1>1. /\ link' = link /\ sock' = sock /\ member' = member /\ gs' = gs /\ rm' = rm /\ look' = look
      /\ delayed' = delayed /\ handed' = handed /\ edits' = edits /\ removed' = removed /\ replaced' = replaced
      /\ login # NoSession /\ login' = NoSession /\ rm[Login] = NoRemoval
      /\ bySocket' = [bySocket EXCEPT ![c] = login]
  BY DEF SeatLogin, looks, history
<1>2. /\ login \in Sessions /\ c \in Conns /\ member[login] \in Members /\ gs.at[login] = NoRoom
      /\ ~Online(login) /\ login \notin removed
      /\ bySocket \in [Conns -> Sessions \cup {NoSession}] /\ removed \subseteq Sessions
  BY <1>1 DEF RoomsInv, RoomsTypeOK, SessionsInv, LoginInv
<1> HIDE DEF c
<1>3. /\ bySocket'[c] = login /\ \A d \in Conns \ {c} : bySocket'[d] = bySocket[d]
      /\ bySocket' \in [Conns -> Sessions \cup {NoSession}]
  BY <1>1, <1>2
<1>4. RoomsTypeOK'  BY <1>1, <1>3 DEF RoomsInv, RoomsTypeOK
<1>5. Gone' = Gone  BY <1>1 DEF Gone
<1>6. \A x : Online(x)' => Online(x) \/ x = login
  <2> SUFFICES ASSUME NEW x, NEW d \in Conns, bySocket'[d] = x PROVE Online(x) \/ x = login
    BY DEF Online
  <2> QED  BY <1>3 DEF Online
<1>7. SeatedInv'
  <2> SUFFICES ASSUME NEW d \in Conns, bySocket'[d] # NoSession
               PROVE  sock[bySocket'[d]] = d /\ member[bySocket'[d]] \in Members /\ Clear(gs, bySocket'[d], d)
    BY <1>1 DEF SeatedInv, Clear
  <2>1. CASE d = c  BY <1>2, <1>3, <2>1 DEF Clear, c
  <2>2. CASE d # c  BY <1>3, <2>2 DEF RoomsInv, SessionsInv, SeatedInv
  <2> QED  BY <2>1, <2>2
<1>8. LoginInv'  BY <1>1 DEF LoginInv
<1>9. FreshInv' /\ RemovalInv'
  BY <1>1 DEF RoomsInv, SessionsInv, FreshInv, RemovalInv, Fresh, Clear
<1>10. ReplacingInv'  BY <1>1 DEF ReplacingInv, NoRemoval
<1>11. LooksInv'
  <2>1. \A s \in removed : ~Online(s)'  BY <1>2, <1>6 DEF RoomsInv, LooksInv
  <2> QED  BY <1>1, <2>1 DEF RoomsInv, LooksInv
<1>12. NoGhosts'
  <2> SUFFICES ASSUME NEW r \in Rooms, NEW t \in Within(gs, r)
               PROVE  Online(t)' \/ t \in replaced \/ \E u \in Sessions \ {t} : sock[u] = sock[t]
    BY <1>1 DEF NoGhosts, Within
  <2>1. Online(t) \/ t \in replaced \/ \E u \in Sessions \ {t} : sock[u] = sock[t]
    BY DEF RoomsInv, NoGhosts, Within
  <2>2. ASSUME NEW d \in Conns, bySocket[d] = t
        PROVE  Online(t)' \/ \E u \in Sessions \ {t} : sock[u] = sock[t]
    <3>1. CASE d # c
      <4>1. bySocket'[d] = t  BY <1>3, <2>2, <3>1
      <4> QED  BY <4>1 DEF Online
    <3>2. CASE d = c
      <4>1. t \in Sessions /\ t # login  BY InsideIs
      <4>2. sock[t] = c  BY <2>2, <3>2, <4>1, RoomsAssumption DEF RoomsInv, SessionsInv, SeatedInv
      <4> QED  BY <1>2, <4>1, <4>2 DEF c
    <3> QED  BY <3>1, <3>2
  <2> QED  BY <2>1, <2>2 DEF Online
<1>13. SessionsInv'  BY <1>7, <1>8, <1>9, <1>10 DEF SessionsInv
<1> QED  BY <1>1, <1>4, <1>5, <1>11, <1>12, <1>13 DEF RoomsInv

\* remove_account finds its account.
LEMMA FindingKeeps ==
    ASSUME RoomsInv, NEW x \in Removers, NEW i \in Conns, x \in Conns => x = i,
           FindsAccount(x, i), link' \in [Conns -> {"open", "closing", "closed"}], Gone' = Gone,
           UNCHANGED <<online, gs, login, looks, history>>
    PROVE  RoomsInv'
<1>1. /\ bySocket' = bySocket /\ sock' = sock /\ member' = member /\ gs' = gs /\ look' = look
      /\ delayed' = delayed /\ handed' = handed /\ edits' = edits /\ removed' = removed /\ replaced' = replaced
      /\ login' = login
  BY DEF online, looks, history
<1> DEFINE u == bySocket[i]
           next == IF u = NoSession THEN NoRemoval ELSE [step |-> "hook", id |-> i, acc |-> u]
<1>2. rm' = [rm EXCEPT ![x] = next]  BY DEF FindsAccount
<1>3. /\ rm \in [Removers -> Removals] /\ u \in Sessions \cup {NoSession}
  BY DEF RoomsInv, RoomsTypeOK
<1>4. u # NoSession => /\ sock[u] = i /\ Clear(gs, u, i) /\ Online(u)
                       /\ u # login /\ ~Fresh(u)
  BY <1>3, RoomsAssumption DEF RoomsInv, SessionsInv, SeatedInv, Online, LoginInv, Fresh
<1>5. next \in Removals  BY <1>3 DEF Removals, NoRemoval
<1> HIDE DEF u
<1>6. /\ rm' \in [Removers -> Removals] /\ rm'[x] = next
      /\ \A y \in Removers \ {x} : rm'[y] = rm[y]
  <2> HIDE DEF next
  <2> QED  BY <1>2, <1>3, <1>5
<1>7. RoomsTypeOK'  BY <1>1, <1>6 DEF RoomsInv, RoomsTypeOK
<1>8. \A t : Online(t)' <=> Online(t)  BY <1>1 DEF Online
<1>9. LoginInv'
  <2>1. login # NoSession => \A y \in Removers : rm'[y].acc # login
    BY <1>4, <1>6 DEF RoomsInv, SessionsInv, LoginInv, NoRemoval
  <2> QED  BY <1>1, <1>8, <2>1 DEF RoomsInv, SessionsInv, LoginInv
<1>10. FreshInv'
  <2>1. \A t \in Sessions : Fresh(t) => \A y \in Removers : rm'[y].acc # t
    BY <1>4, <1>6, RoomsAssumption DEF RoomsInv, SessionsInv, FreshInv, NoRemoval
  <2> QED  BY <1>1, <2>1 DEF RoomsInv, SessionsInv, FreshInv, Fresh
<1>11. RemovalInv'
  <2> SUFFICES ASSUME NEW y \in Removers
               PROVE  /\ rm'[y].step = "none" => rm'[y] = NoRemoval
                      /\ rm'[y].step = "find" => rm'[y].id \in Conns /\ rm'[y].acc = NoSession /\ y = Login
                      /\ rm'[y].step \in {"hook", "erase"} =>
                            /\ rm'[y].id \in Conns /\ rm'[y].acc \in Sessions /\ sock[rm'[y].acc] = rm'[y].id
                            /\ y \in Conns => rm'[y].id = y
                      /\ rm'[y].step = "hook" => Clear(gs, rm'[y].acc, rm'[y].id)
                      /\ rm'[y].step = "erase" /\ y \in Conns => gs.at[rm'[y].acc] = NoRoom
    BY <1>1 DEF RemovalInv, Clear
  <2>1. CASE y = x  BY <1>3, <1>4, <1>6, <2>1 DEF NoRemoval
  <2>2. CASE y # x  BY <1>6, <2>2 DEF RoomsInv, SessionsInv, RemovalInv
  <2> QED  BY <2>1, <2>2
<1>12. ReplacingInv'
  <2>1. CASE x = Login  BY <1>1, <1>6, <2>1 DEF ReplacingInv, NoRemoval, u
  <2>2. CASE x # Login  BY <1>1, <1>6, <2>2 DEF RoomsInv, SessionsInv, ReplacingInv, Removers
  <2> QED  BY <2>1, <2>2
<1>13. SeatedInv'  BY <1>1 DEF RoomsInv, SessionsInv, SeatedInv, Clear
<1>14. LooksInv'  BY <1>1, <1>8 DEF RoomsInv, LooksInv
<1>15. NoGhosts'  BY <1>1, <1>8 DEF RoomsInv, NoGhosts
<1>16. SessionsInv'  BY <1>9, <1>10, <1>11, <1>12, <1>13 DEF SessionsInv
<1> QED  BY <1>1, <1>7, <1>14, <1>15, <1>16 DEF RoomsInv

\* The account leaves its room.
LEMMA HookKeeps ==
    ASSUME RoomsInv, NEW x \in Removers, Hook(x)
    PROVE  RoomsInv'
<1> DEFINE u == rm[x].acc
           i == rm[x].id
           done == Gone
<1>1. /\ link' = link /\ bySocket' = bySocket /\ sock' = sock /\ member' = member /\ look' = look
      /\ delayed' = delayed /\ handed' = handed /\ edits' = edits /\ removed' = removed /\ replaced' = replaced
      /\ login' = login /\ rm[x].step = "hook" /\ gs' = Left(gs, u) /\ rm' = [rm EXCEPT ![x].step = "erase"]
  BY DEF Hook, online, looks, history
<1>2. /\ rm \in [Removers -> Removals] /\ gs \in GameStates
      /\ sock \in [Sessions -> Conns \cup {NoConn}] /\ member \in [Sessions -> Members \cup {NoMember}]
      /\ RoomsHold(gs, sock, member, done) /\ \A r \in Rooms : Stands(gs, r)
  BY DEF RoomsInv, RoomsTypeOK
<1>3. /\ u \in Sessions /\ i \in Conns /\ sock[u] = i /\ (x \in Conns => i = x) /\ Clear(gs, u, sock[u])
  BY <1>1 DEF RoomsInv, SessionsInv, RemovalInv
<1>4. /\ rm' \in [Removers -> Removals]
      /\ rm'[x].step = "erase" /\ rm'[x].acc = u /\ rm'[x].id = i
      /\ \A y \in Removers \ {x} : rm'[y] = rm[y]
  <2>1. rm[x] \in Removals  BY <1>2
  <2>2. [rm[x] EXCEPT !.step = "erase"] \in Removals  BY <2>1 DEF Removals
  <2>3. rm' = [rm EXCEPT ![x] = [rm[x] EXCEPT !.step = "erase"]]  BY <1>1, <1>2
  <2>4. /\ [rm[x] EXCEPT !.step = "erase"].step = "erase" /\ [rm[x] EXCEPT !.step = "erase"].acc = u
        /\ [rm[x] EXCEPT !.step = "erase"].id = i
    BY <2>1 DEF Removals
  <2> QED  BY <1>2, <2>2, <2>3, <2>4
<1> HIDE DEF u, i, done
<1>5. /\ gs' \in GameStates /\ RoomsHold(gs', sock, member, done)
      /\ gs'.at = [gs.at EXCEPT ![u] = NoRoom]
      /\ gs'.mixed = gs.mixed
      /\ \A r \in Rooms : /\ gs'.hub[r] \subseteq gs.hub[r]
                          /\ Within(gs', r) \subseteq Within(gs, r)
                          /\ Stands(gs, r) => Stands(gs', r)
                          /\ r \in gs'.rooms => r \in gs.rooms /\ gs'.data[r] = gs.data[r]
  BY <1>1, <1>2, <1>3, LeftHolds
<1>6. gs'.at[u] = NoRoom /\ \A t \in Sessions : gs'.at[t] \in {gs.at[t], NoRoom}
  BY <1>2, <1>3, <1>5 DEF GameStates
<1>7. \A t \in Sessions : \A d : Clear(gs, t, d) => Clear(gs', t, d)
  BY <1>2, <1>5, <1>6, ClearStays
<1>8. RoomsTypeOK'  BY <1>1, <1>4, <1>5 DEF RoomsInv, RoomsTypeOK
<1>9. Gone' = Gone /\ \A t : Online(t)' <=> Online(t)  BY <1>1 DEF Gone, Online
<1>10. SeatedInv'
  <2> SUFFICES ASSUME NEW d \in Conns, bySocket[d] # NoSession
               PROVE  sock[bySocket[d]] = d /\ member[bySocket[d]] \in Members /\ Clear(gs', bySocket[d], d)
    BY <1>1 DEF SeatedInv, Clear
  <2>1. bySocket[d] \in Sessions  BY DEF RoomsInv, RoomsTypeOK
  <2> QED  BY <1>7, <2>1 DEF RoomsInv, SessionsInv, SeatedInv
<1>11. \A y \in Removers : rm'[y].acc = rm[y].acc  BY <1>4 DEF u
<1>12. LoginInv'
  <2> SUFFICES ASSUME login # NoSession PROVE gs'.at[login] = NoRoom
    BY <1>1, <1>9, <1>11 DEF RoomsInv, SessionsInv, LoginInv
  <2>1. gs.at[login] = NoRoom /\ login \in Sessions  BY DEF RoomsInv, SessionsInv, LoginInv, RoomsTypeOK
  <2> QED  BY <1>6, <2>1
<1>13. FreshInv'
  <2> SUFFICES ASSUME NEW t \in Sessions, Fresh(t) PROVE gs'.at[t] = NoRoom
    BY <1>1, <1>11 DEF RoomsInv, SessionsInv, FreshInv, Fresh
  <2> QED  BY <1>6 DEF RoomsInv, SessionsInv, FreshInv
<1>14. RemovalInv'
  <2> SUFFICES ASSUME NEW y \in Removers
               PROVE  /\ rm'[y].step = "none" => rm'[y] = NoRemoval
                      /\ rm'[y].step = "find" => rm'[y].id \in Conns /\ rm'[y].acc = NoSession /\ y = Login
                      /\ rm'[y].step \in {"hook", "erase"} =>
                            /\ rm'[y].id \in Conns /\ rm'[y].acc \in Sessions /\ sock[rm'[y].acc] = rm'[y].id
                            /\ y \in Conns => rm'[y].id = y
                      /\ rm'[y].step = "hook" => Clear(gs', rm'[y].acc, rm'[y].id)
                      /\ rm'[y].step = "erase" /\ y \in Conns => gs'.at[rm'[y].acc] = NoRoom
    BY <1>1 DEF RemovalInv, Clear
  <2>1. CASE y = x  BY <1>3, <1>4, <1>6, <2>1
  <2>2. CASE y # x
    <3>1. /\ rm[y].step = "none" => rm[y] = NoRemoval
          /\ rm[y].step = "find" => rm[y].id \in Conns /\ rm[y].acc = NoSession /\ y = Login
          /\ rm[y].step \in {"hook", "erase"} =>
                /\ rm[y].id \in Conns /\ rm[y].acc \in Sessions /\ sock[rm[y].acc] = rm[y].id
                /\ y \in Conns => rm[y].id = y
          /\ rm[y].step = "hook" => Clear(gs, rm[y].acc, rm[y].id)
          /\ rm[y].step = "erase" /\ y \in Conns => gs.at[rm[y].acc] = NoRoom
      BY DEF RoomsInv, SessionsInv, RemovalInv
    <3>2. rm[y].step = "hook" => Clear(gs', rm[y].acc, rm[y].id)  BY <1>7, <3>1
    <3>3. rm[y].step = "erase" /\ y \in Conns => gs'.at[rm[y].acc] = NoRoom  BY <1>6, <3>1
    <3> QED  BY <1>4, <2>2, <3>1, <3>2, <3>3
  <2> QED  BY <2>1, <2>2
<1>15. ReplacingInv'
  <2>1. CASE x = Login
    BY <1>1, <1>4, <2>1 DEF RoomsInv, SessionsInv, ReplacingInv, u, i
  <2>2. CASE x # Login  BY <1>1, <1>4, <2>2 DEF RoomsInv, SessionsInv, ReplacingInv, Removers
  <2> QED  BY <2>1, <2>2
<1>16. LooksInv'
  <2>1. \A t \in removed : t \notin replaced => gs'.at[t] = NoRoom
    BY <1>6 DEF RoomsInv, LooksInv, RoomsTypeOK
  <2> QED  BY <1>1, <1>9, <2>1 DEF RoomsInv, LooksInv
<1>17. NoGhosts'
  <2>1. \A r \in Rooms : \A t \in Within(gs', r) : t \in Within(gs, r)  BY <1>5
  <2> QED  BY <1>1, <1>9, <2>1 DEF RoomsInv, NoGhosts, Within
<1>18. NamesDiffer(gs')
  <2>1. \A r \in gs'.rooms : r \in gs.rooms /\ gs'.data[r] = gs.data[r]  BY <1>5 DEF GameStates
  <2> QED  BY <2>1 DEF RoomsInv, NamesDiffer
<1>19. SessionsInv'  BY <1>10, <1>12, <1>13, <1>14, <1>15 DEF SessionsInv
<1>20. \A r \in Rooms : Stands(gs', r)  BY <1>2, <1>5
<1>21. RoomsHold(gs', sock', member', Gone')  BY <1>1, <1>5, <1>9 DEF done
<1> QED  BY <1>8, <1>16, <1>17, <1>18, <1>19, <1>20, <1>21 DEF RoomsInv

\* It is erased.
LEMMA EraseKeeps ==
    ASSUME RoomsInv, NEW x \in Removers, Erase(x)
    PROVE  RoomsInv'
<1> DEFINE u == rm[x].acc
           i == rm[x].id
<1>1. /\ link' = link /\ sock' = sock /\ member' = member /\ gs' = gs /\ login' = login /\ look' = look
      /\ delayed' = delayed /\ edits' = edits /\ rm[x].step = "erase"
      /\ bySocket' = [bySocket EXCEPT ![i] = NoSession]
      /\ handed' = [s \in Sessions |-> IF s \in {u} /\ delayed[s] # 0 THEN delayed[s] ELSE handed[s]]
      /\ rm' = [rm EXCEPT ![x] = NoRemoval] /\ removed' = removed \cup {u}
      /\ replaced' = IF x = Login THEN replaced \cup {u} ELSE replaced
  BY DEF Erase, HandsOver
<1>2. /\ rm \in [Removers -> Removals] /\ bySocket \in [Conns -> Sessions \cup {NoSession}]
      /\ delayed \in [Sessions -> Nat] /\ handed \in [Sessions -> Nat]
      /\ removed \subseteq Sessions /\ replaced \subseteq Sessions
  BY DEF RoomsInv, RoomsTypeOK
<1>3. /\ u \in Sessions /\ i \in Conns /\ sock[u] = i /\ (x \in Conns => i = x)
      /\ (x \in Conns => gs.at[u] = NoRoom)
      /\ login # NoSession => u # login
      /\ ~Fresh(u)
  BY <1>1 DEF RoomsInv, SessionsInv, RemovalInv, LoginInv, FreshInv
<1> HIDE DEF u, i
<1>4. NoRemoval \in Removals  BY DEF Removals, NoRemoval
<1>5. /\ rm' \in [Removers -> Removals] /\ rm'[x] = NoRemoval
      /\ \A y \in Removers \ {x} : rm'[y] = rm[y]
  BY <1>1, <1>2, <1>4
<1>6. /\ bySocket'[i] = NoSession /\ \A d \in Conns \ {i} : bySocket'[d] = bySocket[d]
      /\ bySocket' \in [Conns -> Sessions \cup {NoSession}]
  BY <1>1, <1>2, <1>3
<1>7. RoomsTypeOK'
  <2>1. handed' \in [Sessions -> Nat]  BY <1>1, <1>2
  <2>2. removed' \subseteq Sessions /\ replaced' \subseteq Sessions  BY <1>1, <1>2, <1>3
  <2> QED  BY <1>1, <1>5, <1>6, <2>1, <2>2 DEF RoomsInv, RoomsTypeOK
<1>8. Gone' = Gone  BY <1>1 DEF Gone
<1>9. \A t \in Sessions : Online(t)' <=> (Online(t) /\ bySocket[i] # t)
  <2> SUFFICES ASSUME NEW t \in Sessions PROVE Online(t)' <=> (Online(t) /\ bySocket[i] # t)
    OBVIOUS
  <2>1. t # NoSession  BY RoomsAssumption
  <2>2. \A d \in Conns : bySocket[d] = t => sock[t] = d
    BY <2>1 DEF RoomsInv, SessionsInv, SeatedInv
  <2>3. ASSUME NEW d \in Conns, bySocket'[d] = t PROVE Online(t) /\ bySocket[i] # t
    <3>1. d # i /\ bySocket[d] = t  BY <1>6, <2>1, <2>3
    <3> QED  BY <1>3, <2>2, <3>1 DEF Online
  <2>4. ASSUME NEW d \in Conns, bySocket[d] = t, bySocket[i] # t PROVE Online(t)'
    <3>1. bySocket'[d] = t  BY <1>6, <2>4
    <3> QED  BY <3>1 DEF Online
  <2> QED  BY <2>3, <2>4 DEF Online
<1>10. \A t \in Sessions : t = u => ~Online(t)'
  <2>1. u # NoSession  BY <1>3, RoomsAssumption
  <2>2. \A d \in Conns : bySocket[d] = u => d = i  BY <1>3, <2>1 DEF RoomsInv, SessionsInv, SeatedInv
  <2>3. Online(u) => bySocket[i] = u  BY <2>2 DEF Online
  <2> QED  BY <1>3, <1>9, <2>3
<1>11. SeatedInv'
  BY <1>1, <1>6 DEF RoomsInv, SessionsInv, SeatedInv, Clear
<1>12. LoginInv'
  <2> SUFFICES ASSUME login # NoSession
               PROVE  /\ sock[login] \in Conns /\ member[login] \in Members /\ gs.at[login] = NoRoom
                      /\ ~Online(login)' /\ login \notin removed'
                      /\ \A y \in Removers : rm'[y].acc # login
    BY <1>1 DEF LoginInv
  <2>1. /\ sock[login] \in Conns /\ member[login] \in Members /\ gs.at[login] = NoRoom
        /\ ~Online(login) /\ login \notin removed /\ login \in Sessions
        /\ \A y \in Removers : rm[y].acc # login
    BY DEF RoomsInv, SessionsInv, LoginInv, RoomsTypeOK
  <2> QED  BY <1>1, <1>3, <1>5, <1>9, <2>1 DEF NoRemoval
<1>13. FreshInv'
  <2> SUFFICES ASSUME NEW t \in Sessions, Fresh(t)
               PROVE  gs.at[t] = NoRoom /\ t \notin removed' /\ \A y \in Removers : rm'[y].acc # t
    BY <1>1 DEF FreshInv, Fresh
  <2>1. gs.at[t] = NoRoom /\ t \notin removed /\ \A y \in Removers : rm[y].acc # t
    BY DEF RoomsInv, SessionsInv, FreshInv
  <2>2. t # u /\ t # NoSession  BY <1>3, RoomsAssumption
  <2> QED  BY <1>1, <1>5, <2>1, <2>2 DEF NoRemoval
<1>14. RemovalInv'
  <2> SUFFICES ASSUME NEW y \in Removers
               PROVE  /\ rm'[y].step = "none" => rm'[y] = NoRemoval
                      /\ rm'[y].step = "find" => rm'[y].id \in Conns /\ rm'[y].acc = NoSession /\ y = Login
                      /\ rm'[y].step \in {"hook", "erase"} =>
                            /\ rm'[y].id \in Conns /\ rm'[y].acc \in Sessions /\ sock[rm'[y].acc] = rm'[y].id
                            /\ y \in Conns => rm'[y].id = y
                      /\ rm'[y].step = "hook" => Clear(gs, rm'[y].acc, rm'[y].id)
                      /\ rm'[y].step = "erase" /\ y \in Conns => gs.at[rm'[y].acc] = NoRoom
    BY <1>1 DEF RemovalInv, Clear
  <2>1. CASE y = x  BY <1>5, <2>1 DEF NoRemoval
  <2>2. CASE y # x  BY <1>5, <2>2 DEF RoomsInv, SessionsInv, RemovalInv
  <2> QED  BY <2>1, <2>2
<1>15. ReplacingInv'
  <2> SUFFICES ASSUME rm'[Login].step \in {"hook", "erase"}
               PROVE  bySocket'[rm'[Login].id] \in {rm'[Login].acc, NoSession}
    BY DEF ReplacingInv
  <2>1. x # Login /\ rm'[Login] = rm[Login]
    BY <1>5 DEF NoRemoval, Removers
  <2>2. bySocket[rm[Login].id] \in {rm[Login].acc, NoSession} /\ rm[Login].id \in Conns
    BY <2>1 DEF RoomsInv, SessionsInv, ReplacingInv, RemovalInv, Removers
  <2> QED  BY <1>6, <2>1, <2>2
<1>16. LooksInv'
  <2>1. ASSUME NEW t \in Sessions PROVE look[t] = IF delayed[t] # 0 THEN delayed[t] ELSE handed'[t]
    BY <1>1, <1>2 DEF RoomsInv, LooksInv
  <2>2. ASSUME NEW t \in removed'
        PROVE  ~Online(t)' /\ (t \notin replaced' => gs.at[t] = NoRoom /\ handed'[t] = look[t])
    <3>1. CASE t = u
      <4>1. t \notin replaced' => gs.at[t] = NoRoom
        <5>1. x = Login => t \in replaced'  BY <1>1, <3>1
        <5> QED  BY <1>3, <3>1, <5>1 DEF Removers
      <4>2. handed'[t] = look[t]
        <5>1. look[u] = IF delayed[u] # 0 THEN delayed[u] ELSE handed[u]  BY <1>3 DEF RoomsInv, LooksInv
        <5>2. handed'[u] = IF delayed[u] # 0 THEN delayed[u] ELSE handed[u]  BY <1>1, <1>3
        <5> QED  BY <3>1, <5>1, <5>2
      <4> QED  BY <1>3, <1>10, <3>1, <4>1, <4>2
    <3>2. CASE t # u
      <4>1. t \in removed /\ t \in Sessions  BY <1>1, <1>2, <2>2, <3>2
      <4>2. ~Online(t)'  BY <1>9, <4>1 DEF RoomsInv, LooksInv
      <4>3. t \notin replaced' => t \notin replaced  BY <1>1
      <4>4. handed'[t] = handed[t]  BY <1>1, <3>2, <4>1
      <4> QED  BY <4>1, <4>2, <4>3, <4>4 DEF RoomsInv, LooksInv
    <3> QED  BY <3>1, <3>2
  <2> QED  BY <1>1, <2>1, <2>2 DEF LooksInv
<1>17. NoGhosts'
  <2> SUFFICES ASSUME NEW r \in Rooms, NEW t \in Within(gs, r)
               PROVE  Online(t)' \/ t \in replaced' \/ \E v \in Sessions \ {t} : sock[v] = sock[t]
    BY <1>1 DEF NoGhosts, Within
  <2>1. Online(t) \/ t \in replaced \/ \E v \in Sessions \ {t} : sock[v] = sock[t]
    BY DEF RoomsInv, NoGhosts, Within
  <2>2. t \in Sessions /\ gs.at[t] = r /\ t # NoSession /\ r # NoRoom  BY InsideIs, RoomsAssumption
  <2>3. t \in replaced => t \in replaced'  BY <1>1
  <2>4. ASSUME Online(t), ~Online(t)' PROVE t \in replaced' \/ \E v \in Sessions \ {t} : sock[v] = sock[t]
    <3>1. bySocket[i] = t  BY <1>9, <2>2, <2>4
    <3>2. sock[t] = i  BY <1>3, <2>2, <3>1 DEF RoomsInv, SessionsInv, SeatedInv
    <3>3. CASE t # u  BY <1>3, <3>2, <3>3
    <3>4. CASE t = u
      <4>1. x \notin Conns  BY <1>3, <2>2, <3>4
      <4> QED  BY <1>1, <3>4, <4>1 DEF Removers
    <3> QED  BY <3>3, <3>4
  <2> QED  BY <2>1, <2>3, <2>4
<1>18. SessionsInv'  BY <1>11, <1>12, <1>13, <1>14, <1>15 DEF SessionsInv
<1> QED  BY <1>1, <1>7, <1>8, <1>16, <1>17, <1>18 DEF RoomsInv

\* The connection leaves its rooms.
LEMMA LeaveHubKeeps ==
    ASSUME RoomsInv, NEW c \in Conns, LeaveHub(c)
    PROVE  RoomsInv'
<1>1. /\ bySocket' = bySocket /\ sock' = sock /\ member' = member /\ rm' = rm /\ login' = login /\ look' = look
      /\ delayed' = delayed /\ handed' = handed /\ edits' = edits /\ removed' = removed /\ replaced' = replaced
      /\ link' = [link EXCEPT ![c] = "closed"]
      /\ gs' = [gs EXCEPT !.hub = [r \in Rooms |-> gs.hub[r] \ {c}]]
  BY DEF LeaveHub, online, looks, history
<1>2. gs \in GameStates /\ link \in [Conns -> {"open", "closing", "closed"}]
  BY DEF RoomsInv, RoomsTypeOK
<1>3. /\ gs'.at = gs.at /\ gs'.members = gs.members /\ gs'.mixed = gs.mixed /\ gs'.rooms = gs.rooms
      /\ gs'.data = gs.data /\ gs'.view = gs.view
      /\ gs'.hub = [r \in Rooms |-> gs.hub[r] \ {c}]
  BY <1>1, <1>2 DEF GameStates
<1>4. gs' \in GameStates
  <2>1. [r \in Rooms |-> gs.hub[r] \ {c}] \in [Rooms -> SUBSET Conns]  BY <1>2 DEF GameStates
  <2> QED  BY <1>1, <1>2, <2>1 DEF GameStates
<1>5. Gone' = Gone \cup {c}  BY <1>1, <1>2 DEF Gone
<1>6. \A r \in Rooms : gs'.hub[r] = gs.hub[r] \ {c} /\ Within(gs', r) = Within(gs, r)
  BY <1>3 DEF Within
<1>7. RoomsTypeOK'
  <2>1. link' \in [Conns -> {"open", "closing", "closed"}]  BY <1>1, <1>2
  <2> QED  BY <1>1, <1>4, <2>1 DEF RoomsInv, RoomsTypeOK
<1>8. RoomsHold(gs', sock, member, Gone')
  <2>0. RoomsHold(gs, sock, member, Gone)  BY DEF RoomsInv
  <2>1. Seats(gs')  BY <1>3, <1>6, <2>0 DEF RoomsHold, Seats
  <2>2. Hubs(gs', sock, Gone')  BY <1>5, <1>6, <2>0 DEF RoomsHold, Hubs
  <2>3. Whole(gs')  BY <1>3, <2>0 DEF RoomsHold, Whole, Within
  <2>4. Distinct(gs', sock, member)  BY <1>3, <1>6, <2>0 DEF RoomsHold, Distinct
  <2>5. Apart(gs')  BY <1>3, <1>6, <2>0 DEF RoomsHold, Apart
  <2>6. Seen(gs', member)  BY <1>3, <1>6, <2>0 DEF RoomsHold, Seen
  <2> QED  BY <2>1, <2>2, <2>3, <2>4, <2>5, <2>6 DEF RoomsHold
<1>9. \A t, d : Clear(gs, t, d) => Clear(gs', t, d)
  BY <1>3, <1>6 DEF Clear
<1>10. \A t : Online(t)' <=> Online(t)  BY <1>1 DEF Online
<1>11. SessionsInv'
  <2>1. SeatedInv'
    <3> SUFFICES ASSUME NEW d \in Conns, bySocket[d] # NoSession
                 PROVE  sock[bySocket[d]] = d /\ member[bySocket[d]] \in Members /\ Clear(gs', bySocket[d], d)
      BY <1>1 DEF SeatedInv, Clear
    <3> QED  BY <1>9 DEF RoomsInv, SessionsInv, SeatedInv
  <2>2. LoginInv'  BY <1>1, <1>3, <1>10 DEF RoomsInv, SessionsInv, LoginInv
  <2>3. FreshInv'  BY <1>1, <1>3 DEF RoomsInv, SessionsInv, FreshInv, Fresh
  <2>4. RemovalInv'
    <3>1. \A x \in Removers : rm[x].step = "hook" => Clear(gs', rm[x].acc, rm[x].id)
      BY <1>9 DEF RoomsInv, SessionsInv, RemovalInv
    <3> QED  BY <1>1, <1>3, <3>1 DEF RoomsInv, SessionsInv, RemovalInv, Clear
  <2>5. ReplacingInv'  BY <1>1 DEF RoomsInv, SessionsInv, ReplacingInv
  <2> QED  BY <2>1, <2>2, <2>3, <2>4, <2>5 DEF SessionsInv
<1>12. LooksInv'  BY <1>1, <1>3, <1>10 DEF RoomsInv, LooksInv
<1>13. NoGhosts'  BY <1>1, <1>3, <1>10 DEF RoomsInv, NoGhosts
<1>14. NamesDiffer(gs') /\ \A r \in Rooms : Stands(gs', r)
  BY <1>3 DEF RoomsInv, NamesDiffer, Stands
<1>15. RoomsHold(gs', sock', member', Gone')  BY <1>1, <1>8
<1> QED  BY <1>7, <1>11, <1>12, <1>13, <1>14, <1>15 DEF RoomsInv

LEMMA RoomsInitInv == RoomsInit => RoomsInv
<1> SUFFICES ASSUME RoomsInit PROVE RoomsInv
  OBVIOUS
<1> DEFINE g0 == [at |-> [s \in Sessions |-> NoRoom], rooms |-> {},
                  data |-> [r \in Rooms |-> NoData], members |-> [r \in Rooms |-> <<>>],
                  hub |-> [r \in Rooms |-> {}], view |-> [c \in Conns |-> <<>>], mixed |-> {}]
<1>1. /\ link = [c \in Conns |-> "open"] /\ bySocket = [c \in Conns |-> NoSession]
      /\ sock = [s \in Sessions |-> NoConn] /\ member = [s \in Sessions |-> NoMember]
      /\ gs = g0 /\ rm = [x \in Removers |-> NoRemoval] /\ login = NoSession
      /\ look = [s \in Sessions |-> 0] /\ delayed = look /\ handed = look
      /\ edits = 0 /\ removed = {} /\ replaced = {}
  BY DEF RoomsInit
<1>2. g0 \in GameStates
  <2>1. <<>> \in Seq(Sessions) /\ <<>> \in Seq(Members \cup {NoMember})  OBVIOUS
  <2> QED  BY <2>1 DEF GameStates
<1>3. /\ \A s \in Sessions : gs.at[s] = NoRoom
      /\ \A r \in Rooms : gs.members[r] = <<>> /\ gs.hub[r] = {} /\ gs.data[r] = NoData
      /\ gs.rooms = {} /\ gs.mixed = {}
  BY <1>1
<1>4. \A r \in Rooms : Within(gs, r) = {} /\ IsInjective(gs.members[r])
  <2>1. ToSet(<<>>) = {} /\ IsInjective(<<>>)  BY DEF ToSet, IsInjective
  <2> QED  BY <1>3, <2>1 DEF Within
<1>5. RoomsTypeOK
  <2>1. NoRemoval \in Removals  BY DEF Removals, NoRemoval
  <2> HIDE DEF g0
  <2> QED  BY <1>1, <1>2, <2>1 DEF RoomsTypeOK
<1> HIDE DEF g0
<1>6. RoomsHold(gs, sock, member, Gone)
  <2>1. Seats(gs) /\ Distinct(gs, sock, member)  BY <1>4 DEF Seats, Distinct
  <2>2. Hubs(gs, sock, Gone)  BY <1>3, <1>4 DEF Hubs
  <2>3. Whole(gs)  BY <1>3, RoomsAssumption DEF Whole
  <2>4. Apart(gs) /\ Seen(gs, member)  BY <1>3 DEF Apart, Seen
  <2> QED  BY <2>1, <2>2, <2>3, <2>4 DEF RoomsHold
<1>7. \A r \in Rooms : Stands(gs, r)  BY <1>3 DEF Stands
<1>8. SeatedInv /\ LoginInv  BY <1>1 DEF SeatedInv, LoginInv
<1>9. \A x \in Removers : rm[x].step = "none" /\ rm[x].acc = NoSession /\ rm[x] = NoRemoval
  BY <1>1 DEF NoRemoval
<1>10. FreshInv
  BY <1>1, <1>3, <1>9, RoomsAssumption DEF FreshInv
<1>11. RemovalInv /\ ReplacingInv
  BY <1>9 DEF RemovalInv, ReplacingInv, Removers
<1>12. NamesDiffer(gs) /\ NoGhosts  BY <1>3, <1>4 DEF NamesDiffer, NoGhosts, Within
<1>13. LooksInv
  <2>1. \A s \in Sessions : look[s] = 0 /\ delayed[s] = 0 /\ handed[s] = 0  BY <1>1
  <2> QED  BY <1>1, <2>1 DEF LooksInv
<1> QED  BY <1>5, <1>6, <1>7, <1>8, <1>10, <1>11, <1>12, <1>13 DEF RoomsInv, SessionsInv

\* Every step keeps it.
LEMMA RoomsNextInv == RoomsInv /\ [RoomsNext]_roomsVars => RoomsInv'
<1> SUFFICES ASSUME RoomsInv, [RoomsNext]_roomsVars PROVE RoomsInv'
  OBVIOUS
<1>1. CASE UNCHANGED roomsVars
  <2>1. /\ link' = link /\ bySocket' = bySocket /\ sock' = sock /\ member' = member /\ gs' = gs
        /\ rm' = rm /\ login' = login /\ look' = look /\ delayed' = delayed /\ handed' = handed
        /\ edits' = edits /\ removed' = removed /\ replaced' = replaced
    BY <1>1 DEF roomsVars, online, looks, history
  <2>2. RoomsTypeOK'  BY <2>1 DEF RoomsInv, RoomsTypeOK
  <2>3. Gone' = Gone /\ \A x : Online(x)' <=> Online(x)  BY <2>1 DEF Gone, Online
  <2>4. SessionsInv'
    BY <2>1 DEF RoomsInv, SessionsInv, SeatedInv, LoginInv, FreshInv, RemovalInv, ReplacingInv, Clear, Online, Fresh
  <2>5. LooksInv' /\ NoGhosts'  BY <2>1, <2>3 DEF RoomsInv, LooksInv, NoGhosts
  <2> QED  BY <2>1, <2>2, <2>3, <2>4, <2>5 DEF RoomsInv
<1>2. ASSUME NEW c \in Conns, NEW s \in Sessions, RoomStep(c, s) PROVE RoomsInv'
  BY <1>2, CreateKeeps, JoinKeeps, LeaveKeeps DEF RoomStep
<1>3. ASSUME NEW c \in Conns, NEW s \in Sessions, ChatRoomAdmin(c, s) PROVE RoomsInv'
  BY <1>3, UpdateKeeps, ReorderKeeps, BanKeeps, KickKeeps, EnlistKeeps DEF ChatRoomAdmin
<1>4. ASSUME NEW c \in Conns, NEW s \in Sessions, Dress(c, s) PROVE RoomsInv'
  BY <1>4, DressKeeps
<1>5. ASSUME NEW s \in Sessions, NEW c \in Conns, NEW m \in Members, StartLogin(s, c, m) PROVE RoomsInv'
  BY <1>5, StartLoginKeeps
<1>6. CASE Found
  <2>1. Login \in Removers /\ Login \notin Conns  BY RoomsAssumption DEF Removers
  <2>2. rm[Login].id \in Conns  BY <1>6, <2>1 DEF Found, RoomsInv, SessionsInv, RemovalInv
  <2>3. link' \in [Conns -> {"open", "closing", "closed"}] /\ Gone' = Gone
    BY <1>6 DEF Found, Gone, RoomsInv, RoomsTypeOK
  <2>4. FindsAccount(Login, rm[Login].id) /\ UNCHANGED <<online, gs, login, looks, history>>
    BY <1>6 DEF Found
  <2> QED  BY <2>1, <2>2, <2>3, <2>4, FindingKeeps
<1>7. CASE SeatLogin  BY <1>7, SeatLoginKeeps
<1>8. ASSUME NEW x \in Removers, RemoveAccount(x) PROVE RoomsInv'
  BY <1>8, HookKeeps, EraseKeeps DEF RemoveAccount
<1>9. ASSUME NEW c \in Conns, AccountDisconnect(c) \/ DoDisconnect(c) PROVE RoomsInv'
  <2>1. FindsAccount(c, c) /\ UNCHANGED <<online, gs, login, looks, history>> /\ link[c] = "open"
    BY <1>9 DEF AccountDisconnect, DoDisconnect, Removes
  <2>2. link' \in [Conns -> {"open", "closing", "closed"}] /\ Gone' = Gone
    <3>1. link \in [Conns -> {"open", "closing", "closed"}]  BY DEF RoomsInv, RoomsTypeOK
    <3>2. link' = link \/ link' = [link EXCEPT ![c] = "closing"]
      BY <1>9 DEF AccountDisconnect, DoDisconnect
    <3> QED  BY <2>1, <3>1, <3>2 DEF Gone
  <2>3. c \in Removers  BY DEF Removers
  <2> QED  BY <2>1, <2>2, <2>3, FindingKeeps
<1>10. ASSUME NEW c \in Conns, LeaveHub(c) PROVE RoomsInv'  BY <1>10, LeaveHubKeeps
<1>11. CASE Flush  BY <1>11, FlushKeeps
<1> QED
  BY <1>1, <1>2, <1>3, <1>4, <1>5, <1>6, <1>7, <1>8, <1>9, <1>10, <1>11 DEF RoomsNext

\* What the chat rooms' properties rest on: rooms, sessions, names and looks as one
\* inductive invariant of comings, goings, edits and logins.
THEOREM RoomsInvariant == RoomsSpec => []RoomsInv
BY RoomsInitInv, RoomsNextInv, PTL DEF RoomsSpec

\* The state is what the code's types say it is.
THEOREM RoomsTypeCorrect == RoomsSpec => []RoomsTypeOK
<1>1. RoomsInv => RoomsTypeOK  BY DEF RoomsInv
<1> QED  BY <1>1, RoomsInvariant, PTL

\* A sound room's list of members and its members' chat_room agree, and a room is there
\* exactly while it has members: for any number of connections, sessions and rooms.
THEOREM MembershipAgreesCorrect == RoomsSpec => []MembershipAgrees
<1>1. ASSUME RoomsInv PROVE MembershipAgrees
  <2> SUFFICES ASSUME NEW r \in Rooms \ gs.mixed
               PROVE  /\ \A s \in Sessions : gs.at[s] = r <=> s \in ToSet(gs.members[r])
                      /\ IsInjective(gs.members[r])
                      /\ r \in gs.rooms <=> gs.members[r] # <<>>
                      /\ gs.data[r] = NoData <=> gs.members[r] = <<>>
    BY DEF MembershipAgrees, Sound
  <2>1. IsInjective(gs.members[r]) /\ \A s \in ToSet(gs.members[r]) : gs.at[s] = r
    BY <1>1 DEF RoomsInv, RoomsHold, Seats, Within
  <2>2. \A s \in Sessions : gs.at[s] = r => s \in ToSet(gs.members[r])
    BY <1>1 DEF RoomsInv, RoomsHold, Whole, Within
  <2>3. Stands(gs, r)  BY <1>1 DEF RoomsInv
  <2> QED  BY <2>1, <2>2, <2>3 DEF Stands
<1> QED  BY <1>1, RoomsInvariant, PTL

\* What is said in a sound room reaches the connections of its members and nobody else.
THEOREM HeardInsideCorrect == RoomsSpec => []HeardInside
<1>1. ASSUME RoomsInv PROVE HeardInside
  <2> SUFFICES ASSUME NEW r \in Rooms \ gs.mixed
               PROVE  LET inside == {sock[s] : s \in Within(gs, r)} \ Gone
                      IN  /\ gs.hub[r] = inside
                          /\ \A s \in Within(gs, r) :
                                /\ Audience(s) = inside /\ Relayed(s) = inside \ {sock[s]}
                                /\ \A m \in Members :
                                      Whispered(s, m) \ Gone \subseteq inside /\ ItemTold(s, m) \subseteq inside
    BY DEF HeardInside, Sound, Within, Gone
  <2> DEFINE inside == {sock[s] : s \in Within(gs, r)} \ Gone
  <2>1. gs.hub[r] = inside  BY <1>1 DEF RoomsInv, RoomsHold, Hubs
  <2>2. ASSUME NEW s \in Within(gs, r), NEW m \in Members
        PROVE  /\ Audience(s) = inside /\ Relayed(s) = inside \ {sock[s]}
               /\ Whispered(s, m) \ Gone \subseteq inside /\ ItemTold(s, m) \subseteq inside
    <3>1. gs.at[s] = r  BY <1>1 DEF RoomsInv, RoomsHold, Seats
    <3>2. Audience(s) = inside /\ Relayed(s) = inside \ {sock[s]}
      <4> HIDE DEF inside
      <4> QED  BY <2>1, <3>1 DEF Audience, Relayed
    <3>3. Whispered(s, m) \ Gone \subseteq inside
      <4>1. Present(r, m) => First(r, m) \in Within(gs, r)  BY <1>1, FirstIs
      <4> QED  BY <3>1, <4>1 DEF Whispered
    <3>4. ItemTold(s, m) \subseteq inside
      <4> HIDE DEF inside
      <4> QED  BY <3>2 DEF ItemTold
    <3> QED  BY <3>2, <3>3, <3>4
  <2>3. \A s \in Within(gs, r) : Audience(s) = inside /\ Relayed(s) = inside \ {sock[s]}
    <3> TAKE s \in Within(gs, r)
    <3>1. gs.at[s] = r  BY <1>1 DEF RoomsInv, RoomsHold, Seats
    <3> HIDE DEF inside
    <3> QED  BY <2>1, <3>1 DEF Audience, Relayed
  <2> HIDE DEF inside
  <2>4. \A s \in Within(gs, r) : \A m \in Members :
           Whispered(s, m) \ Gone \subseteq inside /\ ItemTold(s, m) \subseteq inside
    BY <2>2
  <2> QED  BY <2>1, <2>3, <2>4 DEF inside
<1> QED  BY <1>1, RoomsInvariant, PTL

\* A client that has every message of a sound room knows its members, in their order.
THEOREM ViewsAgreeCorrect == RoomsSpec => []ViewsAgree
<1>1. ASSUME RoomsInv PROVE ViewsAgree
  BY <1>1, MappedNumbers DEF RoomsInv, RoomsHold, Seen, ViewsAgree, Sound
<1> QED  BY <1>1, RoomsInvariant, PTL

\* Whoever is in a room is online, but for a session that a login replaced, or whose
\* connection another login shares: a member leaves its room before it is erased.
THEOREM NoGhostsCorrect == RoomsSpec => []NoGhosts
<1>1. RoomsInv => NoGhosts  BY DEF RoomsInv
<1> QED  BY <1>1, RoomsInvariant, PTL

\* What a search lists as to be joined, its name joins.
THEOREM SearchTellsTruthCorrect == RoomsSpec => []SearchTellsTruth
<1>1. ASSUME RoomsInv PROVE SearchTellsTruth
  <2> SUFFICES ASSUME NEW r \in Rooms, NEW s \in Sessions, Listed(r, s, FALSE), CanJoin(r, s),
                      NEW q \in Named(gs.data[r].name)
               PROVE  Answer(q, s) \in {"JoinedRoom", "AlreadyInRoom"}
    BY DEF SearchTellsTruth
  <2>1. q = r  BY <1>1 DEF Listed, Named, RoomsInv, NamesDiffer
  <2> QED  BY <2>1 DEF Listed, CanJoin, Answer
<1> QED  BY <1>1, RoomsInvariant, PTL

\* The last look of a member that went is what was last handed to a write of the database,
\* but for a session that a login replaced; and of who is online it is that, or delayed.
THEOREM LooksHandedOnCorrect == RoomsSpec => []LooksHandedOn
<1>1. ASSUME RoomsInv PROVE LooksHandedOn
  BY <1>1 DEF RoomsInv, LooksInv, LooksHandedOn
<1> QED  BY <1>1, RoomsInvariant, PTL

-----------------------------------------------------------------------------
(* Limits: places, rates and buckets                                        *)

\* The j-th newest of some times; before the first, zero.
Newest(v, j) == IF j \in 1 .. Len(v) THEN v[Len(v) - j + 1] ELSE 0
Old(t) == now - t > Second
UpToNow(v) == \A i \in 1 .. Len(v) : v[i] <= now
Ordered(v) == \A i, j \in 1 .. Len(v) : i <= j => v[i] <= v[j]

Allowances == [conns: Nat, rate: Nat, msgs: Nat, perDay: Nat, perHour: Nat]

LimitsTypeOK ==
    /\ now \in Nat /\ now >= Start
    /\ limits \in Settings /\ highest \in Allowances
    /\ at \in [Sockets -> {"new", "counted", "open", "dropped", "leaving", "gone"}] /\ listed \subseteq Sockets
    /\ kept \in [Addresses -> Seq(Nat)] /\ accepted \in [Addresses -> Seq(Nat)]
    /\ bucket \in [Sockets -> Seq(Nat)] /\ events \in [Sockets -> Seq(Nat)] /\ openedAt \in [Sockets -> Nat]
    /\ creations \in Seq([address: Addresses, time: Nat])

HighestInv ==
    /\ limits.conns <= highest.conns /\ limits.rate <= highest.rate
    /\ limits.perDay <= highest.perDay /\ limits.perHour <= highest.perHour

TimesInv ==
    /\ \A a \in Addresses : UpToNow(accepted[a]) /\ Ordered(accepted[a])
    /\ \A c \in Sockets : UpToNow(events[c]) /\ Ordered(events[c]) /\ openedAt[c] <= now
    /\ \A i \in DOMAIN creations : creations[i].time <= now

ListedInv ==
    /\ \A c \in listed : at[c] \in {"open", "dropped"}
    /\ \A c \in Sockets : at[c] = "open" => c \in listed

PlacesInv == \A a \in Addresses : IsFiniteSet(Holders(a)) /\ Len(kept[a]) = Cardinality(Holders(a))
SuffixInv == \A a \in Addresses : IsSuffix(kept[a], accepted[a])

\* The holders of a place that came since x were accepted since x.
Since(a, x) == {c \in Holders(a) : openedAt[c] >= x}
AcceptedSince(a, x) == {i \in DOMAIN accepted[a] : accepted[a][i] >= x}
SinceInv ==
    \A a \in Addresses, x \in Nat : Cardinality(Since(a, x)) <= Cardinality(AcceptedSince(a, x))

OpenedIn(a, t) == {c \in Holders(a) : openedAt[c] \in t .. t + Second}
OpenInv ==
    \A a \in Addresses :
        /\ Cardinality(Holders(a)) <= highest.conns
        /\ \A t \in Nat : Cardinality(OpenedIn(a, t)) <= highest.rate

CreatedIn(a, t) == {i \in Of(a) : creations[i].time \in t .. t + Hour}
CreationsInv ==
    \A a \in Addresses :
        /\ Cardinality(Of(a)) <= highest.perDay
        /\ \A t \in Nat : Cardinality(CreatedIn(a, t)) <= highest.perHour

\* From the newest on, bucket and events have the same times, or times too old to count.
BucketInv ==
    \A c \in Sockets : at[c] \in {"new", "counted", "open"} =>
        \A j \in Nat \ {0} :
            \/ Newest(bucket[c], j) = Newest(events[c], j)
            \/ Old(Newest(bucket[c], j)) /\ Old(Newest(events[c], j))

LimitsInv ==
    /\ LimitsTypeOK /\ HighestInv /\ TimesInv /\ ListedInv /\ PlacesInv /\ SuffixInv /\ SinceInv
    /\ OpenInv /\ CreationsInv /\ BucketInv

\* Times, as a sequence.
LEMMA TimesAppended ==
    ASSUME NEW v \in Seq(Nat), NEW t \in Nat
    PROVE  /\ Append(v, t) \in Seq(Nat) /\ Len(Append(v, t)) = Len(v) + 1 /\ Len(v) \in Nat
           /\ Append(v, t)[Len(v) + 1] = t
           /\ \A i \in 1 .. Len(v) : Append(v, t)[i] = v[i] /\ v[i] \in Nat
<1>1. \A i \in 1 .. Len(v) : v[i] \in Nat  BY ElementOfSeq
<1> QED  BY <1>1, AppendProperties, LenProperties

LEMMA SuffixIs ==
    ASSUME NEW s \in Seq(Nat), NEW t \in Seq(Nat)
    PROVE  IsSuffix(s, t) <=> /\ Len(s) <= Len(t)
                              /\ \A i \in 1 .. Len(s) : s[i] = t[Len(t) - Len(s) + i]
<1> DEFINE r == Reverse(s)
           u == Reverse(t)
<1>1. /\ Len(s) \in Nat /\ Len(t) \in Nat
      /\ \A i \in 1 .. Len(s) : s[i] \in Nat
      /\ \A i \in 1 .. Len(t) : t[i] \in Nat
  BY LenProperties, ElementOfSeq
<1>2. /\ r \in Seq(Nat) /\ Len(r) = Len(s) /\ \A i \in 1 .. Len(s) : r[i] = s[(Len(s) - i) + 1]
      /\ u \in Seq(Nat) /\ Len(u) = Len(t) /\ \A i \in 1 .. Len(t) : u[i] = t[(Len(t) - i) + 1]
  BY <1>1 DEF Reverse
<1> HIDE DEF r, u
<1>3. CASE Len(s) <= Len(t)
  <2> DEFINE p == SubSeq(r, 1, Len(r))
             q == SubSeq(u, 1, Len(r))
  <2>1. /\ p \in Seq(Nat) /\ Len(p) = Len(s) /\ \A i \in 1 .. Len(s) : p[i] = r[i]
        /\ q \in Seq(Nat) /\ Len(q) = Len(s) /\ \A i \in 1 .. Len(s) : q[i] = u[i]
    <3>a. (\A i \in 1 .. Len(r) : r[i] \in Nat) /\ (\A i \in 1 .. Len(u) : u[i] \in Nat)
      BY <1>2, ElementOfSeq
    <3>b. \A i \in 1 .. Len(s) : i \in 1 .. Len(t)
      BY <1>1, <1>3
    <3>1. /\ \A i \in 1 .. Len(s) : r[i] \in Nat /\ i \in 1 .. Len(t)
          /\ \A i \in 1 .. Len(t) : u[i] \in Nat
      BY <1>2, <3>a, <3>b
    <3>2. Len(r) = Len(s) /\ \A i \in 1 .. Len(s) : u[i] \in Nat  BY <1>2, <3>1
    <3>3. /\ SubSeq(r, 1, Len(s)) \in Seq(Nat) /\ Len(SubSeq(r, 1, Len(s))) = Len(s)
          /\ \A i \in 1 .. Len(s) : SubSeq(r, 1, Len(s))[i] = r[i]
      BY <1>1, <3>1
    <3>4. /\ SubSeq(u, 1, Len(s)) \in Seq(Nat) /\ Len(SubSeq(u, 1, Len(s))) = Len(s)
          /\ \A i \in 1 .. Len(s) : SubSeq(u, 1, Len(s))[i] = u[i]
      BY <1>1, <1>2, <1>3, <3>2
    <3> QED  BY <3>2, <3>3, <3>4
  <2> HIDE DEF p, q
  <2>2. p = q <=> \A i \in 1 .. Len(s) : r[i] = u[i]
    <3>1. p = q => \A i \in 1 .. Len(s) : r[i] = u[i]
      <4> SUFFICES ASSUME p = q, NEW i \in 1 .. Len(s) PROVE r[i] = u[i]
        OBVIOUS
      <4> QED  BY <2>1
    <3>2. (\A i \in 1 .. Len(s) : r[i] = u[i]) => p = q
      <4> SUFFICES ASSUME \A i \in 1 .. Len(s) : r[i] = u[i] PROVE p = q
        OBVIOUS
      <4>1. \A i \in 1 .. Len(p) : p[i] = q[i]  BY <2>1
      <4> QED  BY <2>1, <4>1, SeqEqual
    <3> QED  BY <3>1, <3>2
  <2>3. (\A i \in 1 .. Len(s) : r[i] = u[i]) <=> \A i \in 1 .. Len(s) : s[i] = t[Len(t) - Len(s) + i]
    <3>1. ASSUME \A i \in 1 .. Len(s) : r[i] = u[i], NEW i \in 1 .. Len(s)
          PROVE  s[i] = t[Len(t) - Len(s) + i]
      <4> DEFINE k == (Len(s) - i) + 1
      <4>1. k \in 1 .. Len(s)  BY <1>1
      <4>2. k \in 1 .. Len(t) /\ (Len(s) - k) + 1 = i /\ (Len(t) - k) + 1 = Len(t) - Len(s) + i
        BY <1>1, <1>3, <4>1
      <4> HIDE DEF k
      <4>3. r[k] = s[i] /\ u[k] = t[Len(t) - Len(s) + i]  BY <1>2, <4>1, <4>2
      <4> QED  BY <3>1, <4>1, <4>3
    <3>2. ASSUME \A i \in 1 .. Len(s) : s[i] = t[Len(t) - Len(s) + i], NEW i \in 1 .. Len(s)
          PROVE  r[i] = u[i]
      <4> DEFINE k == (Len(s) - i) + 1
      <4>1. k \in 1 .. Len(s)  BY <1>1
      <4>2. i \in 1 .. Len(t) /\ (Len(t) - i) + 1 = Len(t) - Len(s) + k
        BY <1>1, <1>3, <4>1
      <4>3. r[i] = s[k]  BY <1>2
      <4>4. u[i] = t[Len(t) - Len(s) + k]  BY <1>2, <4>2
      <4> HIDE DEF k
      <4>5. s[k] = t[Len(t) - Len(s) + k]  BY <3>2, <4>1
      <4> QED  BY <4>3, <4>4, <4>5
    <3> QED  BY <3>1, <3>2
  <2>4. IsSuffix(s, t) <=> p = q
    BY <1>2, <1>3 DEF IsSuffix, IsPrefix, r, u, p, q
  <2> QED  BY <1>3, <2>2, <2>3, <2>4
<1>4. CASE ~(Len(s) <= Len(t))
  BY <1>2, <1>4 DEF IsSuffix, IsPrefix, r, u
<1> QED  BY <1>3, <1>4

LEMMA SuffixAppended ==
    ASSUME NEW s \in Seq(Nat), NEW t \in Seq(Nat), NEW x \in Nat, IsSuffix(s, t)
    PROVE  IsSuffix(Append(s, x), Append(t, x))
<1> DEFINE a == Append(s, x)
           b == Append(t, x)
<1>1. /\ a \in Seq(Nat) /\ Len(a) = Len(s) + 1 /\ Len(s) \in Nat /\ a[Len(s) + 1] = x
      /\ \A i \in 1 .. Len(s) : a[i] = s[i]
  BY TimesAppended
<1>2. /\ b \in Seq(Nat) /\ Len(b) = Len(t) + 1 /\ Len(t) \in Nat /\ b[Len(t) + 1] = x
      /\ \A i \in 1 .. Len(t) : b[i] = t[i]
  BY TimesAppended
<1>3. Len(s) <= Len(t) /\ \A i \in 1 .. Len(s) : s[i] = t[Len(t) - Len(s) + i]
  BY SuffixIs
<1> HIDE DEF a, b
<1>4. ASSUME NEW i \in 1 .. Len(a) PROVE a[i] = b[Len(b) - Len(a) + i]
  <2>1. CASE i \in 1 .. Len(s)
    <3>1. Len(b) - Len(a) + i = Len(t) - Len(s) + i /\ Len(t) - Len(s) + i \in 1 .. Len(t)
      BY <1>1, <1>2, <1>3, <2>1
    <3> QED  BY <1>1, <1>2, <1>3, <2>1, <3>1
  <2>2. CASE i = Len(s) + 1
    <3>1. Len(b) - Len(a) + i = Len(t) + 1  BY <1>1, <1>2, <2>2
    <3> QED  BY <1>1, <1>2, <2>2, <3>1
  <2> QED  BY <1>1, <1>4, <2>1, <2>2
<1>5. Len(a) <= Len(b)  BY <1>1, <1>2, <1>3
<1> QED  BY <1>1, <1>2, <1>4, <1>5, SuffixIs DEF a, b

\* release_ip_connection leaves the latest.
LEMMA ReleasedIs ==
    ASSUME NEW v \in Seq(Nat)
    PROVE  /\ Released(v) \in Seq(Nat) /\ Len(v) \in Nat
           /\ Len(Released(v)) = IF Len(v) = 0 THEN 0 ELSE Len(v) - 1
           /\ \A i \in 1 .. Len(Released(v)) : Released(v)[i] = v[i + 1]
<1>1. Len(v) \in Nat /\ <<>> \in Seq(Nat) /\ Len(<<>>) = 0  BY LenProperties
<1>2. CASE Len(v) <= 1
  <2>1. Released(v) = <<>>  BY <1>2 DEF Released
  <2>2. 1 .. 0 = {}  OBVIOUS
  <2>3. Len(v) = 0 \/ Len(v) = 1
    <3>1. \A n \in Nat : n <= 1 => n = 0 \/ n = 1  OBVIOUS
    <3> QED  BY <1>1, <1>2, <3>1
  <2> QED  BY <1>1, <2>1, <2>2, <2>3
<1>3. CASE ~(Len(v) <= 1)
  <2>1. v # <<>>  BY <1>1, <1>3
  <2>2. Released(v) = Tail(v)  BY <1>3 DEF Released
  <2>3. Tail(v) \in Seq(Nat) /\ Len(Tail(v)) = Len(v) - 1 /\ \A i \in 1 .. Len(Tail(v)) : Tail(v)[i] = v[i + 1]
    BY <2>1, HeadTailProperties
  <2> QED  BY <1>1, <1>3, <2>2, <2>3
<1> QED  BY <1>2, <1>3

LEMMA SuffixReleased ==
    ASSUME NEW s \in Seq(Nat), NEW t \in Seq(Nat), IsSuffix(s, t)
    PROVE  IsSuffix(Released(s), t)
<1> DEFINE r == Released(s)
<1>1. /\ r \in Seq(Nat) /\ Len(s) \in Nat /\ Len(r) = (IF Len(s) = 0 THEN 0 ELSE Len(s) - 1)
      /\ \A i \in 1 .. Len(r) : r[i] = s[i + 1]
  BY ReleasedIs
<1>2. Len(s) <= Len(t) /\ Len(t) \in Nat /\ \A i \in 1 .. Len(s) : s[i] = t[Len(t) - Len(s) + i]
  BY SuffixIs, LenProperties
<1> HIDE DEF r
<1>3. ASSUME NEW i \in 1 .. Len(r) PROVE r[i] = t[Len(t) - Len(r) + i]
  <2>a. Len(s) # 0 /\ Len(r) = Len(s) - 1
    <3>1. CASE Len(s) = 0
      <4>1. Len(r) = 0  BY <1>1, <3>1
      <4> QED  BY <4>1
    <3> QED  BY <1>1, <3>1
  <2>1. i + 1 \in 1 .. Len(s) /\ Len(t) - Len(s) + (i + 1) = Len(t) - Len(r) + i
    BY <1>1, <1>2, <2>a
  <2> QED  BY <1>1, <1>2, <2>1
<1>4. Len(r) <= Len(t)  BY <1>1, <1>2
<1> QED  BY <1>1, <1>3, <1>4, SuffixIs DEF r

\* A bucket, from its newest time on: what an event adds to it and drops from it,
LEMMA NewestAppended ==
    ASSUME NEW v \in Seq(Nat), NEW t \in Nat, NEW j \in Nat \ {0}
    PROVE  Newest(Append(v, t), j) = IF j = 1 THEN t ELSE Newest(v, j - 1)
<1> DEFINE a == Append(v, t)
<1>1. /\ Len(a) = Len(v) + 1 /\ Len(v) \in Nat /\ a[Len(v) + 1] = t
      /\ \A i \in 1 .. Len(v) : a[i] = v[i]
  BY TimesAppended
<1> HIDE DEF a
<1>2. CASE j = 1
  <2>1. j \in 1 .. Len(a) /\ Len(a) - j + 1 = Len(v) + 1  BY <1>1, <1>2
  <2> QED  BY <1>1, <1>2, <2>1 DEF Newest, a
<1>3. CASE j # 1 /\ j <= Len(v) + 1
  <2>1. /\ j \in 1 .. Len(a) /\ j - 1 \in 1 .. Len(v)
        /\ Len(a) - j + 1 = Len(v) - (j - 1) + 1 /\ Len(v) - (j - 1) + 1 \in 1 .. Len(v)
    BY <1>1, <1>3
  <2>2. Newest(a, j) = a[Len(a) - j + 1] /\ Newest(v, j - 1) = v[Len(v) - (j - 1) + 1]
    BY <2>1 DEF Newest
  <2>3. a[Len(v) - (j - 1) + 1] = v[Len(v) - (j - 1) + 1]  BY <1>1, <2>1
  <2> QED  BY <1>3, <2>1, <2>2, <2>3 DEF a
<1>4. CASE ~(j <= Len(v) + 1)
  <2>1. j \notin 1 .. Len(a) /\ j - 1 \notin 1 .. Len(v) /\ j # 1  BY <1>1, <1>4
  <2> QED  BY <2>1 DEF Newest, a
<1> QED  BY <1>2, <1>3, <1>4

LEMMA NewestTail ==
    ASSUME NEW v \in Seq(Nat), v # <<>>, NEW j \in Nat \ {0}
    PROVE  Newest(Tail(v), j) = IF j < Len(v) THEN Newest(v, j) ELSE 0
<1> DEFINE r == Tail(v)
<1>1. /\ Len(r) = Len(v) - 1 /\ \A i \in 1 .. Len(r) : r[i] = v[i + 1]
      /\ Len(v) \in Nat /\ Len(v) # 0
  BY HeadTailProperties, LenProperties, EmptySeq
<1> HIDE DEF r
<1>2. CASE j < Len(v)
  <2>1. /\ j \in 1 .. Len(r) /\ j \in 1 .. Len(v)
        /\ Len(r) - j + 1 \in 1 .. Len(r) /\ (Len(r) - j + 1) + 1 = Len(v) - j + 1
    BY <1>1, <1>2
  <2>2. Newest(r, j) = r[Len(r) - j + 1] /\ Newest(v, j) = v[Len(v) - j + 1]
    BY <2>1 DEF Newest
  <2>3. r[Len(r) - j + 1] = v[(Len(r) - j + 1) + 1]  BY <1>1, <2>1
  <2> QED  BY <1>2, <2>1, <2>2, <2>3 DEF r
<1>3. CASE ~(j < Len(v))
  <2>1. j \notin 1 .. Len(r)  BY <1>1, <1>3
  <2> QED  BY <1>3, <2>1 DEF Newest, r
<1> QED  BY <1>2, <1>3

\* and what resizing keeps.
LEMMA NewestFitted ==
    ASSUME NEW b \in Seq(Nat), NEW l \in Nat \ {0}
    PROVE  /\ Fitted(b, l) \in Seq(Nat) /\ Len(Fitted(b, l)) = l
           /\ \A j \in Nat \ {0} : Newest(Fitted(b, l), j) = IF j <= l THEN Newest(b, j) ELSE 0
<1> DEFINE f == Fitted(b, l)
<1>1. Len(b) \in Nat /\ \A i \in 1 .. Len(b) : b[i] \in Nat
  BY LenProperties, ElementOfSeq
<1>2. CASE Len(b) > l
  <2>1. f = SubSeq(b, Len(b) - l + 1, Len(b))  BY <1>2 DEF Fitted
  <2>2. /\ Len(b) - l + 1 \in Int /\ Len(b) \in Int /\ Len(b) - l + 1 <= Len(b)
        /\ \A i \in Len(b) - l + 1 .. Len(b) : i \in 1 .. Len(b) /\ b[i] \in Nat
        /\ Len(b) - (Len(b) - l + 1) + 1 = l
    BY <1>1, <1>2
  <2>3. /\ SubSeq(b, Len(b) - l + 1, Len(b)) \in Seq(Nat)
        /\ Len(SubSeq(b, Len(b) - l + 1, Len(b))) = Len(b) - (Len(b) - l + 1) + 1
        /\ \A i \in 1 .. Len(b) - (Len(b) - l + 1) + 1 :
              SubSeq(b, Len(b) - l + 1, Len(b))[i] = b[(Len(b) - l + 1) + i - 1]
    BY <2>2, SubSeqProperties
  <2>4. f \in Seq(Nat) /\ Len(f) = l
    BY <2>1, <2>2, <2>3
  <2>5. \A i \in 1 .. l : f[i] = b[Len(b) - l + i]
    <3>1. \A i \in 1 .. l : (Len(b) - l + 1) + i - 1 = Len(b) - l + i  BY <1>1
    <3> QED  BY <2>1, <2>2, <2>3, <3>1
  <2> HIDE DEF f
  <2>6. ASSUME NEW j \in Nat \ {0} PROVE Newest(f, j) = IF j <= l THEN Newest(b, j) ELSE 0
    <3>1. CASE j <= l
      <4>1. /\ j \in 1 .. Len(f) /\ j \in 1 .. Len(b) /\ Len(f) - j + 1 \in 1 .. l
            /\ Len(b) - l + (Len(f) - j + 1) = Len(b) - j + 1
        BY <1>1, <1>2, <2>4, <3>1
      <4>2. f[Len(f) - j + 1] = b[Len(b) - l + (Len(f) - j + 1)]  BY <2>5, <4>1
      <4>3. Newest(f, j) = f[Len(f) - j + 1] /\ Newest(b, j) = b[Len(b) - j + 1]  BY <4>1 DEF Newest
      <4> QED  BY <3>1, <4>1, <4>2, <4>3
    <3>2. CASE ~(j <= l)
      <4>1. j \notin 1 .. Len(f)  BY <2>4, <3>2
      <4> QED  BY <3>2, <4>1 DEF Newest
    <3> QED  BY <3>1, <3>2
  <2> QED  BY <2>4, <2>6 DEF f
<1>3. CASE ~(Len(b) > l)
  <2> DEFINE z == [i \in 1 .. l - Len(b) |-> 0]
  <2>1. l - Len(b) \in Nat  BY <1>1, <1>3
  <2>2. z \in Seq(Nat) /\ Len(z) = l - Len(b) /\ \A i \in 1 .. Len(z) : z[i] = 0
    BY <2>1
  <2>3. f = z \o b  BY <1>3 DEF Fitted
  <2> HIDE DEF z
  <2>4. /\ z \o b \in Seq(Nat) /\ Len(z \o b) = Len(z) + Len(b)
        /\ \A i \in 1 .. Len(z) + Len(b) : (z \o b)[i] = IF i <= Len(z) THEN z[i] ELSE b[i - Len(z)]
    BY <2>2, ConcatProperties
  <2>5. f \in Seq(Nat) /\ Len(f) = l
        /\ \A i \in 1 .. l : f[i] = IF i <= l - Len(b) THEN 0 ELSE b[i - (l - Len(b))]
    <3>1. Len(z) + Len(b) = l  BY <1>1, <2>1, <2>2
    <3>2. \A i \in 1 .. l : i <= l - Len(b) => i \in 1 .. Len(z)  BY <1>1, <2>1, <2>2
    <3> QED  BY <2>2, <2>3, <2>4, <3>1, <3>2
  <2> HIDE DEF f
  <2>6. ASSUME NEW j \in Nat \ {0} PROVE Newest(f, j) = IF j <= l THEN Newest(b, j) ELSE 0
    <3>1. CASE j <= l /\ j <= Len(b)
      <4>1. /\ j \in 1 .. Len(f) /\ j \in 1 .. Len(b) /\ Len(f) - j + 1 \in 1 .. l
            /\ ~(Len(f) - j + 1 <= l - Len(b)) /\ (Len(f) - j + 1) - (l - Len(b)) = Len(b) - j + 1
        BY <1>1, <1>3, <2>5, <3>1
      <4>2. f[Len(f) - j + 1] = b[(Len(f) - j + 1) - (l - Len(b))]  BY <2>5, <4>1
      <4>3. Newest(f, j) = f[Len(f) - j + 1] /\ Newest(b, j) = b[Len(b) - j + 1]  BY <4>1 DEF Newest
      <4> QED  BY <3>1, <4>1, <4>2, <4>3
    <3>2. CASE j <= l /\ ~(j <= Len(b))
      <4>1. /\ j \in 1 .. Len(f) /\ j \notin 1 .. Len(b) /\ Len(f) - j + 1 \in 1 .. l
            /\ Len(f) - j + 1 <= l - Len(b)
        BY <1>1, <1>3, <2>5, <3>2
      <4>2. f[Len(f) - j + 1] = 0  BY <2>5, <4>1
      <4> QED  BY <3>2, <4>1, <4>2 DEF Newest
    <3>3. CASE ~(j <= l)
      <4>1. j \notin 1 .. Len(f)  BY <2>5, <3>3
      <4> QED  BY <3>3, <4>1 DEF Newest
    <3> QED  BY <3>1, <3>2, <3>3
  <2> QED  BY <2>5, <2>6 DEF f
<1> QED  BY <1>2, <1>3

\* In an ordered history the times from x on are its newest: there are l of them or more,
\* if the l-th newest is one.
LEMMA CountSince ==
    ASSUME NEW v \in Seq(Nat), Ordered(v), NEW l \in Nat \ {0}, NEW S \in SUBSET (1 .. Len(v)), NEW x \in Nat,
           \A i \in 1 .. Len(v) : i \in S <=> v[i] >= x
    PROVE  /\ IsFiniteSet(S) /\ Cardinality(S) \in Nat
           /\ Cardinality(S) >= l <=> l <= Len(v) /\ Newest(v, l) >= x
<1>1. Len(v) \in Nat /\ \A i \in 1 .. Len(v) : v[i] \in Nat
  BY LenProperties, ElementOfSeq
<1>2. IsFiniteSet(1 .. Len(v)) /\ Cardinality(1 .. Len(v)) = Len(v)
  <2>1. IsFiniteSet(1 .. Len(v)) /\ Cardinality(1 .. Len(v)) = IF 1 > Len(v) THEN 0 ELSE Len(v) - 1 + 1
    BY <1>1, FS_Interval, SMTT(30)
  <2> QED  BY <1>1, <2>1
<1>3. IsFiniteSet(S) /\ Cardinality(S) <= Len(v) /\ Cardinality(S) \in Nat
  BY <1>2, FS_Subset, FS_CardinalityType
<1>4. CASE l <= Len(v)
  <2> DEFINE k == Len(v) - l + 1
  <2>1. k \in 1 .. Len(v) /\ k \in Int /\ Len(v) - k + 1 = l  BY <1>1, <1>4
  <2>2. l \in 1 .. Len(v)  BY <1>1, <1>4
  <2>3. Newest(v, l) = v[k]  BY <2>2 DEF Newest
  <2> HIDE DEF k
  <2>4. CASE v[k] >= x
    <3>1. k .. Len(v) \subseteq S
      <4> SUFFICES ASSUME NEW i \in k .. Len(v) PROVE i \in S
        OBVIOUS
      <4>1. i \in 1 .. Len(v) /\ k <= i  BY <1>1, <2>1
      <4>2. v[k] <= v[i]  BY <2>1, <4>1 DEF Ordered
      <4>3. v[i] >= x  BY <1>1, <2>1, <2>4, <4>1, <4>2
      <4> QED  BY <4>1, <4>3
    <3>2. Cardinality(k .. Len(v)) = l
      <4>1. Cardinality(k .. Len(v)) = IF k > Len(v) THEN 0 ELSE Len(v) - k + 1
        BY <1>1, <2>1, FS_Interval
      <4> QED  BY <1>1, <2>1, <4>1
    <3>3. Cardinality(k .. Len(v)) <= Cardinality(S)  BY <1>3, <3>1, FS_Subset
    <3> QED  BY <1>3, <1>4, <2>3, <2>4, <3>2, <3>3
  <2>5. CASE ~(v[k] >= x)
    <3>1. S \subseteq k + 1 .. Len(v)
      <4> SUFFICES ASSUME NEW i \in S PROVE i \in k + 1 .. Len(v)
        OBVIOUS
      <4>1. i \in 1 .. Len(v) /\ v[i] >= x /\ v[i] \in Nat /\ v[k] \in Nat  BY <1>1, <2>1
      <4>2. ASSUME i <= k PROVE FALSE
        <5>1. v[i] <= v[k]  BY <2>1, <4>1, <4>2 DEF Ordered
        <5> QED  BY <2>5, <4>1, <5>1
      <4> QED  BY <1>1, <2>1, <4>1, <4>2
    <3>2. IsFiniteSet(k + 1 .. Len(v)) /\ Cardinality(k + 1 .. Len(v)) = l - 1
      <4>1. k + 1 \in Int /\ Len(v) \in Int  BY <1>1, <2>1
      <4>2. IsFiniteSet(k + 1 .. Len(v))
            /\ Cardinality(k + 1 .. Len(v)) = IF k + 1 > Len(v) THEN 0 ELSE Len(v) - (k + 1) + 1
        BY <4>1, FS_Interval
      <4> QED  BY <1>1, <2>1, <4>2
    <3>3. Cardinality(S) <= l - 1
      <4> DEFINE K == k + 1 .. Len(v)
      <4>1. S \subseteq K /\ IsFiniteSet(K) /\ Cardinality(K) = l - 1  BY <3>1, <3>2
      <4> HIDE DEF K
      <4>2. Cardinality(S) <= Cardinality(K)  BY <4>1, FS_Subset
      <4> QED  BY <4>1, <4>2
    <3> QED  BY <1>3, <2>3, <2>5, <3>3
  <2> QED  BY <2>4, <2>5
<1>5. CASE ~(l <= Len(v))
  BY <1>1, <1>3, <1>5
<1> QED  BY <1>3, <1>4, <1>5

LEMMA SettingsAllow ==
    ASSUME LimitsTypeOK
    PROVE  /\ limits \in [conns: Nat, rate: Nat \ {0}, msgs: Nat, perDay: Nat, perHour: Nat] /\ highest \in Allowances
           /\ Clamp(limits.msgs) \in Nat \ {0}
           /\ now \in Nat /\ Second \in Nat /\ Hour \in Nat /\ now > Second /\ now >= Hour
<1>1. limits \in [conns: Nat, rate: Nat \ {0}, msgs: Nat, perDay: Nat, perHour: Nat]
  BY LimitsAssumption DEF LimitsTypeOK
<1>2. now \in Nat /\ now >= Start /\ Second \in Nat /\ Hour \in Nat
  BY LimitsAssumption DEF LimitsTypeOK
<1>3. Clamp(limits.msgs) \in Nat \ {0}  BY <1>1 DEF Clamp
<1> QED  BY <1>1, <1>2, <1>3 DEF Start, LimitsTypeOK

LEMMA OrderedAppended ==
    ASSUME now \in Nat, NEW v \in Seq(Nat), UpToNow(v), Ordered(v)
    PROVE  UpToNow(Append(v, now)) /\ Ordered(Append(v, now))
<1> DEFINE a == Append(v, now)
<1>1. /\ Len(a) = Len(v) + 1 /\ Len(v) \in Nat /\ a[Len(v) + 1] = now
      /\ \A i \in 1 .. Len(v) : a[i] = v[i] /\ v[i] \in Nat
  BY TimesAppended
<1> HIDE DEF a
<1>2. ASSUME NEW i \in 1 .. Len(a) PROVE a[i] <= now /\ (i \in 1 .. Len(v) \/ a[i] = now)
  <2>1. i \in 1 .. Len(v) \/ i = Len(v) + 1  BY <1>1
  <2> QED  BY <1>1, <2>1 DEF UpToNow
<1>3. UpToNow(a)  BY <1>2 DEF UpToNow
<1>4. ASSUME NEW i \in 1 .. Len(a), NEW j \in 1 .. Len(a), i <= j PROVE a[i] <= a[j]
  <2>1. CASE j \in 1 .. Len(v)
    <3>1. i \in 1 .. Len(v)  BY <1>1, <1>4, <2>1
    <3> QED  BY <1>1, <1>4, <2>1, <3>1 DEF Ordered
  <2>2. CASE ~(j \in 1 .. Len(v))
    <3>1. a[j] = now  BY <1>2, <2>2
    <3> QED  BY <1>2, <3>1
  <2> QED  BY <2>1, <2>2
<1> QED  BY <1>3, <1>4 DEF Ordered, a

\* While an address's holders, and the times of its connections, stay as they are.
LEMMA HoldersStay ==
    ASSUME LimitsInv, \A a \in Addresses : Holders(a)' = Holders(a), UNCHANGED <<kept, accepted, openedAt, highest>>
    PROVE  PlacesInv' /\ SuffixInv' /\ SinceInv' /\ OpenInv'
<1>1. PlacesInv /\ SuffixInv /\ SinceInv /\ OpenInv  BY DEF LimitsInv
<1>2. PlacesInv'  BY <1>1 DEF PlacesInv
<1>3. SuffixInv'  BY <1>1 DEF SuffixInv
<1>4. ASSUME NEW a \in Addresses, NEW x \in Nat
      PROVE  Since(a, x)' = Since(a, x) /\ AcceptedSince(a, x)' = AcceptedSince(a, x) /\ OpenedIn(a, x)' = OpenedIn(a, x)
  BY DEF Since, AcceptedSince, OpenedIn
<1>5. SinceInv'  BY <1>1, <1>4 DEF SinceInv
<1>6. OpenInv'  BY <1>1, <1>4 DEF OpenInv
<1> QED  BY <1>2, <1>3, <1>5, <1>6

\* A connection moves on, and stays a holder of its place or none.
LEMMA MovesOn ==
    ASSUME LimitsInv, NEW c \in Sockets, NEW s \in {"counted", "open", "dropped", "leaving", "gone"}, at' = [at EXCEPT ![c] = s],
           s \in {"counted", "open"} => at[c] \in {"new", "counted", "open"},
           listed' \subseteq Sockets, listed' \ {c} = listed \ {c},
           s = "open" => c \in listed', c \in listed' => s \in {"open", "dropped"},
           c \in Holders(Home[c]) <=> (c \in listed' \/ s \in {"counted", "leaving"}),
           UNCHANGED <<now, limits, highest, kept, bucket, accepted, openedAt, events, creations>>
    PROVE  LimitsInv'
<1>0. /\ LimitsTypeOK /\ HighestInv /\ TimesInv /\ ListedInv /\ CreationsInv /\ BucketInv
      /\ at \in [Sockets -> {"new", "counted", "open", "dropped", "leaving", "gone"}]
  BY DEF LimitsInv, LimitsTypeOK
<1>1. \A d \in Sockets : at'[d] = IF d = c THEN s ELSE at[d]  BY <1>0
<1>2. LimitsTypeOK'  BY <1>0 DEF LimitsTypeOK
<1>3. HighestInv'  BY <1>0 DEF HighestInv
<1>4. TimesInv'  BY <1>0 DEF TimesInv, UpToNow
<1>5. ListedInv'
  <2>1. ASSUME NEW d \in listed' PROVE at'[d] \in {"open", "dropped"}
    BY <1>0, <1>1, <2>1 DEF ListedInv
  <2>2. ASSUME NEW d \in Sockets, at'[d] = "open" PROVE d \in listed'
    BY <1>0, <1>1, <2>2 DEF ListedInv
  <2> QED  BY <2>1, <2>2 DEF ListedInv
<1>6. \A a \in Addresses : Holders(a)' = Holders(a)
  <2> SUFFICES ASSUME NEW a \in Addresses PROVE Holders(a)' = Holders(a)
    OBVIOUS
  <2>1. ASSUME NEW d \in Sockets PROVE d \in Holders(a)' <=> d \in Holders(a)
    BY <1>1 DEF Holders
  <2>2. Holders(a)' \subseteq Sockets /\ Holders(a) \subseteq Sockets  BY DEF Holders
  <2> QED  BY <2>1, <2>2
<1>7. PlacesInv' /\ SuffixInv' /\ SinceInv' /\ OpenInv'  BY <1>6, HoldersStay
<1>8. CreationsInv'
  <2>1. \A a \in Addresses : Of(a)' = Of(a)  BY DEF Of
  <2>2. \A a \in Addresses, t \in Nat : CreatedIn(a, t)' = CreatedIn(a, t)  BY <2>1 DEF CreatedIn
  <2> QED  BY <1>0, <2>1, <2>2 DEF CreationsInv
<1>9. BucketInv'
  <2>1. \A d \in Sockets : at'[d] \in {"new", "counted", "open"} => at[d] \in {"new", "counted", "open"}
    BY <1>1
  <2> QED  BY <1>0, <2>1 DEF BucketInv, Old
<1> QED  BY <1>2, <1>3, <1>4, <1>5, <1>7, <1>8, <1>9 DEF LimitsInv

LEMMA ListsInv ==
    ASSUME LimitsInv, NEW c \in Sockets, Lists(c) \/ Leaves(c) \/ Unlists(c)
    PROVE  LimitsInv'
<1>0. ListedInv /\ listed \subseteq Sockets /\ at \in [Sockets -> {"new", "counted", "open", "dropped", "leaving", "gone"}]
  BY DEF LimitsInv, LimitsTypeOK
<1>a. c \in Holders(Home[c]) <=> (c \in listed \/ at[c] \in {"counted", "leaving"})
  BY DEF Holders
<1>1. CASE Lists(c)
  BY <1>0, <1>1, <1>a, MovesOn DEF Lists, settings
<1>2. CASE Leaves(c)
  BY <1>0, <1>2, <1>a, MovesOn DEF Leaves, settings, ListedInv
<1>3. CASE Unlists(c) /\ c \in listed
  <2>1. /\ at' = [at EXCEPT ![c] = "leaving"] /\ listed' = listed \ {c}
        /\ UNCHANGED <<now, limits, highest, kept, bucket, accepted, openedAt, events, creations>>
    BY <1>3 DEF Unlists, settings
  <2>2. c \in Holders(Home[c])  BY <1>3, <1>a
  <2>3. listed' \subseteq Sockets /\ listed' \ {c} = listed \ {c} /\ c \notin listed'  BY <1>0, <2>1
  <2> QED  BY <2>1, <2>2, <2>3, MovesOn
<1>4. CASE Unlists(c) /\ c \notin listed
  <2>1. /\ at[c] = "dropped" /\ at' = [at EXCEPT ![c] = "gone"] /\ listed' = listed \ {c}
        /\ UNCHANGED <<now, limits, highest, kept, bucket, accepted, openedAt, events, creations>>
    BY <1>4 DEF Unlists, settings
  <2>2. c \notin Holders(Home[c])  BY <1>4, <1>a, <2>1
  <2>3. listed' \subseteq Sockets /\ listed' \ {c} = listed \ {c} /\ c \notin listed'  BY <1>0, <2>1
  <2> QED  BY <2>1, <2>2, <2>3, MovesOn
<1> QED  BY <1>1, <1>2, <1>3, <1>4

LEMMA RefusesInv ==
    ASSUME LimitsInv, NEW c \in Sockets, Register(c), ~Accepts(kept[Home[c]])
    PROVE  LimitsInv'
<1>0. ListedInv /\ listed \subseteq Sockets  BY DEF LimitsInv, LimitsTypeOK
<1>1. /\ at[c] = "new" /\ at' = [at EXCEPT ![c] = "dropped"]
      /\ UNCHANGED <<now, limits, highest, kept, listed, bucket, accepted, openedAt, events, creations>>
  BY DEF Register, settings
<1>2. c \notin listed  BY <1>0, <1>1 DEF ListedInv
<1>3. c \notin Holders(Home[c])  BY <1>1, <1>2 DEF Holders
<1> QED  BY <1>0, <1>1, <1>2, <1>3, MovesOn

\* The oldest time goes, and a holder with it.
LEMMA ReleaseInv ==
    ASSUME LimitsInv, NEW c \in Sockets, Release(c)
    PROVE  LimitsInv'
<1> DEFINE h == Home[c]
<1>0. /\ LimitsTypeOK /\ HighestInv /\ TimesInv /\ ListedInv /\ PlacesInv /\ SuffixInv /\ SinceInv /\ OpenInv
      /\ CreationsInv /\ BucketInv
  BY DEF LimitsInv
<1>1. /\ at[c] = "leaving" /\ kept' = [kept EXCEPT ![h] = Released(@)] /\ at' = [at EXCEPT ![c] = "gone"]
      /\ UNCHANGED <<now, limits, highest, listed, bucket, accepted, openedAt, events, creations>>
  BY DEF Release, settings
<1>2. h \in Addresses /\ kept \in [Addresses -> Seq(Nat)] /\ accepted \in [Addresses -> Seq(Nat)]
      /\ at \in [Sockets -> {"new", "counted", "open", "dropped", "leaving", "gone"}]
  BY <1>0, LimitsAssumption DEF LimitsTypeOK
<1>3. \A d \in Sockets : at'[d] = IF d = c THEN "gone" ELSE at[d]  BY <1>1, <1>2
<1>4. \A a \in Addresses : kept'[a] = IF a = h THEN Released(kept[a]) ELSE kept[a]  BY <1>1, <1>2
<1>5. \A a \in Addresses : Holders(a)' = IF a = h THEN Holders(a) \ {c} ELSE Holders(a)
  <2> SUFFICES ASSUME NEW a \in Addresses PROVE Holders(a)' = IF a = h THEN Holders(a) \ {c} ELSE Holders(a)
    OBVIOUS
  <2>1. c \notin listed  BY <1>0, <1>1 DEF ListedInv
  <2>2. ASSUME NEW d \in Sockets PROVE d \in Holders(a)' <=> d \in Holders(a) /\ d # c
    BY <1>1, <1>3, <2>1 DEF Holders
  <2>3. Holders(a)' \subseteq Sockets /\ Holders(a) \subseteq Sockets /\ (a # h => c \notin Holders(a))  BY DEF Holders
  <2> QED  BY <2>2, <2>3
<1>6. c \in Holders(h)  BY <1>1 DEF Holders
<1>7. \A a \in Addresses : Holders(a)' \in SUBSET Holders(a)  BY <1>5
<1>8. LimitsTypeOK'
  <2>1. kept' \in [Addresses -> Seq(Nat)]
    <3>1. Released(kept[h]) \in Seq(Nat)  BY <1>2, ReleasedIs
    <3> QED  BY <1>1, <1>2, <3>1
  <2> QED  BY <1>0, <1>1, <2>1 DEF LimitsTypeOK
<1>9. HighestInv' /\ TimesInv'
  BY <1>0, <1>1 DEF HighestInv, TimesInv, UpToNow
<1>10. ListedInv'
  <2>1. c \notin listed  BY <1>0, <1>1 DEF ListedInv
  <2>2. listed' = listed /\ listed \subseteq Sockets  BY <1>0, <1>1 DEF LimitsTypeOK
  <2> QED  BY <1>0, <1>3, <2>1, <2>2 DEF ListedInv
<1>11. PlacesInv'
  <2> SUFFICES ASSUME NEW a \in Addresses
               PROVE  IsFiniteSet(Holders(a)') /\ Len(kept'[a]) = Cardinality(Holders(a)')
    BY DEF PlacesInv
  <2>1. IsFiniteSet(Holders(a)) /\ Len(kept[a]) = Cardinality(Holders(a)) /\ Len(kept[a]) \in Nat
    BY <1>0, <1>2, LenProperties DEF PlacesInv
  <2>2. CASE a = h
    <3>1. IsFiniteSet(Holders(a) \ {c}) /\ Cardinality(Holders(a) \ {c}) = Cardinality(Holders(a)) - 1
      BY <1>6, <2>1, <2>2, FS_RemoveElement
    <3>2. Cardinality(Holders(a)) # 0
      <4>1. Holders(a) # {}  BY <1>6, <2>2
      <4> QED  BY <2>1, <4>1, FS_EmptySet
    <3>3. Len(Released(kept[a])) = Len(kept[a]) - 1
      <4>1. Len(Released(kept[a])) = IF Len(kept[a]) = 0 THEN 0 ELSE Len(kept[a]) - 1  BY <1>2, <2>2, ReleasedIs
      <4> QED  BY <2>1, <3>2, <4>1
    <3>4. Holders(a)' = Holders(a) \ {c} /\ kept'[a] = Released(kept[a])  BY <1>4, <1>5, <2>2
    <3> QED  BY <2>1, <3>1, <3>3, <3>4
  <2>3. CASE a # h
    BY <1>4, <1>5, <2>1, <2>3
  <2> QED  BY <2>2, <2>3
<1>12. SuffixInv'
  <2> SUFFICES ASSUME NEW a \in Addresses PROVE IsSuffix(kept'[a], accepted[a])
    BY <1>1 DEF SuffixInv
  <2>1. IsSuffix(kept[a], accepted[a]) /\ kept[a] \in Seq(Nat) /\ accepted[a] \in Seq(Nat)
    BY <1>0, <1>2 DEF SuffixInv
  <2>2. IsSuffix(Released(kept[a]), accepted[a])  BY <2>1, SuffixReleased
  <2> QED  BY <1>4, <2>1, <2>2
<1>13. SinceInv'
  <2> SUFFICES ASSUME NEW a \in Addresses, NEW x \in Nat
               PROVE  Cardinality(Since(a, x)') <= Cardinality(AcceptedSince(a, x)')
    BY DEF SinceInv
  <2>1. Since(a, x)' \in SUBSET Since(a, x) /\ Since(a, x) \in SUBSET Holders(a) /\ AcceptedSince(a, x)' = AcceptedSince(a, x)
    BY <1>1, <1>7 DEF Since, AcceptedSince
  <2>2. IsFiniteSet(Since(a, x))  BY <1>0, <2>1, FS_Subset DEF PlacesInv
  <2>3. /\ Cardinality(Since(a, x)') <= Cardinality(Since(a, x)) /\ Cardinality(Since(a, x)') \in Nat
        /\ Cardinality(Since(a, x)) \in Nat
    BY <2>1, <2>2, FS_Subset, FS_CardinalityType
  <2>4. Cardinality(Since(a, x)) <= Cardinality(AcceptedSince(a, x))  BY <1>0 DEF SinceInv
  <2>5. Cardinality(AcceptedSince(a, x)) \in Nat
    <3>1. AcceptedSince(a, x) \in SUBSET (1 .. Len(accepted[a])) /\ Len(accepted[a]) \in Nat
      BY <1>2, LenProperties DEF AcceptedSince
    <3>2. IsFiniteSet(1 .. Len(accepted[a]))  BY <3>1, FS_Interval
    <3> QED  BY <3>1, <3>2, FS_Subset, FS_CardinalityType
  <2> QED  BY <2>1, <2>3, <2>4, <2>5
<1>14. OpenInv'
  <2> SUFFICES ASSUME NEW a \in Addresses
               PROVE  /\ Cardinality(Holders(a)') <= highest.conns
                      /\ \A t \in Nat : Cardinality(OpenedIn(a, t)') <= highest.rate
    BY <1>1 DEF OpenInv
  <2>1. /\ IsFiniteSet(Holders(a)) /\ Cardinality(Holders(a)) <= highest.conns /\ highest.conns \in Nat /\ highest.rate \in Nat
        /\ \A t \in Nat : Cardinality(OpenedIn(a, t)) <= highest.rate
    BY <1>0 DEF PlacesInv, OpenInv, LimitsTypeOK, Allowances
  <2>2. Cardinality(Holders(a)') <= highest.conns
    <3>1. Cardinality(Holders(a)') <= Cardinality(Holders(a)) /\ IsFiniteSet(Holders(a)')  BY <1>7, <2>1, FS_Subset
    <3>2. Cardinality(Holders(a)') \in Nat /\ Cardinality(Holders(a)) \in Nat  BY <2>1, <3>1, FS_CardinalityType
    <3> QED  BY <2>1, <3>1, <3>2
  <2>3. ASSUME NEW t \in Nat PROVE Cardinality(OpenedIn(a, t)') <= highest.rate
    <3>1. OpenedIn(a, t)' \in SUBSET OpenedIn(a, t) /\ OpenedIn(a, t) \in SUBSET Holders(a)
      BY <1>1, <1>7 DEF OpenedIn
    <3>2. IsFiniteSet(OpenedIn(a, t))  BY <2>1, <3>1, FS_Subset
    <3>3. /\ Cardinality(OpenedIn(a, t)') <= Cardinality(OpenedIn(a, t))
          /\ Cardinality(OpenedIn(a, t)') \in Nat /\ Cardinality(OpenedIn(a, t)) \in Nat
      BY <3>1, <3>2, FS_Subset, FS_CardinalityType
    <3> QED  BY <2>1, <3>3
  <2> QED  BY <2>2, <2>3
<1>15. CreationsInv'
  <2>1. \A a \in Addresses : Of(a)' = Of(a)  BY <1>1 DEF Of
  <2>2. \A a \in Addresses, t \in Nat : CreatedIn(a, t)' = CreatedIn(a, t)  BY <1>1, <2>1 DEF CreatedIn
  <2> QED  BY <1>0, <1>1, <2>1, <2>2 DEF CreationsInv
<1>16. BucketInv'
  <2>1. \A d \in Sockets : at'[d] \in {"new", "counted", "open"} => at[d] \in {"new", "counted", "open"}
    BY <1>3
  <2> QED  BY <1>0, <1>1, <2>1 DEF BucketInv, Old
<1> QED
  BY <1>8, <1>9, <1>10, <1>11, <1>12, <1>13, <1>14, <1>15, <1>16 DEF LimitsInv

LEMMA AcceptedFinite ==
    ASSUME LimitsTypeOK, NEW a \in Addresses, NEW x \in Nat
    PROVE  /\ IsFiniteSet(AcceptedSince(a, x)) /\ Cardinality(AcceptedSince(a, x)) \in Nat
           /\ AcceptedSince(a, x) \in SUBSET (1 .. Len(accepted[a]))
<1>1. accepted[a] \in Seq(Nat)  BY DEF LimitsTypeOK
<1>2. AcceptedSince(a, x) \in SUBSET (1 .. Len(accepted[a])) /\ Len(accepted[a]) \in Nat
  BY <1>1, LenProperties DEF AcceptedSince
<1>3. IsFiniteSet(1 .. Len(accepted[a]))  BY <1>2, FS_Interval
<1> QED  BY <1>2, <1>3, FS_Subset, FS_CardinalityType

\* What register_ip_connection takes in leaves room for one: of those that hold a place, fewer than
\* the rate came within the last second.
LEMMA RateFits ==
    ASSUME LimitsInv, NEW a \in Addresses, Accepts(kept[a])
    PROVE  Cardinality(Since(a, now - Second)) < limits.rate
<1> DEFINE k == kept[a]
           acc == accepted[a]
           r == limits.rate
           x == now - Second
<1>0. LimitsTypeOK /\ TimesInv /\ PlacesInv /\ SuffixInv /\ SinceInv  BY DEF LimitsInv
<1>1. k \in Seq(Nat) /\ acc \in Seq(Nat) /\ Len(k) \in Nat /\ Len(acc) \in Nat  BY <1>0, LenProperties DEF LimitsTypeOK
<1>2. now \in Nat /\ Second \in Nat /\ x \in Nat /\ r \in Nat \ {0}  BY <1>0, SettingsAllow
<1>3. /\ IsFiniteSet(Since(a, x)) /\ Cardinality(Since(a, x)) \in Nat
      /\ Cardinality(Since(a, x)) <= Len(k)
  <2>1. Since(a, x) \in SUBSET Holders(a)  BY DEF Since
  <2>2. IsFiniteSet(Holders(a)) /\ Len(k) = Cardinality(Holders(a))  BY <1>0 DEF PlacesInv
  <2> QED  BY <2>1, <2>2, FS_Subset, FS_CardinalityType
<1>4. CASE Len(k) < r
  BY <1>1, <1>2, <1>3, <1>4
<1>5. CASE ~(Len(k) < r)
  <2>1. ~(now - k[Len(k) - r + 1] <= Second)
    <3>1. Len(k) >= r  BY <1>1, <1>2, <1>5
    <3>2. ~OverRate(k)  BY DEF Accepts
    <3> QED  BY <3>1, <3>2 DEF OverRate
  <2>2. Len(k) <= Len(acc) /\ \A i \in 1 .. Len(k) : k[i] = acc[Len(acc) - Len(k) + i]
    <3>1. IsSuffix(k, acc)  BY <1>0 DEF SuffixInv
    <3> QED  BY <1>1, <3>1, SuffixIs
  <2>3. /\ Len(k) - r + 1 \in 1 .. Len(k) /\ r \in 1 .. Len(acc)
        /\ Len(acc) - Len(k) + (Len(k) - r + 1) = Len(acc) - r + 1
    <3> HIDE DEF k, acc, r
    <3>1. \A p, q \in Nat, n \in Nat \ {0} : ~(p < n) /\ p <= q =>
             p - n + 1 \in 1 .. p /\ n \in 1 .. q /\ q - p + (p - n + 1) = q - n + 1
      OBVIOUS
    <3> QED  BY <1>1, <1>2, <1>5, <2>2, <3>1
  <2>4. Newest(acc, r) = k[Len(k) - r + 1] /\ k[Len(k) - r + 1] \in Nat
    <3>1. k[Len(k) - r + 1] = acc[Len(acc) - r + 1]
      <4> DEFINE j == Len(k) - r + 1
      <4>1. j \in 1 .. Len(k) /\ Len(acc) - Len(k) + j = Len(acc) - r + 1  BY <2>3
      <4> HIDE DEF j
      <4>2. k[j] = acc[Len(acc) - Len(k) + j]  BY <2>2, <4>1
      <4> QED  BY <4>1, <4>2 DEF j
    <3>2. k[Len(k) - r + 1] \in Nat  BY <1>1, <2>3, ElementOfSeq
    <3> QED  BY <2>3, <3>1, <3>2 DEF Newest
  <2>5. ~(Newest(acc, r) >= x)  BY <1>2, <2>1, <2>4
  <2>6. AcceptedSince(a, x) \in SUBSET (1 .. Len(acc)) /\ Cardinality(AcceptedSince(a, x)) \in Nat
    BY <1>0, <1>2, AcceptedFinite
  <2>7. \A i \in 1 .. Len(acc) : i \in AcceptedSince(a, x) <=> acc[i] >= x
    BY <1>1, LenProperties DEF AcceptedSince
  <2>8. Ordered(acc)  BY <1>0 DEF TimesInv
  <2> HIDE DEF acc, r, x
  <2>9. ~(Cardinality(AcceptedSince(a, x)) >= r)
    BY <1>1, <1>2, <2>5, <2>6, <2>7, <2>8, CountSince
  <2>10. Cardinality(Since(a, x)) <= Cardinality(AcceptedSince(a, x))
    BY <1>0, <1>2 DEF SinceInv
  <2>11. Cardinality(Since(a, x)) < r
    BY <1>2, <1>3, <2>6, <2>9, <2>10
  <2> QED  BY <2>11 DEF r, x
<1> QED  BY <1>4, <1>5

LEMMA AdmitsInv ==
    ASSUME LimitsInv, NEW c \in Sockets, Register(c), Accepts(kept[Home[c]])
    PROVE  LimitsInv'
<1> DEFINE h == Home[c]
<1>0. /\ LimitsTypeOK /\ HighestInv /\ TimesInv /\ ListedInv /\ PlacesInv /\ SuffixInv /\ SinceInv /\ OpenInv
      /\ CreationsInv /\ BucketInv
  BY DEF LimitsInv
<1>1. /\ at[c] = "new" /\ at' = [at EXCEPT ![c] = "counted"]
      /\ kept' = [kept EXCEPT ![h] = Append(@, now)] /\ accepted' = [accepted EXCEPT ![h] = Append(@, now)]
      /\ openedAt' = [openedAt EXCEPT ![c] = now]
      /\ UNCHANGED <<now, limits, highest, listed, bucket, events, creations>>
  BY DEF Register, settings
<1>2. h \in Addresses /\ kept \in [Addresses -> Seq(Nat)] /\ accepted \in [Addresses -> Seq(Nat)]
      /\ at \in [Sockets -> {"new", "counted", "open", "dropped", "leaving", "gone"}]
      /\ openedAt \in [Sockets -> Nat] /\ now \in Nat /\ Second \in Nat /\ now > Second
      /\ limits.rate \in Nat \ {0} /\ highest \in Allowances /\ limits.conns \in Nat
  BY <1>0, LimitsAssumption, SettingsAllow DEF LimitsTypeOK
<1>3. \A d \in Sockets : /\ at'[d] = IF d = c THEN "counted" ELSE at[d]
                         /\ openedAt'[d] = IF d = c THEN now ELSE openedAt[d]
  BY <1>1, <1>2
<1>4. \A a \in Addresses : /\ kept'[a] = IF a = h THEN Append(kept[a], now) ELSE kept[a]
                           /\ accepted'[a] = IF a = h THEN Append(accepted[a], now) ELSE accepted[a]
  BY <1>1, <1>2
<1>5. c \notin listed  BY <1>0, <1>1 DEF ListedInv
<1>6. \A a \in Addresses : c \notin Holders(a)  BY <1>1, <1>5 DEF Holders
<1>7. \A a \in Addresses : Holders(a)' = IF a = h THEN Holders(a) \cup {c} ELSE Holders(a)
  <2> SUFFICES ASSUME NEW a \in Addresses PROVE Holders(a)' = IF a = h THEN Holders(a) \cup {c} ELSE Holders(a)
    OBVIOUS
  <2>1. ASSUME NEW d \in Sockets, d # c PROVE d \in Holders(a)' <=> d \in Holders(a)
    BY <1>1, <1>3, <2>1 DEF Holders
  <2>2. c \in Holders(a)' <=> a = h
    BY <1>1, <1>3, <1>5 DEF Holders
  <2>3. Holders(a)' \subseteq Sockets /\ Holders(a) \subseteq Sockets  BY DEF Holders
  <2> QED  BY <1>6, <2>1, <2>2, <2>3
<1>8. LimitsTypeOK'
  <2>1. Append(kept[h], now) \in Seq(Nat) /\ Append(accepted[h], now) \in Seq(Nat)  BY <1>2, TimesAppended
  <2>2. kept' \in [Addresses -> Seq(Nat)] /\ accepted' \in [Addresses -> Seq(Nat)]  BY <1>1, <1>2, <2>1
  <2>3. openedAt' \in [Sockets -> Nat]  BY <1>1, <1>2
  <2>4. at' \in [Sockets -> {"new", "counted", "open", "dropped", "leaving", "gone"}]  BY <1>1, <1>2
  <2> QED  BY <1>0, <1>1, <2>2, <2>3, <2>4 DEF LimitsTypeOK
<1>9. HighestInv'  BY <1>0, <1>1 DEF HighestInv
<1>10. TimesInv'
  <2>1. ASSUME NEW a \in Addresses PROVE UpToNow(accepted[a])' /\ Ordered(accepted[a])'
    <3>1. UpToNow(accepted[a]) /\ Ordered(accepted[a]) /\ accepted[a] \in Seq(Nat)  BY <1>0, <1>2 DEF TimesInv
    <3>2. UpToNow(accepted'[a]) /\ Ordered(accepted'[a])
      <4>1. CASE a = h  BY <1>2, <1>4, <3>1, <4>1, OrderedAppended
      <4>2. CASE a # h  BY <1>4, <3>1, <4>2
      <4> QED  BY <4>1, <4>2
    <3> QED  BY <1>1, <3>2 DEF UpToNow, Ordered
  <2>2. ASSUME NEW d \in Sockets PROVE UpToNow(events[d])' /\ Ordered(events[d])' /\ openedAt'[d] <= now'
    BY <1>0, <1>1, <1>2, <1>3 DEF TimesInv, UpToNow, Ordered
  <2>3. \A i \in DOMAIN creations' : creations'[i].time <= now'  BY <1>0, <1>1 DEF TimesInv
  <2> QED  BY <2>1, <2>2, <2>3 DEF TimesInv
<1>11. ListedInv'
  <2>1. listed' = listed /\ listed \subseteq Sockets  BY <1>0, <1>1 DEF LimitsTypeOK
  <2> QED  BY <1>0, <1>3, <1>5, <2>1 DEF ListedInv
<1>a. ASSUME NEW a \in Addresses
      PROVE  /\ IsFiniteSet(Holders(a)) /\ Len(kept[a]) = Cardinality(Holders(a)) /\ Len(kept[a]) \in Nat
             /\ Cardinality(Holders(a)) \in Nat
  BY <1>0, <1>2, LenProperties DEF PlacesInv
<1>b. IsFiniteSet(Holders(h) \cup {c}) /\ Cardinality(Holders(h) \cup {c}) = Cardinality(Holders(h)) + 1
  BY <1>2, <1>6, <1>a, FS_AddElement
<1>12. PlacesInv'
  <2> SUFFICES ASSUME NEW a \in Addresses
               PROVE  IsFiniteSet(Holders(a)') /\ Len(kept'[a]) = Cardinality(Holders(a)')
    BY DEF PlacesInv
  <2>1. CASE a = h
    <3>1. Len(Append(kept[a], now)) = Len(kept[a]) + 1  BY <1>2, <2>1, TimesAppended
    <3>2. Holders(a)' = Holders(h) \cup {c} /\ kept'[a] = Append(kept[a], now)  BY <1>4, <1>7, <2>1
    <3> QED  BY <1>a, <1>b, <2>1, <3>1, <3>2
  <2>2. CASE a # h
    BY <1>4, <1>7, <1>a, <2>2
  <2> QED  BY <2>1, <2>2
<1>13. SuffixInv'
  <2> SUFFICES ASSUME NEW a \in Addresses PROVE IsSuffix(kept'[a], accepted'[a])
    BY DEF SuffixInv
  <2>1. IsSuffix(kept[a], accepted[a]) /\ kept[a] \in Seq(Nat) /\ accepted[a] \in Seq(Nat)
    BY <1>0, <1>2 DEF SuffixInv
  <2>2. CASE a = h
    <3>1. IsSuffix(Append(kept[a], now), Append(accepted[a], now))  BY <1>2, <2>1, SuffixAppended
    <3> QED  BY <1>4, <2>2, <3>1
  <2>3. CASE a # h  BY <1>4, <2>1, <2>3
  <2> QED  BY <2>2, <2>3
<1>14. SinceInv'
  <2> SUFFICES ASSUME NEW a \in Addresses, NEW x \in Nat
               PROVE  Cardinality(Since(a, x)') <= Cardinality(AcceptedSince(a, x)')
    BY DEF SinceInv
  <2>1. Cardinality(Since(a, x)) <= Cardinality(AcceptedSince(a, x))  BY <1>0 DEF SinceInv
  <2>2. CASE a # h
    <3>1. Since(a, x)' = Since(a, x)
      <4>1. Holders(a)' = Holders(a)  BY <1>7, <2>2
      <4>2. Holders(a) \in SUBSET Sockets  BY DEF Holders
      <4>3. \A d \in Holders(a) : openedAt'[d] = openedAt[d]  BY <1>3, <1>6, <4>2
      <4> QED  BY <4>1, <4>3 DEF Since
    <3>2. AcceptedSince(a, x)' = AcceptedSince(a, x)  BY <1>4, <2>2 DEF AcceptedSince
    <3> QED  BY <2>1, <3>1, <3>2
  <2>3. CASE a = h
    <3>1. accepted'[a] = Append(accepted[a], now) /\ Holders(a)' = Holders(a) \cup {c}  BY <1>4, <1>7, <2>3
    <3>2. /\ Len(Append(accepted[a], now)) = Len(accepted[a]) + 1 /\ Len(accepted[a]) \in Nat
          /\ Append(accepted[a], now)[Len(accepted[a]) + 1] = now
          /\ \A i \in 1 .. Len(accepted[a]) : Append(accepted[a], now)[i] = accepted[a][i]
      BY <1>2, TimesAppended
    <3>a. Append(accepted[a], now) \in Seq(Nat)  BY <1>2, TimesAppended
    <3> DEFINE w == accepted'[a]
               n == Len(accepted[a])
    <3>3. /\ DOMAIN w = 1 .. n + 1 /\ w[n + 1] = now /\ n \in Nat /\ DOMAIN accepted[a] = 1 .. n
          /\ \A i \in 1 .. n : w[i] = accepted[a][i]
      BY <1>2, <3>1, <3>2, <3>a, LenProperties
    <3>4. AcceptedSince(a, x)' = {i \in DOMAIN w : w[i] >= x}  BY DEF AcceptedSince
    <3> HIDE DEF w, n
    <3>5. IsFiniteSet(Since(a, x)) /\ Cardinality(Since(a, x)) \in Nat
      <4>1. Since(a, x) \in SUBSET Holders(a)  BY DEF Since
      <4> QED  BY <1>a, <4>1, FS_Subset, FS_CardinalityType
    <3>6. IsFiniteSet(AcceptedSince(a, x)) /\ Cardinality(AcceptedSince(a, x)) \in Nat
      BY <1>0, AcceptedFinite
    <3>7. CASE now >= x
      <4>1. Since(a, x)' = Since(a, x) \cup {c}
        <5>1. Since(a, x)' = {d \in Holders(a) \cup {c} : openedAt'[d] >= x}  BY <3>1 DEF Since
        <5>2. Holders(a) \in SUBSET Sockets  BY DEF Holders
        <5>3. \A d \in Holders(a) : openedAt'[d] = openedAt[d]  BY <1>3, <1>6, <5>2
        <5>4. openedAt'[c] = now  BY <1>3
        <5> QED  BY <3>7, <5>1, <5>3, <5>4 DEF Since
      <4>2. c \notin Since(a, x)  BY <1>6 DEF Since
      <4>3. AcceptedSince(a, x)' = AcceptedSince(a, x) \cup {n + 1}
        <5>1. \A i : i \in 1 .. n + 1 <=> i \in 1 .. n \/ i = n + 1  BY <3>3
        <5>2. \A i : i \in AcceptedSince(a, x) <=> i \in 1 .. n /\ accepted[a][i] >= x  BY <3>3 DEF AcceptedSince
        <5> QED  BY <3>3, <3>4, <3>7, <5>1, <5>2
      <4>4. n + 1 \notin AcceptedSince(a, x)  BY <3>3 DEF AcceptedSince
      <4>5. Cardinality(Since(a, x) \cup {c}) = Cardinality(Since(a, x)) + 1
        BY <3>5, <4>2, FS_AddElement
      <4>6. Cardinality(AcceptedSince(a, x) \cup {n + 1}) = Cardinality(AcceptedSince(a, x)) + 1
        BY <3>6, <4>4, FS_AddElement
      <4> QED  BY <2>1, <3>5, <3>6, <4>1, <4>3, <4>5, <4>6
    <3>8. CASE ~(now >= x)
      <4>1. Since(a, x)' = Since(a, x)
        <5>1. Since(a, x)' = {d \in Holders(a) \cup {c} : openedAt'[d] >= x}  BY <3>1 DEF Since
        <5>2. Holders(a) \in SUBSET Sockets  BY DEF Holders
        <5>3. \A d \in Holders(a) : openedAt'[d] = openedAt[d]  BY <1>3, <1>6, <5>2
        <5>4. openedAt'[c] = now  BY <1>3
        <5> QED  BY <3>8, <5>1, <5>3, <5>4 DEF Since
      <4>2. AcceptedSince(a, x)' = AcceptedSince(a, x)
        <5>1. \A i : i \in 1 .. n + 1 <=> i \in 1 .. n \/ i = n + 1  BY <3>3
        <5>2. \A i : i \in AcceptedSince(a, x) <=> i \in 1 .. n /\ accepted[a][i] >= x  BY <3>3 DEF AcceptedSince
        <5> QED  BY <3>3, <3>4, <3>8, <5>1, <5>2
      <4> QED  BY <2>1, <4>1, <4>2
    <3> QED  BY <3>7, <3>8
  <2> QED  BY <2>2, <2>3
<1>15. OpenInv'
  <2> SUFFICES ASSUME NEW a \in Addresses
               PROVE  /\ Cardinality(Holders(a)') <= highest.conns
                      /\ \A t \in Nat : Cardinality(OpenedIn(a, t)') <= highest.rate
    BY <1>1 DEF OpenInv
  <2>1. /\ Cardinality(Holders(a)) <= highest.conns /\ highest.conns \in Nat /\ highest.rate \in Nat
        /\ \A t \in Nat : Cardinality(OpenedIn(a, t)) <= highest.rate
    BY <1>0, <1>2 DEF OpenInv, Allowances
  <2>2. limits.conns <= highest.conns /\ limits.rate <= highest.rate  BY <1>0 DEF HighestInv
  <2>3. CASE a # h
    <3>2. Holders(a)' = Holders(a)  BY <1>7, <2>3
    <3>3. \A d \in Holders(a) : openedAt'[d] = openedAt[d]
      <4>1. Holders(a) \in SUBSET Sockets  BY DEF Holders
      <4> QED  BY <1>3, <1>6, <4>1
    <3>1. \A t \in Nat : OpenedIn(a, t)' = OpenedIn(a, t)  BY <3>2, <3>3 DEF OpenedIn
    <3> QED  BY <2>1, <3>1, <3>2
  <2>4. CASE a = h
    <3>1. Holders(a)' = Holders(a) \cup {c}  BY <1>7, <2>4
    <3>2. Cardinality(Holders(a)') <= highest.conns
      <4>1. Len(kept[h]) < limits.conns  BY DEF Accepts
      <4> QED  BY <1>2, <1>a, <1>b, <2>1, <2>2, <2>4, <3>1, <4>1
    <3>3. ASSUME NEW t \in Nat PROVE Cardinality(OpenedIn(a, t)') <= highest.rate
      <4>a. OpenedIn(a, t)' = {d \in Holders(a) \cup {c} : openedAt'[d] \in t .. t + Second}
        BY <3>1 DEF OpenedIn
      <4>b. Holders(a) \in SUBSET Sockets  BY DEF Holders
      <4>c. \A d \in Holders(a) : openedAt'[d] = openedAt[d] /\ openedAt[d] \in Nat  BY <1>2, <1>3, <1>6, <4>b
      <4>d. openedAt'[c] = now  BY <1>3
      <4>1. CASE now \notin t .. t + Second
        <5>1. OpenedIn(a, t)' = OpenedIn(a, t)  BY <4>1, <4>a, <4>c, <4>d DEF OpenedIn
        <5> QED  BY <2>1, <5>1
      <4>2. CASE now \in t .. t + Second
        <5> DEFINE x == now - Second
                   S == Since(a, x)
        <5>1. Cardinality(S) < limits.rate  BY <2>4, RateFits
        <5>2. OpenedIn(a, t)' \in SUBSET (S \cup {c})
          <6> SUFFICES ASSUME NEW d \in OpenedIn(a, t)' PROVE d \in S \cup {c}
            OBVIOUS
          <6>1. d \in Holders(a) \cup {c} /\ openedAt'[d] \in t .. t + Second  BY <4>a
          <6>2. CASE d \in Holders(a)
            <7>1. openedAt[d] \in Nat /\ openedAt[d] >= t /\ x <= t  BY <1>2, <4>2, <4>c, <6>1, <6>2
            <7>2. openedAt[d] >= x  BY <1>2, <7>1
            <7> QED  BY <6>2, <7>2 DEF Since
          <6> QED  BY <6>1, <6>2
        <5>3. IsFiniteSet(S)
          <6>1. S \in SUBSET Holders(a)  BY DEF Since
          <6> QED  BY <1>a, <6>1, FS_Subset
        <5>4. c \notin S  BY <1>6 DEF Since
        <5> HIDE DEF S, x
        <5>5. IsFiniteSet(S \cup {c}) /\ Cardinality(S \cup {c}) = Cardinality(S) + 1 /\ Cardinality(S) \in Nat
          BY <5>3, <5>4, FS_AddElement, FS_CardinalityType
        <5>6. Cardinality(OpenedIn(a, t)') <= Cardinality(S \cup {c}) /\ Cardinality(OpenedIn(a, t)') \in Nat
          BY <5>2, <5>5, FS_Subset, FS_CardinalityType
        <5> QED  BY <1>2, <2>1, <2>2, <5>1, <5>5, <5>6
      <4> QED  BY <4>1, <4>2
    <3> QED  BY <3>2, <3>3
  <2> QED  BY <2>3, <2>4
<1>16. CreationsInv'
  <2>1. \A a \in Addresses : Of(a)' = Of(a)  BY <1>1 DEF Of
  <2>2. \A a \in Addresses, t \in Nat : CreatedIn(a, t)' = CreatedIn(a, t)  BY <1>1, <2>1 DEF CreatedIn
  <2> QED  BY <1>0, <1>1, <2>1, <2>2 DEF CreationsInv
<1>17. BucketInv'
  <2>1. \A d \in Sockets : at'[d] \in {"new", "counted", "open"} => at[d] \in {"new", "counted", "open"}
    BY <1>1, <1>3
  <2> QED  BY <1>0, <1>1, <2>1 DEF BucketInv, Old
<1> QED
  BY <1>8, <1>9, <1>10, <1>11, <1>12, <1>13, <1>14, <1>15, <1>16, <1>17 DEF LimitsInv

LEMMA NewestOlder ==
    ASSUME now \in Nat, Second \in Nat, now > Second, NEW v \in Seq(Nat), Ordered(v),
           NEW l \in Nat \ {0}, NEW m \in Nat \ {0}, l <= m, Old(Newest(v, l))
    PROVE  Old(Newest(v, m))
<1>1. Len(v) \in Nat /\ \A i \in 1 .. Len(v) : v[i] \in Nat  BY LenProperties, ElementOfSeq
<1>2. CASE m <= Len(v)
  <2> DEFINE i == Len(v) - m + 1
             j == Len(v) - l + 1
  <2>1. i \in 1 .. Len(v) /\ j \in 1 .. Len(v) /\ i <= j /\ m \in 1 .. Len(v) /\ l \in 1 .. Len(v)
    BY <1>1, <1>2
  <2>2. Newest(v, m) = v[i] /\ Newest(v, l) = v[j]  BY <2>1 DEF Newest
  <2> HIDE DEF i, j
  <2>3. v[i] <= v[j] /\ v[i] \in Nat /\ v[j] \in Nat  BY <1>1, <2>1 DEF Ordered
  <2>4. now - v[j] > Second  BY <2>2 DEF Old
  <2>5. now - v[i] > Second  BY <2>3, <2>4
  <2> QED  BY <2>2, <2>5 DEF Old
<1>3. CASE ~(m <= Len(v))
  <2>1. Newest(v, m) = 0  BY <1>1, <1>3 DEF Newest
  <2> QED  BY <2>1 DEF Old
<1> QED  BY <1>2, <1>3

\* What dispatch_event finds at the front of the bucket it fitted is old exactly if the event at
\* the limit is; and what it leaves in the bucket.
LEMMA BucketFront ==
    ASSUME LimitsInv, NEW c \in Sockets, Event(c), NEW l, l = Clamp(limits.msgs), NEW b, b = Fitted(bucket[c], l)
    PROVE  /\ l \in Nat \ {0} /\ Head(b) \in Nat /\ Append(Tail(b), now) \in Seq(Nat)
           /\ now - Head(b) <= Second <=> ~Old(Newest(events[c], l))
           /\ \A j \in Nat \ {0} :
                Newest(Append(Tail(b), now), j) =
                    IF j = 1 THEN now ELSE IF j - 1 < l THEN Newest(bucket[c], j - 1) ELSE 0
<1>0. LimitsTypeOK /\ BucketInv /\ now \in Nat /\ Second \in Nat /\ now > Second
  BY SettingsAllow DEF LimitsInv
<1>1. l \in Nat \ {0} /\ bucket[c] \in Seq(Nat) /\ events[c] \in Seq(Nat)
  BY <1>0, SettingsAllow DEF LimitsTypeOK
<1>2. /\ b \in Seq(Nat) /\ Len(b) = l
      /\ \A j \in Nat \ {0} : Newest(b, j) = IF j <= l THEN Newest(bucket[c], j) ELSE 0
  BY <1>1, NewestFitted
<1>3. b # <<>>  BY <1>1, <1>2
<1>4. Head(b) = Newest(b, l) /\ Head(b) \in Nat
  <2>1. Head(b) = b[1] /\ Head(b) \in Nat  BY <1>2, <1>3, HeadTailProperties
  <2>2. l \in 1 .. Len(b) /\ Len(b) - l + 1 = 1  BY <1>1, <1>2
  <2> QED  BY <2>1, <2>2 DEF Newest
<1>5. Head(b) = Newest(bucket[c], l)  BY <1>1, <1>2, <1>4
<1>6. now - Head(b) <= Second <=> ~Old(Newest(events[c], l))
  <2>1. at[c] = "open"  BY DEF Event
  <2>2. \/ Newest(bucket[c], l) = Newest(events[c], l)
        \/ Old(Newest(bucket[c], l)) /\ Old(Newest(events[c], l))
    BY <1>0, <1>1, <2>1 DEF BucketInv
  <2>3. now - Head(b) <= Second <=> ~Old(Newest(bucket[c], l))
    BY <1>0, <1>4, <1>5 DEF Old
  <2> QED  BY <2>2, <2>3
<1>7. Tail(b) \in Seq(Nat)  BY <1>2, <1>3, HeadTailProperties
<1>8. Append(Tail(b), now) \in Seq(Nat)  BY <1>0, <1>7, TimesAppended
<1>9. ASSUME NEW j \in Nat \ {0}
      PROVE  Newest(Append(Tail(b), now), j) =
                 IF j = 1 THEN now ELSE IF j - 1 < l THEN Newest(bucket[c], j - 1) ELSE 0
  <2>1. Newest(Append(Tail(b), now), j) = IF j = 1 THEN now ELSE Newest(Tail(b), j - 1)
    BY <1>0, <1>7, NewestAppended
  <2>2. CASE j = 1  BY <2>1, <2>2
  <2>3. CASE j # 1
    <3> DEFINE k == j - 1
    <3>1. k \in Nat \ {0}  BY <2>3
    <3> HIDE DEF k
    <3>2. Newest(Tail(b), k) = IF k < Len(b) THEN Newest(b, k) ELSE 0
      BY <1>2, <1>3, <3>1, NewestTail
    <3>3. k < l => Newest(b, k) = Newest(bucket[c], k)  BY <1>1, <1>2, <3>1
    <3>4. Newest(Tail(b), k) = IF k < l THEN Newest(bucket[c], k) ELSE 0  BY <1>2, <3>2, <3>3
    <3> QED  BY <2>1, <2>3, <3>4 DEF k
  <2> QED  BY <2>2, <2>3
<1> QED  BY <1>1, <1>4, <1>6, <1>8, <1>9

LEMMA EventInv ==
    ASSUME LimitsInv, NEW c \in Sockets, Event(c)
    PROVE  LimitsInv'
<1> DEFINE l == Clamp(limits.msgs)
           b == Fitted(bucket[c], l)
           w == Append(Tail(b), now)
<1>0. /\ LimitsTypeOK /\ HighestInv /\ TimesInv /\ ListedInv /\ PlacesInv /\ SuffixInv /\ SinceInv /\ OpenInv
      /\ CreationsInv /\ BucketInv
  BY DEF LimitsInv
<1>1. /\ at[c] = "open" /\ bucket' = [bucket EXCEPT ![c] = w]
      /\ at' = [at EXCEPT ![c] = IF now - Head(b) <= Second THEN "dropped" ELSE @]
      /\ events' = [events EXCEPT ![c] = Append(@, now)]
      /\ UNCHANGED <<now, limits, highest, kept, listed, accepted, openedAt, creations>>
  BY DEF Event, settings
<1>2. /\ bucket \in [Sockets -> Seq(Nat)] /\ events \in [Sockets -> Seq(Nat)] /\ listed \subseteq Sockets
      /\ at \in [Sockets -> {"new", "counted", "open", "dropped", "leaving", "gone"}]
      /\ now \in Nat /\ Second \in Nat /\ now > Second
  BY <1>0, SettingsAllow DEF LimitsTypeOK
<1>3. /\ l \in Nat \ {0} /\ w \in Seq(Nat)
      /\ now - Head(b) <= Second <=> ~Old(Newest(events[c], l))
      /\ \A j \in Nat \ {0} :
            Newest(w, j) = IF j = 1 THEN now ELSE IF j - 1 < l THEN Newest(bucket[c], j - 1) ELSE 0
  BY BucketFront
<1>a. Append(events[c], now) \in Seq(Nat)  BY <1>2, TimesAppended
<1> DEFINE s == IF now - Head(b) <= Second THEN "dropped" ELSE "open"
<1>b. at' = [at EXCEPT ![c] = s] /\ s \in {"dropped", "open"}  BY <1>1, <1>2
<1>c. s = "open" => Old(Newest(events[c], l))  BY <1>3
<1> HIDE DEF b, l, w, s
<1>4. \A d \in Sockets : at'[d] = IF d = c THEN s ELSE at[d]  BY <1>b, <1>2
<1>5. \A d \in Sockets : /\ bucket'[d] = IF d = c THEN w ELSE bucket[d]
                         /\ events'[d] = IF d = c THEN Append(events[d], now) ELSE events[d]
  BY <1>1, <1>2
<1>6. LimitsTypeOK'
  <2>1. bucket' \in [Sockets -> Seq(Nat)]  BY <1>1, <1>2, <1>3
  <2>2. events' \in [Sockets -> Seq(Nat)]  BY <1>1, <1>2, <1>a
  <2>3. at' \in [Sockets -> {"new", "counted", "open", "dropped", "leaving", "gone"}]  BY <1>b, <1>2
  <2> QED  BY <1>0, <1>1, <2>1, <2>2, <2>3 DEF LimitsTypeOK
<1>7. HighestInv'  BY <1>0, <1>1 DEF HighestInv
<1>8. TimesInv'
  <2>1. ASSUME NEW a \in Addresses PROVE UpToNow(accepted[a])' /\ Ordered(accepted[a])'
    BY <1>0, <1>1 DEF TimesInv, UpToNow, Ordered
  <2>2. ASSUME NEW d \in Sockets PROVE UpToNow(events[d])' /\ Ordered(events[d])' /\ openedAt'[d] <= now'
    <3>1. UpToNow(events[d]) /\ Ordered(events[d]) /\ events[d] \in Seq(Nat) /\ openedAt[d] <= now
      BY <1>0, <1>2 DEF TimesInv
    <3>2. UpToNow(events'[d]) /\ Ordered(events'[d])
      <4>1. CASE d = c
        <5>1. UpToNow(Append(events[d], now)) /\ Ordered(Append(events[d], now))  BY <1>2, <3>1, OrderedAppended
        <5> QED  BY <1>5, <4>1, <5>1
      <4>2. CASE d # c  BY <1>5, <3>1, <4>2
      <4> QED  BY <4>1, <4>2
    <3> QED  BY <1>1, <3>1, <3>2 DEF UpToNow, Ordered
  <2>3. \A i \in DOMAIN creations' : creations'[i].time <= now'  BY <1>0, <1>1 DEF TimesInv
  <2> QED  BY <2>1, <2>2, <2>3 DEF TimesInv
<1>9. c \in listed  BY <1>0, <1>1 DEF ListedInv
<1>10. ListedInv'
  <2>1. listed' = listed  BY <1>1
  <2> QED  BY <1>0, <1>2, <1>4, <1>9, <1>b, <2>1 DEF ListedInv
<1>11. \A a \in Addresses : Holders(a)' = Holders(a)
  <2> SUFFICES ASSUME NEW a \in Addresses PROVE Holders(a)' = Holders(a)
    OBVIOUS
  <2>1. ASSUME NEW d \in Sockets PROVE d \in Holders(a)' <=> d \in Holders(a)
    BY <1>1, <1>4, <1>9 DEF Holders
  <2>2. Holders(a)' \subseteq Sockets /\ Holders(a) \subseteq Sockets  BY DEF Holders
  <2> QED  BY <2>1, <2>2
<1>12. PlacesInv' /\ SuffixInv' /\ SinceInv' /\ OpenInv'  BY <1>1, <1>11, HoldersStay
<1>13. CreationsInv'
  <2>1. \A a \in Addresses : Of(a)' = Of(a)  BY <1>1 DEF Of
  <2>2. \A a \in Addresses, t \in Nat : CreatedIn(a, t)' = CreatedIn(a, t)  BY <1>1, <2>1 DEF CreatedIn
  <2> QED  BY <1>0, <1>1, <2>1, <2>2 DEF CreationsInv
<1>14. BucketInv'
  <2> SUFFICES ASSUME NEW d \in Sockets, at'[d] \in {"new", "counted", "open"}, NEW j \in Nat \ {0}
               PROVE  \/ Newest(bucket'[d], j) = Newest(events'[d], j)
                      \/ Old(Newest(bucket'[d], j)) /\ Old(Newest(events'[d], j))
    BY <1>1 DEF BucketInv, Old
  <2>1. CASE d # c
    BY <1>0, <1>4, <1>5, <2>1 DEF BucketInv
  <2>2. CASE d = c
    <3>1. Old(Newest(events[c], l))  BY <1>4, <1>b, <1>c, <2>2
    <3>2. bucket'[d] = w /\ events'[d] = Append(events[c], now)  BY <1>5, <2>2
    <3>3. Newest(Append(events[c], now), j) = IF j = 1 THEN now ELSE Newest(events[c], j - 1)
      BY <1>2, NewestAppended
    <3>4. Newest(w, j) = IF j = 1 THEN now ELSE IF j - 1 < l THEN Newest(bucket[c], j - 1) ELSE 0
      BY <1>3
    <3>5. CASE j = 1  BY <3>2, <3>3, <3>4, <3>5
    <3>6. CASE j # 1
      <4> DEFINE k == j - 1
      <4>1. k \in Nat \ {0}  BY <3>6
      <4> HIDE DEF k
      <4>2. Newest(Append(events[c], now), j) = Newest(events[c], k)  BY <3>3, <3>6 DEF k
      <4>3. Newest(w, j) = IF k < l THEN Newest(bucket[c], k) ELSE 0  BY <3>4, <3>6 DEF k
      <4>4. CASE k < l
        <5>1. \/ Newest(bucket[c], k) = Newest(events[c], k)
              \/ Old(Newest(bucket[c], k)) /\ Old(Newest(events[c], k))
          BY <1>0, <1>1, <4>1 DEF BucketInv
        <5> QED  BY <3>2, <4>2, <4>3, <4>4, <5>1
      <4>5. CASE ~(k < l)
        <5>1. Old(0)  BY <1>2 DEF Old
        <5>2. Ordered(events[c]) /\ events[c] \in Seq(Nat)  BY <1>0, <1>2 DEF TimesInv
        <5>3. l <= k  BY <1>3, <4>1, <4>5
        <5>4. Old(Newest(events[c], k))  BY <1>2, <1>3, <3>1, <4>1, <5>2, <5>3, NewestOlder
        <5> QED  BY <3>2, <4>2, <4>3, <4>5, <5>1, <5>4
      <4> QED  BY <4>4, <4>5
    <3> QED  BY <3>5, <3>6
  <2> QED  BY <2>1, <2>2
<1> QED
  BY <1>6, <1>7, <1>8, <1>10, <1>12, <1>13, <1>14 DEF LimitsInv

LEMMA CreateAccountInv ==
    ASSUME LimitsInv, NEW c \in Sockets, CreateAccount(c)
    PROVE  LimitsInv'
<1> DEFINE h == Home[c]
           R == [address: Addresses, time: Nat]
           e == [address |-> h, time |-> now]
           n == Len(creations)
<1>0. /\ LimitsTypeOK /\ HighestInv /\ TimesInv /\ ListedInv /\ PlacesInv /\ SuffixInv /\ SinceInv /\ OpenInv
      /\ CreationsInv /\ BucketInv
  BY DEF LimitsInv
<1>1. /\ MayCreate(h) /\ creations' = Append(creations, e)
      /\ UNCHANGED <<now, limits, highest, at, kept, listed, bucket, accepted, openedAt, events>>
  BY DEF CreateAccount, conns, settings
<1>2. /\ h \in Addresses /\ now \in Nat /\ Hour \in Nat /\ now >= Hour /\ creations \in Seq(R)
      /\ highest \in Allowances /\ limits.perDay \in Nat /\ limits.perHour \in Nat
  BY <1>0, LimitsAssumption, SettingsAllow DEF LimitsTypeOK
<1>3. e \in R /\ e.address = h /\ e.time = now  BY <1>2
<1>4. /\ creations' \in Seq(R) /\ n \in Nat /\ DOMAIN creations = 1 .. n /\ DOMAIN creations' = 1 .. n + 1
      /\ creations'[n + 1] = e /\ \A i \in 1 .. n : creations'[i] = creations[i]
  <2> HIDE DEF R, e
  <2>1. creations' \in Seq(R) /\ Len(creations') = n + 1  BY <1>1, <1>2, <1>3, AppendProperties
  <2>2. creations'[n + 1] = e /\ \A i \in 1 .. n : creations'[i] = creations[i]
    BY <1>1, <1>2, <1>3, AppendProperties
  <2> QED  BY <1>2, <2>1, <2>2, LenProperties
<1>5. \A i \in 1 .. n : creations[i] \in R  BY <1>2, ElementOfSeq
<1>t. \A i \in 1 .. n : creations[i].time \in Nat  BY <1>5
<1> HIDE DEF e, R, n
<1>6. LimitsTypeOK'  BY <1>0, <1>1, <1>4 DEF LimitsTypeOK, R
<1>7. HighestInv' /\ ListedInv'  BY <1>0, <1>1 DEF HighestInv, ListedInv
<1>8. TimesInv'
  <2>1. \A i \in 1 .. n + 1 : i \in 1 .. n \/ i = n + 1  BY <1>4
  <2>2. \A i \in DOMAIN creations' : creations'[i].time <= now
    BY <1>0, <1>2, <1>3, <1>4, <2>1 DEF TimesInv
  <2> QED  BY <1>0, <1>1, <2>2 DEF TimesInv, UpToNow
<1>9. \A a \in Addresses : Holders(a)' = Holders(a)  BY <1>1 DEF Holders
<1>10. PlacesInv' /\ SuffixInv' /\ SinceInv' /\ OpenInv'  BY <1>1, <1>9, HoldersStay
<1>11. BucketInv'  BY <1>0, <1>1 DEF BucketInv, Old
<1>12. CreationsInv'
  <2> SUFFICES ASSUME NEW a \in Addresses
               PROVE  /\ Cardinality(Of(a)') <= highest.perDay
                      /\ \A t \in Nat : Cardinality(CreatedIn(a, t)') <= highest.perHour
    BY <1>1 DEF CreationsInv
  <2>1. /\ Cardinality(Of(a)) <= highest.perDay /\ highest.perDay \in Nat /\ highest.perHour \in Nat
        /\ \A t \in Nat : Cardinality(CreatedIn(a, t)) <= highest.perHour
    BY <1>0, <1>2 DEF CreationsInv, Allowances
  <2>2. limits.perDay <= highest.perDay /\ limits.perHour <= highest.perHour  BY <1>0 DEF HighestInv
  <2>3. Of(a) \in SUBSET (1 .. n) /\ IsFiniteSet(Of(a)) /\ n + 1 \notin Of(a)
    <3>1. IsFiniteSet(1 .. n)  BY <1>4, FS_Interval
    <3>2. Of(a) \in SUBSET (1 .. n)  BY <1>4 DEF Of
    <3> QED  BY <1>4, <3>1, <3>2, FS_Subset
  <2>4. Of(a)' = IF a = h THEN Of(a) \cup {n + 1} ELSE Of(a)
    <3>1. Of(a)' = {i \in 1 .. n + 1 : creations'[i].address = a}  BY <1>4 DEF Of
    <3>2. Of(a) = {i \in 1 .. n : creations[i].address = a}  BY <1>4 DEF Of
    <3>3. \A i : i \in 1 .. n + 1 <=> i \in 1 .. n \/ i = n + 1  BY <1>4
    <3> QED  BY <1>3, <1>4, <3>1, <3>2, <3>3
  <2>5. CASE a # h
    <3>1. Of(a)' = Of(a)  BY <2>4, <2>5
    <3>2. \A t \in Nat : CreatedIn(a, t)' = CreatedIn(a, t)  BY <1>4, <2>3, <3>1 DEF CreatedIn
    <3> QED  BY <2>1, <3>1, <3>2
  <2>6. CASE a = h
    <3>1. Of(a)' = Of(a) \cup {n + 1}  BY <2>4, <2>6
    <3>2. Cardinality(Of(a)') <= highest.perDay
      <4>1. Cardinality(Of(a)) < limits.perDay  BY <1>1, <2>6 DEF MayCreate
      <4>2. Cardinality(Of(a) \cup {n + 1}) = Cardinality(Of(a)) + 1 /\ Cardinality(Of(a)) \in Nat
        BY <2>3, FS_AddElement, FS_CardinalityType
      <4> QED  BY <1>2, <2>1, <2>2, <3>1, <4>1, <4>2
    <3>3. ASSUME NEW t \in Nat PROVE Cardinality(CreatedIn(a, t)') <= highest.perHour
      <4>1. CreatedIn(a, t)' = {i \in Of(a) \cup {n + 1} : creations'[i].time \in t .. t + Hour}
        BY <3>1 DEF CreatedIn
      <4>2. creations'[n + 1].time = now /\ \A i \in Of(a) : creations'[i].time = creations[i].time
        BY <1>3, <1>4, <2>3
      <4>3. CASE now \notin t .. t + Hour
        <5>1. CreatedIn(a, t)' = CreatedIn(a, t)  BY <4>1, <4>2, <4>3 DEF CreatedIn
        <5> QED  BY <2>1, <5>1
      <4>4. CASE now \in t .. t + Hour
        <5> DEFINE S == LastHour(a)
        <5>1. Cardinality(S) < limits.perHour  BY <1>1, <2>6 DEF MayCreate
        <5>2. CreatedIn(a, t)' \in SUBSET (S \cup {n + 1})
          <6> SUFFICES ASSUME NEW i \in CreatedIn(a, t)' PROVE i \in S \cup {n + 1}
            OBVIOUS
          <6>1. i \in Of(a) \cup {n + 1} /\ creations'[i].time \in t .. t + Hour  BY <4>1
          <6>2. CASE i \in Of(a)
            <7>1. creations[i].time \in Nat /\ creations[i].time \in t .. t + Hour
              BY <1>t, <2>3, <4>2, <6>1, <6>2
            <7>2. creations[i].time >= now - Hour  BY <1>2, <4>4, <7>1
            <7> QED  BY <6>2, <7>2 DEF LastHour
          <6> QED  BY <6>1, <6>2
        <5>3. S \in SUBSET Of(a)  BY DEF LastHour
        <5> HIDE DEF S
        <5>4. IsFiniteSet(S) /\ n + 1 \notin S  BY <2>3, <5>3, FS_Subset
        <5>5. IsFiniteSet(S \cup {n + 1}) /\ Cardinality(S \cup {n + 1}) = Cardinality(S) + 1 /\ Cardinality(S) \in Nat
          BY <5>4, FS_AddElement, FS_CardinalityType
        <5>6. Cardinality(CreatedIn(a, t)') <= Cardinality(S \cup {n + 1}) /\ Cardinality(CreatedIn(a, t)') \in Nat
          BY <5>2, <5>5, FS_Subset, FS_CardinalityType
        <5> QED  BY <1>2, <2>1, <2>2, <5>1, <5>5, <5>6
      <4> QED  BY <4>3, <4>4
    <3> QED  BY <3>2, <3>3
  <2> QED  BY <2>5, <2>6
<1> QED
  BY <1>6, <1>7, <1>8, <1>10, <1>11, <1>12 DEF LimitsInv

LEMMA MaxOfTwo ==
    ASSUME NEW x \in Nat, NEW y \in Nat
    PROVE  Max({x, y}) \in Nat /\ Max({x, y}) >= x /\ Max({x, y}) >= y
<1>1. \E m \in {x, y} : \A z \in {x, y} : m >= z
  <2>1. CASE x >= y  BY <2>1
  <2>2. CASE y >= x  BY <2>2
  <2> QED  BY <2>1, <2>2
<1>2. Max({x, y}) \in {x, y} /\ \A z \in {x, y} : Max({x, y}) >= z  BY <1>1 DEF Max
<1> QED  BY <1>2

LEMMA SetLimitsInv ==
    ASSUME LimitsInv, SetLimits
    PROVE  LimitsInv'
<1>0. /\ LimitsTypeOK /\ HighestInv /\ TimesInv /\ ListedInv /\ PlacesInv /\ SuffixInv /\ SinceInv /\ OpenInv
      /\ CreationsInv /\ BucketInv
  BY DEF LimitsInv
<1>1. PICK s \in Settings : limits' = s /\ highest' = [k \in DOMAIN s |-> Max({highest[k], s[k]})]
  BY DEF SetLimits
<1>2. UNCHANGED <<now, at, kept, listed, bucket, accepted, openedAt, events, creations>>
  BY DEF SetLimits, conns
<1>3. /\ s \in [conns: Nat, rate: Nat \ {0}, msgs: Nat, perDay: Nat, perHour: Nat] /\ highest \in Allowances
      /\ DOMAIN s = {"conns", "rate", "msgs", "perDay", "perHour"}
  BY <1>0, LimitsAssumption DEF LimitsTypeOK
<1>4. \A k \in {"conns", "rate", "msgs", "perDay", "perHour"} :
        highest'[k] \in Nat /\ highest'[k] >= highest[k] /\ highest'[k] >= s[k]
  <2> SUFFICES ASSUME NEW k \in {"conns", "rate", "msgs", "perDay", "perHour"}
               PROVE  highest'[k] \in Nat /\ highest'[k] >= highest[k] /\ highest'[k] >= s[k]
    OBVIOUS
  <2>1. highest[k] \in Nat /\ s[k] \in Nat  BY <1>3 DEF Allowances
  <2>2. highest'[k] = Max({highest[k], s[k]})  BY <1>1, <1>3
  <2> QED  BY <2>1, <2>2, MaxOfTwo
<1>5. highest' \in Allowances
  <2>1. highest' = [k \in {"conns", "rate", "msgs", "perDay", "perHour"} |-> highest'[k]]  BY <1>1, <1>3
  <2> QED  BY <1>4, <2>1 DEF Allowances
<1>6. LimitsTypeOK'  BY <1>0, <1>1, <1>2, <1>5 DEF LimitsTypeOK
<1>7. HighestInv'  BY <1>1, <1>4 DEF HighestInv
<1>8. TimesInv' /\ ListedInv'  BY <1>0, <1>2 DEF TimesInv, UpToNow, ListedInv
<1>9. \A a \in Addresses : /\ Holders(a)' = Holders(a) /\ Of(a)' = Of(a)
                           /\ \A x \in Nat : /\ Since(a, x)' = Since(a, x) /\ AcceptedSince(a, x)' = AcceptedSince(a, x)
                                             /\ OpenedIn(a, x)' = OpenedIn(a, x) /\ CreatedIn(a, x)' = CreatedIn(a, x)
  BY <1>2 DEF Holders, Of, Since, AcceptedSince, OpenedIn, CreatedIn
<1>10. PlacesInv'  BY <1>0, <1>2, <1>9 DEF PlacesInv
<1>11. SuffixInv'  BY <1>0, <1>2 DEF SuffixInv
<1>12. SinceInv'  BY <1>0, <1>9 DEF SinceInv
<1>a. /\ highest.conns <= highest'.conns /\ highest.rate <= highest'.rate
      /\ highest.perDay <= highest'.perDay /\ highest.perHour <= highest'.perHour
      /\ highest.conns \in Nat /\ highest.rate \in Nat /\ highest.perDay \in Nat /\ highest.perHour \in Nat
      /\ highest'.conns \in Nat /\ highest'.rate \in Nat /\ highest'.perDay \in Nat /\ highest'.perHour \in Nat
  BY <1>3, <1>4, <1>5 DEF Allowances
<1>b. \A a \in Addresses : IsFiniteSet(Holders(a)) /\ IsFiniteSet(Of(a))
  <2> SUFFICES ASSUME NEW a \in Addresses PROVE IsFiniteSet(Holders(a)) /\ IsFiniteSet(Of(a))
    OBVIOUS
  <2>1. IsFiniteSet(Holders(a))  BY <1>0 DEF PlacesInv
  <2>2. Of(a) \in SUBSET (1 .. Len(creations)) /\ Len(creations) \in Nat
    BY <1>0, LenProperties DEF LimitsTypeOK, Of
  <2>3. IsFiniteSet(1 .. Len(creations))  BY <2>2, FS_Interval
  <2> QED  BY <2>1, <2>2, <2>3, FS_Subset
<1>c. \A a \in Addresses : /\ Cardinality(Holders(a)) \in Nat /\ Cardinality(Of(a)) \in Nat
                           /\ \A t \in Nat : Cardinality(OpenedIn(a, t)) \in Nat /\ Cardinality(CreatedIn(a, t)) \in Nat
  <2> SUFFICES ASSUME NEW a \in Addresses, NEW t \in Nat
               PROVE  /\ Cardinality(Holders(a)) \in Nat /\ Cardinality(Of(a)) \in Nat
                      /\ Cardinality(OpenedIn(a, t)) \in Nat /\ Cardinality(CreatedIn(a, t)) \in Nat
    BY <1>3
  <2>1. OpenedIn(a, t) \in SUBSET Holders(a) /\ CreatedIn(a, t) \in SUBSET Of(a)  BY DEF OpenedIn, CreatedIn
  <2> QED  BY <1>b, <2>1, FS_Subset, FS_CardinalityType
<1>13. OpenInv'
  <2> SUFFICES ASSUME NEW a \in Addresses, NEW t \in Nat
               PROVE  Cardinality(Holders(a)') <= highest'.conns /\ Cardinality(OpenedIn(a, t)') <= highest'.rate
    BY DEF OpenInv
  <2>1. Cardinality(Holders(a)) <= highest.conns /\ Cardinality(OpenedIn(a, t)) <= highest.rate
    BY <1>0 DEF OpenInv
  <2> QED  BY <1>9, <1>a, <1>c, <2>1
<1>14. CreationsInv'
  <2> SUFFICES ASSUME NEW a \in Addresses, NEW t \in Nat
               PROVE  Cardinality(Of(a)') <= highest'.perDay /\ Cardinality(CreatedIn(a, t)') <= highest'.perHour
    BY DEF CreationsInv
  <2>1. Cardinality(Of(a)) <= highest.perDay /\ Cardinality(CreatedIn(a, t)) <= highest.perHour
    BY <1>0 DEF CreationsInv
  <2> QED  BY <1>9, <1>a, <1>c, <2>1
<1>15. BucketInv'  BY <1>0, <1>2 DEF BucketInv, Old
<1> QED
  BY <1>6, <1>7, <1>8, <1>10, <1>11, <1>12, <1>13, <1>14, <1>15 DEF LimitsInv

\* What is old stays old.
LEMMA TickInv ==
    ASSUME LimitsInv, Tick
    PROVE  LimitsInv'
<1>0. /\ LimitsTypeOK /\ HighestInv /\ TimesInv /\ ListedInv /\ BucketInv /\ CreationsInv
  BY DEF LimitsInv
<1>1. /\ now' = now + 1 /\ now \in Nat /\ Second \in Nat
      /\ UNCHANGED <<limits, highest, at, kept, listed, bucket, accepted, openedAt, events, creations>>
  BY <1>0, SettingsAllow DEF Tick, settings, conns
<1>2. LimitsTypeOK'
  <2>1. now' \in Nat /\ now' >= Start
    <3>1. now >= Start  BY <1>0 DEF LimitsTypeOK
    <3>2. Start \in Nat  BY LimitsAssumption DEF Start
    <3> QED  BY <1>1, <3>1, <3>2
  <2> QED  BY <1>0, <1>1, <2>1 DEF LimitsTypeOK
<1>3. HighestInv' /\ ListedInv'  BY <1>0, <1>1 DEF HighestInv, ListedInv
<1>4. TimesInv'
  <2>1. ASSUME NEW v \in Seq(Nat), UpToNow(v) PROVE \A i \in 1 .. Len(v) : v[i] <= now'
    <3>1. \A i \in 1 .. Len(v) : v[i] \in Nat  BY ElementOfSeq
    <3> QED  BY <1>1, <2>1, <3>1 DEF UpToNow
  <2>2. ASSUME NEW a \in Addresses PROVE UpToNow(accepted[a])' /\ Ordered(accepted[a])'
    <3>1. UpToNow(accepted[a]) /\ Ordered(accepted[a]) /\ accepted[a] \in Seq(Nat)
      BY <1>0 DEF TimesInv, LimitsTypeOK
    <3> QED  BY <1>1, <2>1, <3>1 DEF UpToNow, Ordered
  <2>3. ASSUME NEW d \in Sockets PROVE UpToNow(events[d])' /\ Ordered(events[d])' /\ openedAt'[d] <= now'
    <3>1. UpToNow(events[d]) /\ Ordered(events[d]) /\ events[d] \in Seq(Nat) /\ openedAt[d] <= now /\ openedAt[d] \in Nat
      BY <1>0 DEF TimesInv, LimitsTypeOK
    <3>2. openedAt[d] <= now'  BY <1>1, <3>1
    <3> QED  BY <1>1, <2>1, <3>1, <3>2 DEF UpToNow, Ordered
  <2>4. \A i \in DOMAIN creations' : creations'[i].time <= now'
    <3> SUFFICES ASSUME NEW i \in DOMAIN creations PROVE creations[i].time <= now'
      BY <1>1
    <3>1. creations \in Seq([address: Addresses, time: Nat])  BY <1>0 DEF LimitsTypeOK
    <3>2. creations[i] \in [address: Addresses, time: Nat]  BY <3>1, LenProperties, ElementOfSeq
    <3>3. creations[i].time \in Nat /\ creations[i].time <= now  BY <1>0, <3>2 DEF TimesInv
    <3> QED  BY <1>1, <3>3
  <2> QED  BY <2>2, <2>3, <2>4 DEF TimesInv
<1>5. \A a \in Addresses : Holders(a)' = Holders(a)  BY <1>1 DEF Holders
<1>6. PlacesInv' /\ SuffixInv' /\ SinceInv' /\ OpenInv'  BY <1>1, <1>5, HoldersStay
<1>7. CreationsInv'
  <2>1. \A a \in Addresses : Of(a)' = Of(a)  BY <1>1 DEF Of
  <2>2. \A a \in Addresses, t \in Nat : CreatedIn(a, t)' = CreatedIn(a, t)  BY <1>1, <2>1 DEF CreatedIn
  <2> QED  BY <1>0, <1>1, <2>1, <2>2 DEF CreationsInv
<1>8. BucketInv'
  <2> SUFFICES ASSUME NEW c \in Sockets, at[c] \in {"new", "counted", "open"}, NEW j \in Nat \ {0}
               PROVE  \/ Newest(bucket[c], j) = Newest(events[c], j)
                      \/ now' - Newest(bucket[c], j) > Second /\ now' - Newest(events[c], j) > Second
    BY <1>1 DEF BucketInv, Old
  <2>1. Newest(bucket[c], j) \in Nat /\ Newest(events[c], j) \in Nat
    <3>1. ASSUME NEW v \in Seq(Nat) PROVE Newest(v, j) \in Nat
      <4>1. Len(v) \in Nat /\ \A i \in 1 .. Len(v) : v[i] \in Nat  BY LenProperties, ElementOfSeq
      <4>2. j \in 1 .. Len(v) => Len(v) - j + 1 \in 1 .. Len(v)  BY <4>1
      <4> QED  BY <4>1, <4>2 DEF Newest
    <3> QED  BY <1>0, <3>1 DEF LimitsTypeOK
  <2>2. \/ Newest(bucket[c], j) = Newest(events[c], j)
        \/ now - Newest(bucket[c], j) > Second /\ now - Newest(events[c], j) > Second
    BY <1>0 DEF BucketInv, Old
  <2> QED  BY <1>1, <2>1, <2>2
<1> QED  BY <1>2, <1>3, <1>4, <1>6, <1>7, <1>8 DEF LimitsInv

LEMMA LimitsUnchanged ==
    ASSUME LimitsInv, UNCHANGED limitsVars
    PROVE  LimitsInv'
<1>1. UNCHANGED <<now, limits, highest, at, kept, listed, bucket, accepted, openedAt, events, creations>>
  BY DEF limitsVars, settings, conns
<1>2. /\ LimitsTypeOK /\ HighestInv /\ TimesInv /\ ListedInv /\ CreationsInv /\ BucketInv
  BY DEF LimitsInv
<1>3. LimitsTypeOK' /\ HighestInv' /\ TimesInv' /\ ListedInv'
  BY <1>1, <1>2 DEF LimitsTypeOK, HighestInv, TimesInv, UpToNow, Ordered, ListedInv
<1>4. \A a \in Addresses : Holders(a)' = Holders(a)  BY <1>1 DEF Holders
<1>5. PlacesInv' /\ SuffixInv' /\ SinceInv' /\ OpenInv'  BY <1>1, <1>4, HoldersStay
<1>6. CreationsInv'
  <2>1. \A a \in Addresses : Of(a)' = Of(a)  BY <1>1 DEF Of
  <2>2. \A a \in Addresses, t \in Nat : CreatedIn(a, t)' = CreatedIn(a, t)  BY <1>1, <2>1 DEF CreatedIn
  <2> QED  BY <1>1, <1>2, <2>1, <2>2 DEF CreationsInv
<1>7. BucketInv'  BY <1>1, <1>2 DEF BucketInv, Old
<1> QED  BY <1>3, <1>5, <1>6, <1>7 DEF LimitsInv

LEMMA LimitsStarts ==
    ASSUME LimitsInit
    PROVE  LimitsInv
<1> DEFINE z == <<>>
<1>1. /\ now = Start /\ limits \in Settings /\ highest = limits
      /\ at = [c \in Sockets |-> "new"] /\ kept = [a \in Addresses |-> z] /\ listed = {} /\ creations = z
      /\ bucket = [c \in Sockets |-> [i \in 1 .. limits.msgs |-> 0]]
      /\ accepted = [a \in Addresses |-> z] /\ openedAt = [c \in Sockets |-> 0] /\ events = [c \in Sockets |-> z]
  BY DEF LimitsInit
<1>2. z \in Seq(Nat) /\ z \in Seq([address: Addresses, time: Nat]) /\ Len(z) = 0 /\ DOMAIN z = {} /\ IsSuffix(z, z)
  <2>1. z \in Seq(Nat) /\ z \in Seq([address: Addresses, time: Nat]) /\ Len(z) = 0 /\ DOMAIN z = {}  OBVIOUS
  <2>2. IsSuffix(z, z)
    <3> HIDE DEF z
    <3>1. \A i \in 1 .. Len(z) : z[i] = z[Len(z) - Len(z) + i]
      <4>1. 1 .. 0 = {}  OBVIOUS
      <4> QED  BY <2>1, <4>1
    <3>2. Len(z) <= Len(z)  BY <2>1
    <3> QED  BY <2>1, <3>1, <3>2, SuffixIs
  <2> QED  BY <2>1, <2>2
<1> HIDE DEF z
<1>3. /\ limits \in [conns: Nat, rate: Nat \ {0}, msgs: Nat, perDay: Nat, perHour: Nat]
      /\ Second \in Nat /\ Hour \in Nat /\ Start \in Nat /\ Start > Second
  <2>1. Second \in Nat /\ Hour \in Nat  BY LimitsAssumption
  <2>2. limits \in [conns: Nat, rate: Nat \ {0}, msgs: Nat, perDay: Nat, perHour: Nat]  BY <1>1, LimitsAssumption
  <2>3. Start \in Nat /\ Start > Second  BY <2>1 DEF Start
  <2> QED  BY <2>1, <2>2, <2>3
<1>4. limits.conns \in Nat /\ limits.rate \in Nat /\ limits.msgs \in Nat /\ limits.perDay \in Nat /\ limits.perHour \in Nat
  BY <1>3
<1>5. ASSUME NEW c \in Sockets
      PROVE  bucket[c] \in Seq(Nat) /\ \A j \in Nat : Newest(bucket[c], j) = 0 /\ Newest(events[c], j) = 0
  <2>1. bucket[c] = [i \in 1 .. limits.msgs |-> 0]  BY <1>1
  <2>2. bucket[c] \in Seq(Nat) /\ Len(bucket[c]) = limits.msgs  BY <1>4, <2>1
  <2>3. ASSUME NEW j \in Nat PROVE Newest(bucket[c], j) = 0
    <3>1. CASE j \in 1 .. Len(bucket[c])
      <4>1. Len(bucket[c]) - j + 1 \in 1 .. limits.msgs  BY <1>4, <2>2, <3>1
      <4> QED  BY <2>1, <3>1, <4>1 DEF Newest
    <3> QED  BY <3>1 DEF Newest
  <2>4. ASSUME NEW j \in Nat PROVE Newest(events[c], j) = 0
    <3>1. j \notin 1 .. Len(events[c])  BY <1>1, <1>2
    <3> QED  BY <3>1 DEF Newest
  <2> QED  BY <2>2, <2>3, <2>4
<1>6. LimitsTypeOK
  <2>1. highest \in Allowances  BY <1>1, <1>3, <1>4 DEF Allowances
  <2>2. bucket \in [Sockets -> Seq(Nat)]
    <3>1. bucket = [c \in Sockets |-> bucket[c]]  BY <1>1
    <3>2. \A c \in Sockets : bucket[c] \in Seq(Nat)  BY <1>5
    <3> HIDE DEF z
    <3> QED  BY <3>1, <3>2
  <2>3. now \in Nat /\ now >= Start  BY <1>1, <1>3
  <2> QED  BY <1>1, <1>2, <2>1, <2>2, <2>3 DEF LimitsTypeOK
<1>7. HighestInv  BY <1>1, <1>4 DEF HighestInv
<1>8. TimesInv
  <2>1. 1 .. 0 = {}  OBVIOUS
  <2>2. UpToNow(z) /\ Ordered(z)  BY <1>2, <2>1 DEF UpToNow, Ordered
  <2>3. \A c \in Sockets : openedAt[c] <= now  BY <1>1, <1>3
  <2>4. \A i \in DOMAIN creations : creations[i].time <= now  BY <1>1, <1>2
  <2> QED  BY <1>1, <2>2, <2>3, <2>4 DEF TimesInv
<1>9. ListedInv  BY <1>1 DEF ListedInv
<1>10. IsFiniteSet({}) /\ Cardinality({}) = 0  BY FS_EmptySet
<1>11. \A a \in Addresses : Holders(a) = {}  BY <1>1 DEF Holders
<1>12. \A a \in Addresses : Of(a) = {} /\ \A x \in Nat : Since(a, x) = {} /\ AcceptedSince(a, x) = {}
                            /\ OpenedIn(a, x) = {} /\ CreatedIn(a, x) = {}
  BY <1>1, <1>2, <1>11 DEF Of, Since, AcceptedSince, OpenedIn, CreatedIn
<1>13. PlacesInv  BY <1>1, <1>2, <1>10, <1>11 DEF PlacesInv
<1>14. SuffixInv  BY <1>1, <1>2 DEF SuffixInv
<1>15. SinceInv  BY <1>10, <1>12 DEF SinceInv
<1>a. /\ 0 <= highest.conns /\ 0 <= highest.rate /\ 0 <= highest.perDay /\ 0 <= highest.perHour
  BY <1>1, <1>4
<1>b. \A a \in Addresses : /\ Cardinality(Holders(a)) = 0 /\ Cardinality(Of(a)) = 0
                           /\ \A t \in Nat : Cardinality(OpenedIn(a, t)) = 0 /\ Cardinality(CreatedIn(a, t)) = 0
  BY <1>10, <1>11, <1>12
<1>16. OpenInv  BY <1>a, <1>b DEF OpenInv
<1>17. CreationsInv  BY <1>a, <1>b DEF CreationsInv
<1>18. BucketInv  BY <1>5 DEF BucketInv
<1> QED
  BY <1>6, <1>7, <1>8, <1>9, <1>13, <1>14, <1>15, <1>16, <1>17, <1>18 DEF LimitsInv

LEMMA LimitsStep ==
    ASSUME LimitsInv, [LimitsNext]_limitsVars
    PROVE  LimitsInv'
<1>1. ASSUME NEW c \in Sockets, Connection(c) PROVE LimitsInv'
  BY <1>1, AdmitsInv, RefusesInv, ListsInv, ReleaseInv, EventInv, CreateAccountInv DEF Connection
<1> QED  BY <1>1, TickInv, SetLimitsInv, LimitsUnchanged DEF LimitsNext

\* Limits: the inductive invariant. Beyond the types, an address's times kept are its latest, as many as it
\* has places; of who holds one, no more came since a time than were accepted since it (what lets the rate, which
\* the code measures on the times kept, bound who is there); and from the newest on, a bucket has the
\* connection's own events or times too old to count.
THEOREM LimitsInvariant == LimitsSpec => []LimitsInv
<1> QED  BY LimitsStarts, LimitsStep, PTL DEF LimitsSpec

\* The variables of Limits keep their types, and the clock is past its start.
THEOREM LimitsTypeCorrect == LimitsSpec => []LimitsTypeOK
<1>1. LimitsInv => LimitsTypeOK  BY DEF LimitsInv
<1> QED  BY <1>1, LimitsInvariant, PTL

\* register_ip_connection and release_ip_connection: an address has as many times as places, and they
\* are its latest.
THEOREM KeptAreLatestCorrect == LimitsSpec => []KeptAreLatest
<1>1. LimitsInv => KeptAreLatest  BY DEF LimitsInv, PlacesInv, SuffixInv, KeptAreLatest
<1> QED  BY <1>1, LimitsInvariant, PTL

\* Connections, their rate and accounts stay within the most the settings allowed, whenever they change.
THEOREM WithinLimitsCorrect == LimitsSpec => []WithinLimits
<1>1. ASSUME LimitsInv PROVE WithinLimits
  <2>1. OpenInv /\ CreationsInv  BY <1>1 DEF LimitsInv
  <2>2. \A t \in Start .. now : t \in Nat
    <3>1. Start \in Nat  BY LimitsAssumption DEF Start
    <3> QED  BY <3>1
  <2>3. OpenWithinLimits  BY <2>1, <2>2 DEF OpenWithinLimits, OpenInv, OpenedIn
  <2>4. CreationsBounded  BY <2>1, <2>2 DEF CreationsBounded, CreationsInv, CreatedIn
  <2> QED  BY <2>3, <2>4 DEF WithinLimits
<1> QED  BY <1>1, LimitsInvariant, PTL

\* dispatch_event drops a client exactly for an event beyond the limit within a second, whatever
\* resizing its bucket went through.
THEOREM DroppedExactlyCorrect == LimitsSpec => DroppedExactly
<1>1. ASSUME LimitsInv, [LimitsNext]_limitsVars, NEW c \in Sockets, Len(events'[c]) > Len(events[c])
      PROVE  at'[c] = "dropped" <=> Flood(c)
  <2>0. LimitsTypeOK /\ TimesInv /\ BucketInv /\ now \in Nat /\ Second \in Nat /\ now > Second
    BY <1>1, SettingsAllow DEF LimitsInv
  <2>1. events \in [Sockets -> Seq(Nat)] /\ events[c] \in Seq(Nat) /\ Len(events[c]) \in Nat
        /\ at \in [Sockets -> {"new", "counted", "open", "dropped", "leaving", "gone"}]
    BY <2>0, LenProperties DEF LimitsTypeOK
  <2>2. events' # events  BY <1>1, <2>1
  <2>3. PICK d \in Sockets : Event(d)
    BY <1>1, <2>2 DEF LimitsNext, limitsVars, conns, Tick, SetLimits, Connection, Register, Lists, Leaves, Unlists,
       Release, CreateAccount
  <2>4. d = c
    <3>1. events' = [events EXCEPT ![d] = Append(@, now)]  BY <2>3 DEF Event
    <3>2. d # c => events'[c] = events[c]  BY <2>1, <3>1
    <3> QED  BY <1>1, <2>1, <3>2
  <2> DEFINE l == Clamp(limits.msgs)
             b == Fitted(bucket[c], l)
             x == now - Second
             S == {i \in DOMAIN events[c] : now - events[c][i] <= Second}
  <2>5. l \in Nat \ {0} /\ Head(b) \in Nat /\ (now - Head(b) <= Second <=> ~Old(Newest(events[c], l)))
    BY <1>1, <2>3, <2>4, BucketFront
  <2>6. at[c] = "open" /\ at' = [at EXCEPT ![c] = IF now - Head(b) <= Second THEN "dropped" ELSE @]
    BY <2>3, <2>4 DEF Event
  <2>7. at'[c] = "dropped" <=> ~Old(Newest(events[c], l))
    BY <2>1, <2>5, <2>6
  <2>8. Ordered(events[c])  BY <2>0 DEF TimesInv
  <2>9. x \in Nat  BY <2>0
  <2>10. /\ S \in SUBSET (1 .. Len(events[c]))
         /\ \A i \in 1 .. Len(events[c]) : i \in S <=> events[c][i] >= x
    <3>1. \A i \in 1 .. Len(events[c]) : events[c][i] \in Nat  BY <2>1, ElementOfSeq
    <3>2. DOMAIN events[c] = 1 .. Len(events[c])  BY <2>1, LenProperties
    <3> QED  BY <2>0, <3>1, <3>2
  <2>11. Newest(events[c], l) \in Nat /\ (Newest(events[c], l) >= x => l <= Len(events[c]))
    <3> HIDE DEF l
    <3>1. \A i \in 1 .. Len(events[c]) : events[c][i] \in Nat  BY <2>1, ElementOfSeq
    <3>2. CASE l <= Len(events[c])
      <4>1. l \in 1 .. Len(events[c]) /\ Len(events[c]) - l + 1 \in 1 .. Len(events[c])  BY <2>1, <2>5, <3>2
      <4> QED  BY <3>1, <3>2, <4>1 DEF Newest
    <3>3. CASE ~(l <= Len(events[c]))
      <4>1. Newest(events[c], l) = 0  BY <2>1, <2>5, <3>3 DEF Newest
      <4> QED  BY <2>0, <4>1
    <3> QED  BY <3>2, <3>3
  <2>12. Old(Newest(events[c], l)) <=> ~(Newest(events[c], l) >= x)
    BY <2>0, <2>11 DEF Old
  <2>13. Flood(c) <=> Cardinality(S) >= l  BY DEF Flood
  <2> HIDE DEF S, x, l, b
  <2>14. Cardinality(S) >= l <=> l <= Len(events[c]) /\ Newest(events[c], l) >= x
    BY <2>1, <2>5, <2>8, <2>9, <2>10, CountSince
  <2> QED  BY <2>7, <2>11, <2>12, <2>13, <2>14
<1>2. LimitsInv /\ [LimitsNext]_limitsVars =>
        [\A c \in Sockets : Len(events'[c]) > Len(events[c]) => (at'[c] = "dropped" <=> Flood(c))]_limitsVars
  BY <1>1
<1> QED  BY <1>2, LimitsInvariant, PTL DEF LimitsSpec, DroppedExactly

=============================================================================
