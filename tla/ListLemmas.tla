----------------------------- MODULE ListLemmas -----------------------------
(***************************************************************************)
(* What the operations of a linked list do to the elements of the sequence *)
(* that models it: unlink a cell, append at the tail, push at the head,    *)
(* pop the head.  And induction: over the naturals, and with it over the   *)
(* length of the sequences that FlattenSeq takes apart.                    *)
(***************************************************************************)
EXTENDS Naturals, Integers, Sequences, SequencesExt, SequenceTheorems,
        WellFoundedInduction, TLAPS

(* A pushed element is the first of the new list, and the only new one. *)
LEMMA PushProperties ==
    ASSUME NEW S, NEW s \in Seq(S), NEW e \in S
    PROVE  /\ <<e>> \o s \in Seq(S)
           /\ ToSet(<<e>> \o s) = ToSet(s) \cup {e}
           /\ IsInjective(s) /\ e \notin ToSet(s) => IsInjective(<<e>> \o s)
<1> DEFINE t == <<e>> \o s
<1>1. /\ t \in Seq(S)
      /\ DOMAIN t = 1 .. Len(s) + 1
      /\ t[1] = e
      /\ \A i \in 2 .. Len(s) + 1 : t[i] = s[i - 1]
    OBVIOUS
<1>2. DOMAIN s = 1 .. Len(s) /\ Len(s) \in Nat
    OBVIOUS
<1>3. ASSUME NEW x \in ToSet(t)
      PROVE  x \in ToSet(s) \cup {e}
    BY <1>1, <1>2 DEF ToSet
<1>4. ASSUME NEW x \in ToSet(s)
      PROVE  x \in ToSet(t)
    <2>1. PICK i \in 1 .. Len(s) : x = s[i]
        BY <1>2 DEF ToSet
    <2>2. i + 1 \in DOMAIN t /\ t[i + 1] = x
        BY <1>1, <1>2, <2>1
    <2> QED
        BY <2>2 DEF ToSet
<1>5. e \in ToSet(t)
    BY <1>1, <1>2 DEF ToSet
<1>6. ToSet(t) = ToSet(s) \cup {e}
    BY <1>3, <1>4, <1>5
<1>7. ASSUME IsInjective(s), e \notin ToSet(s)
      PROVE  IsInjective(t)
    <2>1. \A i \in 1 .. Len(s) : s[i] # e
        BY <1>2, <1>7 DEF ToSet
    <2>2. ASSUME NEW i \in DOMAIN t, NEW j \in DOMAIN t, t[i] = t[j]
          PROVE  i = j
        <3>1. CASE i = 1 \/ j = 1
            BY <1>1, <1>2, <2>1, <2>2, <3>1
        <3>2. CASE i # 1 /\ j # 1
            <4>1. s[i - 1] = s[j - 1] /\ i - 1 \in DOMAIN s /\ j - 1 \in DOMAIN s
                BY <1>1, <1>2, <2>2, <3>2
            <4>2. i - 1 = j - 1
                BY <1>7, <4>1 DEF IsInjective
            <4> QED
                BY <4>2, <1>1, <1>2
        <3> QED
            BY <3>1, <3>2
    <2> QED
        BY <2>2 DEF IsInjective
<1> QED
    BY <1>1, <1>6, <1>7

(* An appended element is the last of the new list, and the only new one. *)
LEMMA AppendedProperties ==
    ASSUME NEW S, NEW s \in Seq(S), NEW e \in S
    PROVE  /\ Append(s, e) \in Seq(S)
           /\ ToSet(Append(s, e)) = ToSet(s) \cup {e}
           /\ IsInjective(s) /\ e \notin ToSet(s) => IsInjective(Append(s, e))
<1> DEFINE t == Append(s, e)
<1>1. /\ t \in Seq(S)
      /\ DOMAIN t = 1 .. Len(s) + 1
      /\ t[Len(s) + 1] = e
      /\ \A i \in 1 .. Len(s) : t[i] = s[i]
    OBVIOUS
<1>2. DOMAIN s = 1 .. Len(s) /\ Len(s) \in Nat
    OBVIOUS
<1>3. ToSet(t) = ToSet(s) \cup {e}
    BY <1>1, <1>2 DEF ToSet
<1>4. ASSUME IsInjective(s), e \notin ToSet(s)
      PROVE  IsInjective(t)
    BY <1>1, <1>2, <1>4 DEF IsInjective, ToSet
<1> QED
    BY <1>1, <1>3, <1>4

(* Popping the head leaves the other elements. *)
LEMMA PopProperties ==
    ASSUME NEW S, NEW s \in Seq(S), s # <<>>
    PROVE  /\ Head(s) \in S
           /\ Tail(s) \in Seq(S)
           /\ ToSet(s) = ToSet(Tail(s)) \cup {Head(s)}
           /\ IsInjective(s) => IsInjective(Tail(s)) /\ Head(s) \notin ToSet(Tail(s))
<1>1. /\ Tail(s) \in Seq(S)
      /\ Head(s) \in S
      /\ Head(s) = s[1]
      /\ DOMAIN s = 1 .. Len(s) /\ Len(s) \in Nat \ {0}
      /\ DOMAIN Tail(s) = 1 .. Len(s) - 1
      /\ \A i \in 1 .. Len(s) - 1 : Tail(s)[i] = s[i + 1]
    OBVIOUS
<1>2. ASSUME NEW x \in ToSet(s)
      PROVE  x \in ToSet(Tail(s)) \cup {Head(s)}
    <2>1. PICK i \in 1 .. Len(s) : x = s[i]
        BY <1>1 DEF ToSet
    <2>2. CASE i = 1
        BY <1>1, <2>1, <2>2
    <2>3. CASE i # 1
        <3>1. i - 1 \in DOMAIN Tail(s) /\ Tail(s)[i - 1] = x
            BY <1>1, <2>1, <2>3
        <3> QED
            BY <3>1 DEF ToSet
    <2> QED
        BY <2>2, <2>3
<1>3. ASSUME NEW x \in ToSet(Tail(s)) \cup {Head(s)}
      PROVE  x \in ToSet(s)
    BY <1>1 DEF ToSet
<1>4. ASSUME IsInjective(s)
      PROVE  IsInjective(Tail(s)) /\ Head(s) \notin ToSet(Tail(s))
    BY <1>1, <1>4 DEF IsInjective, ToSet
<1> QED
    BY <1>1, <1>2, <1>3, <1>4

(* Only the empty list has no elements. *)
LEMMA NoElements ==
    ASSUME NEW S, NEW s \in Seq(S), ToSet(s) = {}
    PROVE  s = <<>>
<1>1. DOMAIN s = 1 .. Len(s) /\ Len(s) \in Nat
    OBVIOUS
<1>2. 1 \notin DOMAIN s
    BY DEF ToSet
<1>3. Len(s) = 0
    BY <1>1, <1>2
<1> QED
    BY <1>3, EmptySeq

(* The list has one cell if nothing is behind its head. *)
LEMMA LastOne ==
    ASSUME NEW S, NEW s \in Seq(S), s # <<>>
    PROVE  Len(s) = 1 <=> Tail(s) = <<>>
<1>1. Len(s) \in Nat /\ Tail(s) \in Seq(S) /\ Len(Tail(s)) = Len(s) - 1
    OBVIOUS
<1>2. Len(Tail(s)) = 0 <=> Tail(s) = <<>>
    BY <1>1, EmptySeq
<1> QED
    BY <1>1, <1>2

(* Unlinking the cell at position i leaves the others in their order. *)
LEMMA RemoveAtProperties ==
    ASSUME NEW S, NEW s \in Seq(S), NEW i \in 1 .. Len(s)
    PROVE  /\ RemoveAt(s, i) \in Seq(S)
           /\ Len(RemoveAt(s, i)) = Len(s) - 1
           /\ \A k \in 1 .. Len(s) - 1 :
                RemoveAt(s, i)[k] = IF k < i THEN s[k] ELSE s[k + 1]
<1> DEFINE a == SubSeq(s, 1, i - 1)
           b == SubSeq(s, i + 1, Len(s))
<1>1. Len(s) \in Nat /\ \A k \in 1 .. Len(s) : s[k] \in S
    OBVIOUS
<1>2. /\ a \in Seq(S)
      /\ Len(a) = i - 1
      /\ \A k \in 1 .. i - 1 : a[k] = s[k]
    BY <1>1, SubSeqProperties
<1>3. /\ b \in Seq(S)
      /\ Len(b) = Len(s) - i
      /\ \A k \in 1 .. Len(s) - i : b[k] = s[k + i]
    BY <1>1, SubSeqProperties
<1> HIDE DEF a, b
<1>4. /\ a \o b \in Seq(S)
      /\ Len(a \o b) = Len(s) - 1
      /\ \A k \in 1 .. Len(s) - 1 :
            (a \o b)[k] = IF k < i THEN a[k] ELSE b[k - (i - 1)]
    <2>1. /\ a \o b \in Seq(S)
          /\ Len(a \o b) = Len(a) + Len(b)
          /\ \A k \in 1 .. Len(a) + Len(b) :
                (a \o b)[k] = IF k <= Len(a) THEN a[k] ELSE b[k - Len(a)]
        BY ONLY <1>2, <1>3, ConcatProperties
    <2>2. Len(a) + Len(b) = Len(s) - 1
        BY <1>1, <1>2, <1>3
    <2>3. ASSUME NEW k \in 1 .. Len(s) - 1
          PROVE  (a \o b)[k] = IF k < i THEN a[k] ELSE b[k - (i - 1)]
        <3>1. (a \o b)[k] = IF k <= Len(a) THEN a[k] ELSE b[k - Len(a)]
            BY <2>1, <2>2
        <3>2. Len(a) = i - 1 /\ (k <= i - 1 <=> k < i)
            BY <1>2
        <3> QED
            BY ONLY <3>1, <3>2
    <2> QED
        BY <2>1, <2>2, <2>3
<1>5. \A k \in 1 .. Len(s) - 1 : k >= i => b[k - (i - 1)] = s[k + 1]
    BY <1>1, <1>3
<1>6. \A k \in 1 .. Len(s) - 1 : k < i => a[k] = s[k]
    BY <1>1, <1>2
<1>7. \A k \in 1 .. Len(s) - 1 : (a \o b)[k] = IF k < i THEN s[k] ELSE s[k + 1]
    BY <1>1, <1>4, <1>5, <1>6
<1>8. RemoveAt(s, i) = a \o b
    BY DEF RemoveAt, a, b
<1> QED
    BY <1>4, <1>7, <1>8

(* If no element occurs twice, the unlinked one is gone. *)
LEMMA RemoveAtSet ==
    ASSUME NEW S, NEW s \in Seq(S), NEW i \in 1 .. Len(s), IsInjective(s)
    PROVE  /\ ToSet(RemoveAt(s, i)) = ToSet(s) \ {s[i]}
           /\ IsInjective(RemoveAt(s, i))
<1> DEFINE t == RemoveAt(s, i)
<1>1. /\ Len(s) \in Nat /\ DOMAIN s = 1 .. Len(s)
      /\ DOMAIN t = 1 .. Len(s) - 1
      /\ \A k \in 1 .. Len(s) - 1 : t[k] = IF k < i THEN s[k] ELSE s[k + 1]
    BY RemoveAtProperties
<1> HIDE DEF t
<1>2. \A j, k \in 1 .. Len(s) : s[j] = s[k] => j = k
    BY <1>1 DEF IsInjective
<1>3. ASSUME NEW x \in ToSet(t)
      PROVE  x \in ToSet(s) \ {s[i]}
    BY <1>1, <1>2 DEF ToSet
<1>4. ASSUME NEW x \in ToSet(s) \ {s[i]}
      PROVE  x \in ToSet(t)
    <2>1. PICK k \in 1 .. Len(s) : x = s[k] /\ k # i
        BY <1>1, <1>4 DEF ToSet
    <2>2. CASE k < i
        BY <1>1, <2>1, <2>2 DEF ToSet
    <2>3. CASE k > i
        <3>1. k - 1 \in DOMAIN t /\ t[k - 1] = x
            BY <1>1, <2>1, <2>3
        <3> QED
            BY <3>1 DEF ToSet
    <2> QED
        BY <2>1, <2>2, <2>3
<1>5. IsInjective(t)
    BY <1>1, <1>2 DEF IsInjective
<1> QED
    BY <1>3, <1>4, <1>5 DEF t

(* Concatenation: the elements, and when none occurs twice. *)
LEMMA ConcatSet ==
    ASSUME NEW S, NEW s \in Seq(S), NEW t \in Seq(S)
    PROVE  /\ s \o t \in Seq(S)
           /\ ToSet(s \o t) = ToSet(s) \cup ToSet(t)
           /\ IsInjective(s) /\ IsInjective(t) /\ ToSet(s) \cap ToSet(t) = {}
                => IsInjective(s \o t)
<1> DEFINE u == s \o t
<1>1. /\ u \in Seq(S)
      /\ Len(s) \in Nat /\ Len(t) \in Nat
      /\ DOMAIN s = 1 .. Len(s) /\ DOMAIN t = 1 .. Len(t)
      /\ DOMAIN u = 1 .. Len(s) + Len(t)
      /\ \A k \in 1 .. Len(s) + Len(t) :
            u[k] = IF k <= Len(s) THEN s[k] ELSE t[k - Len(s)]
    OBVIOUS
<1> HIDE DEF u
<1>2. ASSUME NEW x \in ToSet(u)
      PROVE  x \in ToSet(s) \cup ToSet(t)
    <2>1. PICK k \in 1 .. Len(s) + Len(t) : x = u[k]
        BY <1>1 DEF ToSet
    <2>2. CASE k <= Len(s)
        BY <1>1, <2>1, <2>2 DEF ToSet
    <2>3. CASE k > Len(s)
        <3>1. k - Len(s) \in DOMAIN t /\ t[k - Len(s)] = x
            BY <1>1, <2>1, <2>3
        <3> QED
            BY <3>1 DEF ToSet
    <2> QED
        BY <1>1, <2>1, <2>2, <2>3
<1>3. ASSUME NEW x \in ToSet(s)
      PROVE  x \in ToSet(u)
    BY <1>1 DEF ToSet
<1>4. ASSUME NEW x \in ToSet(t)
      PROVE  x \in ToSet(u)
    <2>1. PICK k \in 1 .. Len(t) : x = t[k]
        BY <1>1 DEF ToSet
    <2>2. k + Len(s) \in DOMAIN u /\ u[k + Len(s)] = x
        BY <1>1, <2>1
    <2> QED
        BY <2>2 DEF ToSet
<1>5. ASSUME IsInjective(s), IsInjective(t), ToSet(s) \cap ToSet(t) = {}
      PROVE  IsInjective(u)
    <2>1. \A j \in 1 .. Len(s), k \in 1 .. Len(t) : s[j] # t[k]
        BY <1>1, <1>5 DEF ToSet
    <2>2. /\ \A j, k \in 1 .. Len(s) : s[j] = s[k] => j = k
          /\ \A j, k \in 1 .. Len(t) : t[j] = t[k] => j = k
        BY <1>1, <1>5 DEF IsInjective
    <2>3. ASSUME NEW j \in DOMAIN u, NEW k \in DOMAIN u, u[j] = u[k]
          PROVE  j = k
        <3>0. j \in 1 .. Len(s) + Len(t) /\ k \in 1 .. Len(s) + Len(t)
            BY <1>1
        <3>1. CASE j <= Len(s) /\ k <= Len(s)
            BY <1>1, <2>2, <2>3, <3>0, <3>1
        <3>2. CASE j <= Len(s) /\ ~(k <= Len(s))
            <4>1. k - Len(s) \in 1 .. Len(t) /\ u[k] = t[k - Len(s)]
                BY <1>1, <3>0, <3>2
            <4>2. j \in 1 .. Len(s) /\ u[j] = s[j]
                BY <1>1, <3>0, <3>2
            <4> QED
                BY <2>1, <2>3, <4>1, <4>2
        <3>3. CASE ~(j <= Len(s)) /\ k <= Len(s)
            <4>1. j - Len(s) \in 1 .. Len(t) /\ u[j] = t[j - Len(s)]
                BY <1>1, <3>0, <3>3
            <4>2. k \in 1 .. Len(s) /\ u[k] = s[k]
                BY <1>1, <3>0, <3>3
            <4> QED
                BY <2>1, <2>3, <4>1, <4>2
        <3>4. CASE ~(j <= Len(s)) /\ ~(k <= Len(s))
            <4>1. /\ j - Len(s) \in 1 .. Len(t) /\ k - Len(s) \in 1 .. Len(t)
                  /\ u[j] = t[j - Len(s)] /\ u[k] = t[k - Len(s)]
                BY <1>1, <3>0, <3>4
            <4>2. j - Len(s) = k - Len(s)
                BY <2>2, <2>3, <4>1
            <4> QED
                BY <1>1, <3>0, <4>2
        <3> QED
            BY <3>1, <3>2, <3>3, <3>4
    <2> QED
        BY <2>3 DEF IsInjective
<1> QED
    BY <1>1, <1>2, <1>3, <1>4, <1>5 DEF u

(* Moving the head of one list to the tail of another leaves their         *)
(* concatenation as it was.                                                *)
LEMMA MoveHead ==
    ASSUME NEW S, NEW s \in Seq(S), NEW t \in Seq(S), t # <<>>
    PROVE  Append(s, Head(t)) \o Tail(t) = s \o t
<1> DEFINE u == Append(s, Head(t))
<1>1. /\ Head(t) \in S /\ Head(t) = t[1] /\ Tail(t) \in Seq(S)
      /\ Len(Tail(t)) = Len(t) - 1
      /\ \A i \in 1 .. Len(t) - 1 : Tail(t)[i] = t[i + 1]
      /\ Len(s) \in Nat /\ Len(t) \in Nat \ {0}
    OBVIOUS
<1>2. /\ u \in Seq(S) /\ Len(u) = Len(s) + 1
      /\ \A i \in 1 .. Len(s) : u[i] = s[i]
      /\ u[Len(s) + 1] = t[1]
    BY <1>1
<1> HIDE DEF u
<1>3. /\ u \o Tail(t) \in Seq(S)
      /\ Len(u \o Tail(t)) = Len(s) + Len(t)
      /\ \A i \in 1 .. Len(s) + Len(t) : (u \o Tail(t))[i] =
            IF i <= Len(s) + 1 THEN u[i] ELSE Tail(t)[i - (Len(s) + 1)]
    <2>1. /\ u \o Tail(t) \in Seq(S)
          /\ Len(u \o Tail(t)) = Len(u) + Len(Tail(t))
          /\ \A i \in 1 .. Len(u) + Len(Tail(t)) : (u \o Tail(t))[i] =
                IF i <= Len(u) THEN u[i] ELSE Tail(t)[i - Len(u)]
        BY ONLY <1>1, <1>2, ConcatProperties
    <2>2. Len(u) = Len(s) + 1 /\ Len(u) + Len(Tail(t)) = Len(s) + Len(t)
        BY ONLY <1>1, <1>2
    <2> QED
        BY ONLY <2>1, <2>2
<1>4. /\ s \o t \in Seq(S)
      /\ Len(s \o t) = Len(s) + Len(t)
      /\ \A i \in 1 .. Len(s) + Len(t) :
            (s \o t)[i] = IF i <= Len(s) THEN s[i] ELSE t[i - Len(s)]
    BY ConcatProperties
<1>5. ASSUME NEW i \in 1 .. Len(s) + Len(t)
      PROVE  (u \o Tail(t))[i] = (s \o t)[i]
    <2>1. CASE i <= Len(s)
        BY <1>1, <1>2, <1>3, <1>4, <2>1
    <2>2. CASE i = Len(s) + 1
        <3>1. (s \o t)[i] = t[1]
            BY ONLY <1>1, <1>4, <2>2
        <3>2. (u \o Tail(t))[i] = u[Len(s) + 1]
            BY ONLY <1>1, <1>3, <2>2
        <3> QED
            BY <1>2, <3>1, <3>2
    <2>3. CASE i > Len(s) + 1
        <3>1. (s \o t)[i] = t[i - Len(s)]
            BY <1>1, <1>4, <2>3
        <3>2. (u \o Tail(t))[i] = Tail(t)[i - (Len(s) + 1)]
            BY <1>1, <1>3, <2>3
        <3>3. Tail(t)[i - (Len(s) + 1)] = t[i - Len(s)]
            BY <1>1, <2>3
        <3> QED
            BY <3>1, <3>2, <3>3
    <2>4. i <= Len(s) \/ i = Len(s) + 1 \/ i > Len(s) + 1
        BY <1>1
    <2> QED
        BY <2>1, <2>2, <2>3, <2>4
<1>6. u \o Tail(t) = s \o t
    BY <1>3, <1>4, <1>5, SeqEqual
<1> QED
    BY <1>6 DEF u

-----------------------------------------------------------------------------
(* Induction.                                                              *)

(* A nonempty set of naturals has a smallest element. *)
LEMMA SmallestElement ==
    ASSUME NEW T \in SUBSET Nat, T # {}
    PROVE  \E n \in T : \A m \in T : n <= m
<1> DEFINE R == {ss \in Nat \X Nat : ss[1] < ss[2]}
<1>1. IsWellFoundedOn(R, Nat)
    BY NatLessThanWellFounded DEF OpToRel
<1>2. PICK n \in T : \A m \in T : ~ (<<m, n>> \in R)
    <2> HIDE DEF R
    <2> QED
        BY <1>1, WFMin
<1>3. \A m \in T : ~ (m < n)
    BY <1>2
<1> QED
    BY <1>3

(* Induction over the naturals, with the set of the numbers for which a    *)
(* statement holds in the place of the statement.                          *)
LEMMA Induction ==
    ASSUME NEW T \in SUBSET Nat, 0 \in T, \A n \in T : n + 1 \in T
    PROVE  T = Nat
<1> SUFFICES ASSUME T # Nat PROVE FALSE
    OBVIOUS
<1>1. PICK n \in Nat \ T : \A m \in Nat \ T : n <= m
    BY SmallestElement
<1>2. n # 0 /\ n - 1 \in Nat
    BY SMT
<1>3. n - 1 \in T
    BY <1>1, <1>2
<1> QED
    BY <1>1, <1>2, <1>3

(* The same between two bounds. *)
LEMMA BoundedInduction ==
    ASSUME NEW m \in Nat, NEW n \in Nat, NEW T,
           m \in T, \A i \in m .. n - 1 : i \in T => i + 1 \in T
    PROVE  \A i \in m .. n : i \in T
<1> DEFINE U == {i \in Nat : m + i <= n => m + i \in T}
<1>1. 0 \in U
    OBVIOUS
<1>2. ASSUME NEW i \in U PROVE i + 1 \in U
    <2>1. CASE m + (i + 1) <= n
        <3>1. m + i \in m .. n - 1 /\ m + i \in T /\ (m + i) + 1 = m + (i + 1)
            BY <2>1
        <3> QED
            BY <3>1
    <2> QED
        BY <2>1
<1>3. U = Nat
    <2> HIDE DEF U
    <2>1. U \in SUBSET Nat
        BY DEF U
    <2> QED
        BY <1>1, <1>2, <2>1, Induction
<1>4. ASSUME NEW i \in m .. n PROVE i \in T
    <2>1. i - m \in Nat /\ m + (i - m) = i /\ i <= n
        OBVIOUS
    <2>2. i - m \in U
        BY <1>3, <2>1
    <2> QED
        BY <2>1, <2>2
<1> QED
    BY <1>4

(* The function FlattenSeq is defined by exists and has the values that    *)
(* its recursion says.                                                     *)
LEMMA FlatteningExists ==
    ASSUME NEW S, NEW ss \in Seq(Seq(S)), ss # <<>>
    PROVE  \E f \in [1 .. Len(ss) -> Seq(S)] :
               /\ FlattenSeq(ss) = f[Len(ss)]
               /\ f[1] = ss[1]
               /\ \A i \in 1 .. Len(ss) - 1 : f[i + 1] = f[i] \o ss[i + 1]
<1> DEFINE n == Len(ss)
           Whole(f, k) == f = [i \in 1 .. k |-> IF i = 1 THEN ss[i] ELSE f[i - 1] \o ss[i]]
           T == {k \in 1 .. n : \E f \in [1 .. k -> Seq(S)] : Whole(f, k)}
<1>0. n \in Nat /\ n # 0 /\ \A i \in 1 .. n : ss[i] \in Seq(S)
    BY EmptySeq, LenProperties, ElementOfSeq
<1>5. FlattenSeq(ss) = (CHOOSE f : Whole(f, n))[n]
    BY <1>0 DEF FlattenSeq
<1> HIDE DEF n
<1>1. 1 \in T
    <2> DEFINE f == [i \in 1 .. 1 |-> ss[1]]
    <2>1. f \in [1 .. 1 -> Seq(S)]
        BY <1>0
    <2>2. Whole(f, 1)
        OBVIOUS
    <2>3. 1 \in 1 .. n
        BY <1>0
    <2> HIDE DEF f, Whole
    <2> QED
        BY <2>1, <2>2, <2>3
<1>2. ASSUME NEW k \in 1 .. n - 1, k \in T PROVE k + 1 \in T
    <2>1. PICK f \in [1 .. k -> Seq(S)] : Whole(f, k)
        BY <1>2
    <2> DEFINE e == f[k] \o ss[k + 1]
               g == [i \in 1 .. k + 1 |-> IF i = k + 1 THEN e ELSE f[i]]
    <2>2. e \in Seq(S)
        BY <1>0
    <2>3. g \in [1 .. k + 1 -> Seq(S)]
        <3> HIDE DEF e
        <3> QED
            BY <2>2
    <2>4. ASSUME NEW i \in 1 .. k + 1
          PROVE  g[i] = IF i = 1 THEN ss[i] ELSE g[i - 1] \o ss[i]
        <3>1. CASE i = k + 1
            <4>1. i # 1 /\ i - 1 = k /\ k \in 1 .. k + 1 /\ k # k + 1
                BY <3>1
            <4>2. g[i] = e /\ g[i - 1] = f[k]
                BY <3>1, <4>1
            <4> QED
                BY <3>1, <4>1, <4>2
        <3>2. CASE i # k + 1
            <4>1. i \in 1 .. k /\ (i # 1 => i - 1 \in 1 .. k)
                BY <3>2
            <4>2. f[i] = IF i = 1 THEN ss[i] ELSE f[i - 1] \o ss[i]
                BY <2>1, <4>1
            <4>3. g[i] = f[i] /\ (i # 1 => g[i - 1] = f[i - 1])
                BY <3>2, <4>1
            <4> HIDE DEF g
            <4> QED
                BY <4>1, <4>2, <4>3
        <3> QED
            BY <3>1, <3>2
    <2>5. Whole(g, k + 1)
        <3> DEFINE h == [i \in 1 .. k + 1 |-> IF i = 1 THEN ss[i] ELSE g[i - 1] \o ss[i]]
        <3>1. \A i \in 1 .. k + 1 : g[i] = h[i]
            <4> HIDE DEF g
            <4> QED
                BY <2>4
        <3>2. DOMAIN g = 1 .. k + 1 /\ DOMAIN h = 1 .. k + 1
            OBVIOUS
        <3>3. g = [i \in 1 .. k + 1 |-> g[i]] /\ h = [i \in 1 .. k + 1 |-> h[i]]
            OBVIOUS
        <3>4. g = h
            <4> HIDE DEF g, h
            <4> QED
                BY <3>1, <3>3
        <3> QED
            BY <3>4
    <2>6. k + 1 \in 1 .. n
        BY <1>0
    <2> QED
        <3> HIDE DEF g, Whole
        <3> QED
            BY <2>3, <2>5, <2>6
<1>3. n \in T
    <2> HIDE DEF T
    <2>1. \A i \in 1 .. n : i \in T
        BY <1>0, <1>1, <1>2, BoundedInduction
    <2> QED
        BY <1>0, <2>1
<1> DEFINE c == CHOOSE f : Whole(f, n)
<1>4. Whole(c, n)
    <2> HIDE DEF Whole
    <2> QED
        BY <1>3
<1>c. FlattenSeq(ss) = c[n]
    BY <1>5
<1> HIDE DEF c
<1>6. \A i \in 1 .. n : c[i] = IF i = 1 THEN ss[i] ELSE c[i - 1] \o ss[i]
    BY <1>4
<1>7. c[1] = ss[1]
    <2>1. 1 \in 1 .. n
        BY <1>0
    <2> QED
        BY <1>6, <2>1
<1>8. ASSUME NEW i \in 1 .. n - 1 PROVE c[i + 1] = c[i] \o ss[i + 1]
    <2>1. i + 1 \in 1 .. n /\ i + 1 # 1 /\ (i + 1) - 1 = i
        BY <1>0
    <2> QED
        BY <1>6, <2>1
<1>9. \A i \in 1 .. n : c[i] \in Seq(S)
    <2> DEFINE U == {i \in 1 .. n : c[i] \in Seq(S)}
    <2>1. 1 \in U
        BY <1>0, <1>7
    <2>2. ASSUME NEW i \in 1 .. n - 1, i \in U PROVE i + 1 \in U
        <3>1. c[i] \in Seq(S) /\ ss[i + 1] \in Seq(S) /\ i + 1 \in 1 .. n
            BY <1>0, <2>2
        <3>2. c[i + 1] \in Seq(S)
            BY <1>8, <3>1, ConcatProperties
        <3> QED
            BY <3>1, <3>2
    <2>3. \A i \in 1 .. n : i \in U
        <3> HIDE DEF U
        <3> QED
            BY <1>0, <2>1, <2>2, BoundedInduction
    <2> QED
        BY <2>3
<1>10. c = [i \in 1 .. n |-> c[i]]
    BY <1>4
<1>11. c \in [1 .. n -> Seq(S)]
    BY <1>9, <1>10
<1> QED
    BY <1>c, <1>7, <1>8, <1>11 DEF n

(* FlattenSeq adds the sequences one after the other.                      *)
LEMMA FlattenAppend ==
    ASSUME NEW S, NEW ss \in Seq(Seq(S)), NEW s \in Seq(S)
    PROVE  /\ FlattenSeq(Append(ss, s)) = FlattenSeq(ss) \o s
           /\ FlattenSeq(ss) \in Seq(S)
<1> DEFINE tt == Append(ss, s)
           n == Len(ss)
           m == n + 1
<1>0. /\ n \in Nat /\ Len(tt) = m /\ tt \in Seq(Seq(S))
      /\ \A i \in 1 .. n : tt[i] = ss[i] /\ ss[i] \in Seq(S)
      /\ tt[m] = s
      /\ n = 0 <=> ss = <<>>
    BY AppendProperties, EmptySeq, LenProperties, ElementOfSeq
<1> HIDE DEF tt, n
<1>1. PICK g \in [1 .. m -> Seq(S)] :
          /\ FlattenSeq(tt) = g[m]
          /\ g[1] = tt[1]
          /\ \A i \in 1 .. m - 1 : g[i + 1] = g[i] \o tt[i + 1]
    <2>1. m \in Nat /\ m # 0 /\ tt # <<>>
        BY <1>0, EmptySeq
    <2> HIDE DEF m
    <2>2. \E g \in [1 .. Len(tt) -> Seq(S)] :
              /\ FlattenSeq(tt) = g[Len(tt)]
              /\ g[1] = tt[1]
              /\ \A i \in 1 .. Len(tt) - 1 : g[i + 1] = g[i] \o tt[i + 1]
        BY <1>0, <2>1, FlatteningExists, Zenon
    <2> QED
        BY <1>0, <2>2
<1>2. CASE n = 0
    <2>1. FlattenSeq(ss) = <<>>
        BY <1>0, <1>2 DEF FlattenSeq, n
    <2> QED
        BY <1>0, <1>1, <1>2, <2>1, ConcatEmptySeq DEF tt
<1>3. CASE n # 0
    <2>1. PICK f \in [1 .. n -> Seq(S)] :
              /\ FlattenSeq(ss) = f[n]
              /\ f[1] = ss[1]
              /\ \A i \in 1 .. n - 1 : f[i + 1] = f[i] \o ss[i + 1]
        BY <1>0, <1>3, FlatteningExists DEF n
    <2> DEFINE U == {i \in 1 .. n : g[i] = f[i]}
    <2>2. 1 \in U
        BY <1>0, <1>1, <1>3, <2>1
    <2>3. ASSUME NEW i \in 1 .. n - 1, i \in U PROVE i + 1 \in U
        <3>1. i + 1 \in 1 .. n /\ i \in 1 .. m - 1
            BY <1>0
        <3>2. g[i + 1] = g[i] \o tt[i + 1] /\ f[i + 1] = f[i] \o ss[i + 1]
            BY <1>1, <2>1, <3>1
        <3>3. g[i] = f[i] /\ tt[i + 1] = ss[i + 1]
            BY <1>0, <2>3, <3>1
        <3>4. g[i + 1] = f[i + 1]
            BY <3>2, <3>3
        <3> QED
            BY <3>1, <3>4
    <2>4. \A i \in 1 .. n : i \in U
        <3> HIDE DEF U
        <3> QED
            BY <1>0, <2>2, <2>3, BoundedInduction
    <2>5. n \in 1 .. n /\ n \in 1 .. m - 1
        BY <1>0, <1>3
    <2>6. g[n] = f[n]
        BY <2>4, <2>5
    <2>7. g[m] = g[n] \o s
        BY <1>0, <1>1, <2>5
    <2> QED
        BY <1>1, <2>1, <2>5, <2>6, <2>7 DEF tt
<1> QED
    BY <1>2, <1>3

(* Appending to the second of two lists appends to their concatenation. *)
LEMMA AppendToConcat ==
    ASSUME NEW S, NEW s \in Seq(S), NEW t \in Seq(S), NEW e \in S
    PROVE  s \o Append(t, e) = Append(s \o t, e)
<1>1. Append(t, e) = t \o <<e>> /\ Append(s \o t, e) = (s \o t) \o <<e>>
    BY AppendIsConcat, ConcatProperties
<1>2. <<e>> \in Seq(S)
    OBVIOUS
<1> QED
    BY <1>1, <1>2, ConcatAssociative

(* Cut a sequence of sequences anywhere, and flatten the parts.            *)
LEMMA FlattenConcat ==
    ASSUME NEW S, NEW ss \in Seq(Seq(S)), NEW tt \in Seq(Seq(S))
    PROVE  FlattenSeq(ss \o tt) = FlattenSeq(ss) \o FlattenSeq(tt)
<1>a. \A x \in Seq(Seq(S)), y \in Seq(S) : FlattenSeq(Append(x, y)) = FlattenSeq(x) \o y
    BY FlattenAppend
<1>b. \A x \in Seq(Seq(S)) : FlattenSeq(x) \in Seq(S)
    BY FlattenAppend
<1>c. \A x, y, z \in Seq(S) : (x \o y) \o z = x \o (y \o z)
    <2> SUFFICES ASSUME NEW x \in Seq(S), NEW y \in Seq(S), NEW z \in Seq(S)
                 PROVE  (x \o y) \o z = x \o (y \o z)
        OBVIOUS
    <2> DEFINE l == (x \o y) \o z
               r == x \o (y \o z)
    <2>1. l \in Seq(S) /\ r \in Seq(S) /\ Len(l) = Len(r)
        BY ConcatProperties
    <2>2. \A i \in 1 .. Len(l) : l[i] = r[i]
        OBVIOUS
    <2> HIDE DEF l, r
    <2>3. l = r
        BY <2>1, <2>2, SeqEqual
    <2> QED
        BY <2>3 DEF l, r
<1> DEFINE T == {n \in Nat : \A t \in Seq(Seq(S)) :
                     Len(t) = n => FlattenSeq(ss \o t) = FlattenSeq(ss) \o FlattenSeq(t)}
<1>1. 0 \in T
    <2> SUFFICES ASSUME NEW t \in Seq(Seq(S)), Len(t) = 0
                 PROVE  FlattenSeq(ss \o t) = FlattenSeq(ss) \o FlattenSeq(t)
        OBVIOUS
    <2>1. t = <<>> /\ FlattenSeq(t) = <<>>
        BY EmptySeq DEF FlattenSeq
    <2>2. FlattenSeq(ss) \in Seq(S) /\ ss \o t = ss
        BY <2>1, FlattenAppend, ConcatEmptySeq
    <2> QED
        BY <2>1, <2>2, ConcatEmptySeq
<1>2. ASSUME NEW n \in T PROVE n + 1 \in T
    <2> SUFFICES ASSUME NEW t \in Seq(Seq(S)), Len(t) = n + 1
                 PROVE  FlattenSeq(ss \o t) = FlattenSeq(ss) \o FlattenSeq(t)
        OBVIOUS
    <2>1. PICK u \in Seq(Seq(S)), e \in Seq(S) : t = Append(u, e)
        <3>1. t # <<>>
            BY EmptySeq
        <3> QED
            BY <3>1, SequenceEmptyOrAppend
    <2>2. Len(u) = n
        BY <2>1, AppendProperties, LenProperties
    <2>3. FlattenSeq(ss \o u) = FlattenSeq(ss) \o FlattenSeq(u)
        BY <2>2
    <2>4. ss \o t = Append(ss \o u, e)
        BY <2>1, AppendToConcat
    <2>5. /\ FlattenSeq(ss) \in Seq(S) /\ FlattenSeq(u) \in Seq(S)
          /\ ss \o u \in Seq(Seq(S))
        BY FlattenAppend, ConcatProperties
    <2>6. FlattenSeq(ss \o t) = (FlattenSeq(ss) \o FlattenSeq(u)) \o e
        <3>1. FlattenSeq(Append(ss \o u, e)) = FlattenSeq(ss \o u) \o e
            BY <2>5, FlattenAppend
        <3> QED
            BY <2>3, <2>4, <3>1, Zenon
    <2>7. FlattenSeq(t) = FlattenSeq(u) \o e
        BY <2>1, FlattenAppend
    <2>8. (FlattenSeq(ss) \o FlattenSeq(u)) \o e = FlattenSeq(ss) \o (FlattenSeq(u) \o e)
        BY <1>c, <2>5
    <2> QED
        BY <2>6, <2>7, <2>8
<1>3. T = Nat
    <2> HIDE DEF T
    <2>1. T \in SUBSET Nat
        BY DEF T
    <2> QED
        BY <1>1, <1>2, <2>1, Induction
<1>4. Len(tt) \in T
    BY <1>3, LenProperties
<1> QED
    BY <1>4

(* The part of a concatenation that is its first list. *)
LEMMA FirstOfConcat ==
    ASSUME NEW S, NEW s \in Seq(S), NEW t \in Seq(S)
    PROVE  SubSeq(s \o t, 1, Len(s)) = s
<1>1. /\ Len(s) \in Nat /\ Len(t) \in Nat
      /\ s \o t \in Seq(S)
      /\ \A i \in 1 .. Len(s) : (s \o t)[i] = s[i] /\ s[i] \in S
    OBVIOUS
<1>2. /\ SubSeq(s \o t, 1, Len(s)) \in Seq(S)
      /\ Len(SubSeq(s \o t, 1, Len(s))) = Len(s)
      /\ \A i \in 1 .. Len(s) : SubSeq(s \o t, 1, Len(s))[i] = s[i]
    BY <1>1, SubSeqProperties
<1> QED
    BY <1>2, SeqEqual

(* Appending to a sequence adds no other element behind its head. *)
LEMMA TailOfAppend ==
    ASSUME NEW S, NEW s \in Seq(S), s # <<>>, NEW e \in S
    PROVE  ToSet(Tail(Append(s, e))) \subseteq ToSet(Tail(s)) \cup {e}
<1> DEFINE t == Append(s, e)
<1>1. /\ t \in Seq(S) /\ Len(s) \in Nat \ {0} /\ Len(t) = Len(s) + 1
      /\ \A i \in 1 .. Len(s) : t[i] = s[i]
      /\ t[Len(s) + 1] = e
    BY AppendProperties, EmptySeq
<1>2. /\ Len(Tail(s)) = Len(s) - 1 /\ DOMAIN Tail(s) = 1 .. Len(s) - 1
      /\ \A i \in 1 .. Len(s) - 1 : Tail(s)[i] = s[i + 1]
    BY HeadTailProperties
<1> HIDE DEF t
<1>3. t # <<>>
    BY <1>1
<1>4. /\ DOMAIN Tail(t) = 1 .. Len(s)
      /\ \A i \in 1 .. Len(s) : Tail(t)[i] = t[i + 1]
    BY <1>1, <1>3, HeadTailProperties
<1>5. ASSUME NEW i \in 1 .. Len(s) PROVE Tail(t)[i] \in ToSet(Tail(s)) \cup {e}
    <2>1. CASE i = Len(s)
        BY <1>1, <1>4, <2>1
    <2>2. CASE i # Len(s)
        <3>1. i \in 1 .. Len(s) - 1 /\ i + 1 \in 1 .. Len(s)
            BY <1>1, <2>2
        <3>2. Tail(t)[i] = Tail(s)[i]
            BY <1>1, <1>2, <1>4, <3>1
        <3> QED
            BY <1>2, <3>1, <3>2 DEF ToSet
    <2> QED
        BY <2>1, <2>2
<1>6. ToSet(Tail(t)) \subseteq ToSet(Tail(s)) \cup {e}
    BY <1>4, <1>5 DEF ToSet
<1> QED
    BY <1>6 DEF t

(* What is left and what is dropped when a concatenation is cut behind the *)
(* head of its second part.                                                *)
LEMMA CutBehindHead ==
    ASSUME NEW S, NEW s \in Seq(S), NEW t \in Seq(S), t # <<>>
    PROVE  /\ SubSeq(s \o t, 1, Len(s) + 1) = Append(s, Head(t))
           /\ Len(s \o t) \in Nat
           /\ \A i \in Len(s) + 2 .. Len(s \o t) : (s \o t)[i] \in ToSet(Tail(t))
<1> DEFINE u == Append(s, Head(t))
           v == Tail(t)
<1>1. Head(t) \in S /\ v \in Seq(S)
    BY PopProperties
<1>2. u \in Seq(S) /\ Len(u) = Len(s) + 1
    BY <1>1, AppendProperties
<1>3. s \o t = u \o v
    BY MoveHead
<1> HIDE DEF u, v
<1>4. SubSeq(u \o v, 1, Len(u)) = u
    BY <1>1, <1>2, FirstOfConcat
<1>5. /\ Len(u) \in Nat /\ Len(v) \in Nat /\ DOMAIN v = 1 .. Len(v)
      /\ Len(u \o v) = Len(u) + Len(v)
      /\ \A i \in 1 .. Len(u) + Len(v) :
            (u \o v)[i] = IF i <= Len(u) THEN u[i] ELSE v[i - Len(u)]
    BY <1>1, <1>2, ConcatProperties, LenProperties
<1>6. ASSUME NEW i \in Len(u) + 1 .. Len(u \o v) PROVE (u \o v)[i] \in ToSet(v)
    <2>1. i \in 1 .. Len(u) + Len(v) /\ ~(i <= Len(u)) /\ i - Len(u) \in 1 .. Len(v)
        BY <1>5
    <2>2. (u \o v)[i] = v[i - Len(u)]
        BY <1>5, <2>1
    <2> QED
        BY <1>5, <2>1, <2>2 DEF ToSet
<1>7. Len(s) \in Nat /\ Len(u) + 1 = Len(s) + 2
    BY <1>2
<1> QED
    BY <1>2, <1>3, <1>4, <1>5, <1>6, <1>7 DEF u, v

(* A recursion over 0 .. n has a solution.                                 *)
LEMMA RecursionExists ==
    ASSUME NEW S, NEW e \in S, NEW n \in Nat, NEW step \in [1 .. n -> [S -> S]]
    PROVE  \E f \in [0 .. n -> S] :
               f[0] = e /\ \A i \in 1 .. n : f[i] = step[i][f[i - 1]]
<1> DEFINE Whole(f, k) == f[0] = e /\ \A i \in 1 .. k : f[i] = step[i][f[i - 1]]
           T == {k \in 0 .. n : \E f \in [0 .. k -> S] : Whole(f, k)}
<1>1. 0 \in T
    <2> DEFINE f == [i \in 0 .. 0 |-> e]
    <2>1. f \in [0 .. 0 -> S]
        OBVIOUS
    <2>2. Whole(f, 0)
        OBVIOUS
    <2> HIDE DEF f, Whole
    <2> QED
        BY <2>1, <2>2
<1>2. ASSUME NEW k \in 0 .. n - 1, k \in T PROVE k + 1 \in T
    <2>1. PICK f \in [0 .. k -> S] : Whole(f, k)
        BY <1>2
    <2> DEFINE d == step[k + 1][f[k]]
               g == [i \in 0 .. k + 1 |-> IF i = k + 1 THEN d ELSE f[i]]
    <2>2. d \in S
        BY <1>2
    <2>3. g \in [0 .. k + 1 -> S]
        <3> HIDE DEF d
        <3> QED
            BY <1>2, <2>2
    <2>4. g[0] = e
        BY <1>2, <2>1
    <2>5. ASSUME NEW i \in 1 .. k + 1 PROVE g[i] = step[i][g[i - 1]]
        <3>1. CASE i = k + 1
            BY <1>2, <3>1
        <3>2. CASE i \in 1 .. k
            <4>1. g[i - 1] = f[i - 1] /\ g[i] = f[i]
                BY <1>2, <3>2
            <4> QED
                BY <2>1, <3>2, <4>1
        <3> QED
            BY <1>2, <3>1, <3>2
    <2>6. Whole(g, k + 1)
        <3> HIDE DEF g
        <3> QED
            BY <2>4, <2>5
    <2>7. k + 1 \in 0 .. n
        BY <1>2
    <2> HIDE DEF g, Whole
    <2> QED
        BY <2>3, <2>6, <2>7
<1>3. \A i \in 0 .. n : i \in T
    <2> HIDE DEF T
    <2> QED
        BY <1>1, <1>2, BoundedInduction
<1> QED
    BY <1>3

(* What a recursion yields stays in a set that each step respects.         *)
LEMMA RecursionStays ==
    ASSUME NEW n \in Nat, NEW f, NEW S, f[0] \in S,
           \A i \in 1 .. n : f[i - 1] \in S => f[i] \in S
    PROVE  \A i \in 0 .. n : f[i] \in S
<1> DEFINE T == {i \in Nat : f[i] \in S}
<1>1. 0 \in T
    OBVIOUS
<1>2. ASSUME NEW i \in 0 .. n - 1, i \in T PROVE i + 1 \in T
    <2>1. i + 1 \in 1 .. n /\ (i + 1) - 1 = i
        OBVIOUS
    <2> QED
        BY <1>2, <2>1
<1>3. \A i \in 0 .. n : i \in T
    <2> HIDE DEF T
    <2> QED
        BY <1>1, <1>2, BoundedInduction
<1> QED
    BY <1>3

(* Flattening a sequence bit by bit.                                       *)
LEMMA FlattenPrefix ==
    ASSUME NEW S, NEW ss \in Seq(Seq(S))
    PROVE  /\ FlattenSeq(SubSeq(ss, 1, 0)) = <<>>
           /\ FlattenSeq(SubSeq(ss, 1, Len(ss))) = FlattenSeq(ss)
           /\ \A i \in 0 .. Len(ss) : FlattenSeq(SubSeq(ss, 1, i)) \in Seq(S)
           /\ \A i \in 1 .. Len(ss) :
                 FlattenSeq(SubSeq(ss, 1, i)) = FlattenSeq(SubSeq(ss, 1, i - 1)) \o ss[i]
<1>1. SubSeq(ss, 1, 0) = <<>> /\ SubSeq(ss, 1, Len(ss)) = ss
    OBVIOUS
<1>2. FlattenSeq(<<>>) = <<>>
    BY DEF FlattenSeq
<1>3. \A i \in 0 .. Len(ss) : SubSeq(ss, 1, i) \in Seq(Seq(S))
    OBVIOUS
<1>4. \A t \in Seq(Seq(S)) : FlattenSeq(t) \in Seq(S)
    BY FlattenAppend
<1>5. ASSUME NEW i \in 1 .. Len(ss)
      PROVE  FlattenSeq(SubSeq(ss, 1, i)) = FlattenSeq(SubSeq(ss, 1, i - 1)) \o ss[i]
    <2>1. SubSeq(ss, 1, i) = Append(SubSeq(ss, 1, i - 1), ss[i])
        OBVIOUS
    <2>2. SubSeq(ss, 1, i - 1) \in Seq(Seq(S)) /\ ss[i] \in Seq(S)
        OBVIOUS
    <2> QED
        BY <2>1, <2>2, FlattenAppend
<1> QED
    BY <1>1, <1>2, <1>3, <1>4, <1>5
(* A part that is one element. *)
LEMMA OneElement ==
    ASSUME NEW S, NEW s \in Seq(S), NEW i \in 1 .. Len(s)
    PROVE  SubSeq(s, i, i) = <<s[i]>>
<1>0. i \in Nat /\ Len(s) \in Nat /\ s[i] \in S
    OBVIOUS
<1>1. /\ SubSeq(s, i, i) \in Seq(S) /\ Len(SubSeq(s, i, i)) = 1
      /\ SubSeq(s, i, i)[1] = s[i]
    BY <1>0, SubSeqProperties
<1>2. <<s[i]>> \in Seq(S) /\ Len(<<s[i]>>) = 1 /\ <<s[i]>>[1] = s[i]
    BY <1>0
<1>3. \A j \in 1 .. 1 : j = 1
    OBVIOUS
<1> DEFINE u == SubSeq(s, i, i)
           v == <<s[i]>>
<1> HIDE DEF u, v
<1> QED
    BY <1>1, <1>2, <1>3, SeqEqual DEF u, v

(* The smallest element. *)
LEMMA MinProperties ==
    ASSUME NEW T \in SUBSET Nat, T # {}
    PROVE  Min(T) \in T /\ \A n \in T : Min(T) <= n
<1>1. PICK m \in T : \A n \in T : m <= n
    BY SmallestElement
<1> QED
    BY <1>1 DEF Min

=============================================================================
