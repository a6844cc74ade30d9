---------------------------- MODULE IeIterProofs ----------------------------
(***************************************************************************)
(* Proofs about the walk over the information elements, for every list of  *)
(* elements and every number of octets that are missing at its end: what   *)
(* the walk reads and which name it leaves.                                *)
(*                                                                         *)
(* They rest on where each element is among the octets sent, a fact about  *)
(* every length of list.  The induction is over sets of numbers (NatSets). *)
(***************************************************************************)
EXTENDS IeIter, WellFoundedInduction, SequenceTheorems, TLAPS

-----------------------------------------------------------------------------
(* The invariant.                                                          *)

\* The octets of the first n elements, and how many they are.
Sent(l, n) == Octets(SubSeq(l, 1, n))
End(l, n)  == Len(Sent(l, n))

\* What arrived, behind the first fixed octets, is what was sent, up to the
\* missing end.
StartOf(s, fixed) ==
  /\ Len(s) - fixed <= Len(Octets(list))
  /\ \A k \in fixed + 1 .. Len(s) : s[k] = Octets(list)[k - fixed]

\* The walk is in the n-th element, or has used it.
InElement(n) ==
  LET p == End(list, n - 1)
  IN  /\ cur = p + 2 /\ p < Len(ies)
      /\ cur_id = list[n].id
      /\ p + 1 < Len(ies) => cur_len = Len(list[n].val)
      /\ SsidsArrived => ssid = NameAfter(list, old, IF pc = "element" THEN n - 1 ELSE n)

IeTypeOK ==
  /\ frame_st \in {M_BEACON, M_PROBE_RESPONSE}
  /\ list \in Seq(Element)
  /\ old \in Seq(Char)
  /\ body \in Seq(Nat)
  /\ ies \in Seq(Nat)
  /\ pc \in {"start", "next", "element", "done"}
  /\ cur_len \in Nat

IeInv ==
  /\ IeTypeOK
  /\ StartOf(body, mgmt_fixed_params(frame_st))
  /\ StartOf(ies, 0)
  /\ pc = "start" => ies = <<>>
  /\ cur = NULL => ssid = old
  /\ pc \in {"start", "element"} => (cur = NULL <=> pc = "start")
  /\ cur # NULL /\ pc # "done" => \E n \in 1 .. Len(list) : InElement(n)
  /\ NameIsTheOneSent

-----------------------------------------------------------------------------
(* Induction.  A property of numbers is the set of the numbers that have   *)
(* it.                                                                     *)

\* A set of numbers that holds 0, and with a number the next, holds them all.
LEMMA NatSets ==
  ASSUME NEW T, 0 \in T, \A n \in Nat : n \in T => n + 1 \in T
  PROVE  Nat \subseteq T
<1> SUFFICES ASSUME Nat \ T # {}
             PROVE  FALSE
    OBVIOUS
<1>1. PICK m \in Nat \ T : \A k \in Nat \ T : <<k, m>> \notin OpToRel(<, Nat)
  <2> DEFINE R == OpToRel(<, Nat)
  <2>1. IsWellFoundedOn(R, Nat)
      BY NatLessThanWellFounded, Zenon
  <2>2. Nat \ T \subseteq Nat
      OBVIOUS
  <2> HIDE DEF R
  <2>3. \E x \in Nat \ T : \A y \in Nat \ T : <<y, x>> \notin R
      BY <2>1, <2>2, WFMin
  <2> QED
      BY <2>3 DEF R
<1>2. m # 0 /\ m - 1 \in Nat /\ m - 1 < m
    OBVIOUS
<1>3. <<m - 1, m>> \in OpToRel(<, Nat)
    BY <1>2 DEF OpToRel
<1>4. m - 1 \in T
    BY <1>1, <1>2, <1>3
<1>5. (m - 1) + 1 \in T
    BY <1>2, <1>4
<1> QED
    BY <1>5

-----------------------------------------------------------------------------
(* Flattening.                                                             *)

\* The sequences s[1], s[1] \o s[2], ... up to the n-th.
Flattens(f, s, n) ==
  f = [i \in 1 .. n |-> IF i = 1 THEN s[i] ELSE f[i - 1] \o s[i]]

\* They exist.
LEMMA FlattenExists ==
  ASSUME NEW s
  PROVE  \A n \in Nat : \E f : Flattens(f, s, n)
<1> DEFINE T == {n \in Nat : \E f : Flattens(f, s, n)}
<1>1. 0 \in T
  <2>1. Flattens([i \in 1 .. 0 |-> 0], s, 0)
      BY DEF Flattens
  <2> QED
      BY <2>1
<1>2. ASSUME NEW n \in Nat, n \in T
      PROVE  n + 1 \in T
  <2>1. PICK f : Flattens(f, s, n)
      BY <1>2
  <2> DEFINE last == IF n + 1 = 1 THEN s[n + 1] ELSE f[n] \o s[n + 1]
             g    == [i \in 1 .. n + 1 |-> IF i = n + 1 THEN last ELSE f[i]]
  <2>2. ASSUME NEW i \in 1 .. n + 1
        PROVE  g[i] = IF i = 1 THEN s[i] ELSE g[i - 1] \o s[i]
    <3>1. CASE i = n + 1
      <4>1. i # 1 => i - 1 = n /\ n \in 1 .. n + 1 /\ g[n] = f[n]
          BY <3>1
      <4> HIDE DEF g
      <4>2. g[i] = last
          BY <3>1 DEF g
      <4> QED
          BY <3>1, <4>1, <4>2
    <3>2. CASE i \in 1 .. n
      <4>1. f[i] = IF i = 1 THEN s[i] ELSE f[i - 1] \o s[i]
          BY <2>1, <3>2 DEF Flattens
      <4>2. g[i] = f[i] /\ (i # 1 => g[i - 1] = f[i - 1])
          BY <3>2
      <4> QED
          BY <4>1, <4>2
    <3> QED
        BY <3>1, <3>2
  <2>3. Flattens(g, s, n + 1)
    <3>1. g = [i \in 1 .. n + 1 |-> g[i]]
        OBVIOUS
    <3> HIDE DEF g
    <3> QED
        BY <2>2, <3>1 DEF Flattens
  <2> QED
      BY <2>3
<1> HIDE DEF T
<1>3. Nat \subseteq T
    BY <1>1, <1>2, NatSets
<1> QED
    BY <1>3 DEF T

\* Sequences that agree up to the n-th are flattened alike up to the n-th.
LEMMA FlattenUnique ==
  ASSUME NEW s, NEW t, NEW a \in Nat, NEW b \in Nat, a <= b,
         NEW f, Flattens(f, s, a), NEW g, Flattens(g, t, b),
         \A i \in 1 .. a : s[i] = t[i]
  PROVE  \A i \in 1 .. a : f[i] = g[i]
<1> DEFINE T == {n \in Nat : n \in 1 .. a => f[n] = g[n]}
<1>1. 0 \in T
    OBVIOUS
<1>2. ASSUME NEW n \in Nat, n \in T
      PROVE  n + 1 \in T
  <2> SUFFICES ASSUME n + 1 \in 1 .. a
               PROVE  f[n + 1] = g[n + 1]
      OBVIOUS
  <2>1. f[n + 1] = IF n + 1 = 1 THEN s[n + 1] ELSE f[(n + 1) - 1] \o s[n + 1]
      BY DEF Flattens
  <2>2. g[n + 1] = IF n + 1 = 1 THEN t[n + 1] ELSE g[(n + 1) - 1] \o t[n + 1]
    <3>1. n + 1 \in 1 .. b
        OBVIOUS
    <3> QED
        BY <3>1 DEF Flattens
  <2>3. n + 1 # 1 => (n + 1) - 1 = n /\ f[n] = g[n]
      BY <1>2
  <2> QED
      BY <2>1, <2>2, <2>3
<1> HIDE DEF T
<1>3. Nat \subseteq T
    BY <1>1, <1>2, NatSets
<1> QED
    BY <1>3 DEF T

\* Flattening a sequence is flattening all but its last, and the last.
LEMMA FlattenLast ==
  ASSUME NEW s, NEW t, NEW n \in Nat, Len(s) = n + 1, Len(t) = n,
         \A i \in 1 .. n : t[i] = s[i]
  PROVE  FlattenSeq(s) = IF n = 0 THEN s[1] ELSE FlattenSeq(t) \o s[n + 1]
<1>1. ASSUME NEW u, Len(u) \in Nat \ {0}
      PROVE  \E f : Flattens(f, u, Len(u)) /\ FlattenSeq(u) = f[Len(u)]
  <2>1. \E f : Flattens(f, u, Len(u))
      BY <1>1, FlattenExists
  <2> DEFINE F == CHOOSE f : Flattens(f, u, Len(u))
  <2>2. Flattens(F, u, Len(u))
      BY <2>1
  <2>3. FlattenSeq(u) = F[Len(u)]
      BY <1>1 DEF FlattenSeq, Flattens
  <2> QED
      BY <2>2, <2>3
<1>2. PICK f : Flattens(f, s, n + 1) /\ FlattenSeq(s) = f[n + 1]
    BY <1>1
<1>3. f[n + 1] = IF n + 1 = 1 THEN s[n + 1] ELSE f[(n + 1) - 1] \o s[n + 1]
  <2>1. n + 1 \in 1 .. n + 1 /\ Flattens(f, s, n + 1)
      BY <1>2
  <2> QED
      BY <2>1 DEF Flattens
<1>4. CASE n = 0
    BY <1>2, <1>3, <1>4
<1>5. CASE n # 0
  <2>1. PICK g : Flattens(g, t, n) /\ FlattenSeq(t) = g[n]
      BY <1>1, <1>5
  <2>2. g[n] = f[n]
    <3>1. n \in 1 .. n /\ n <= n + 1 /\ n + 1 \in Nat
        BY <1>5
    <3> QED
        BY <1>2, <2>1, <3>1, FlattenUnique
  <2>3. n + 1 # 1 /\ (n + 1) - 1 = n
      BY <1>5
  <2> QED
      BY <1>2, <1>3, <1>5, <2>1, <2>2, <2>3
<1> QED
    BY <1>4, <1>5

-----------------------------------------------------------------------------
(* What is sent, as octets.                                                *)

\* An element is its id, its length and its value.
LEMMA EncodeIs ==
  ASSUME NEW e \in Element
  PROVE  /\ Encode(e) \in Seq(Nat)
         /\ Len(Encode(e)) = 2 + Len(e.val)
         /\ Encode(e)[1] = e.id
         /\ Encode(e)[2] = Len(e.val)
         /\ \A k \in 1 .. Len(e.val) : Encode(e)[2 + k] = e.val[k]
<1>1. e.id \in Nat /\ e.val \in Seq(Nat) /\ Len(e.val) \in Nat
  <2>1. e.val \in Seq(Char) /\ e.id \in Char
      BY DEF Element
  <2>2. Char \subseteq Nat
      BY IeAssumption
  <2>3. e.val \in Seq(Nat)
      BY <2>1, <2>2, SeqMonotonic
  <2>4. Len(e.val) \in Nat
      BY <2>3
  <2> QED
      BY <2>1, <2>2, <2>3, <2>4
<1>2. <<e.id, Len(e.val)>> \in Seq(Nat)
    BY <1>1
<1> QED
    BY <1>1, <1>2 DEF Encode

\* Every element adds its octets to those of the elements before it.
LEMMA SentStep ==
  ASSUME NEW l \in Seq(Element)
  PROVE  /\ Sent(l, 0) = <<>>
         /\ \A n \in 1 .. Len(l) :
              Sent(l, n) = IF n = 1 THEN Encode(l[1]) ELSE Sent(l, n - 1) \o Encode(l[n])
<1>1. Sent(l, 0) = <<>>
    BY DEF Sent, Octets, FlattenSeq
<1>2. ASSUME NEW n \in 1 .. Len(l)
      PROVE  Sent(l, n) = IF n = 1 THEN Encode(l[1]) ELSE Sent(l, n - 1) \o Encode(l[n])
  <2> DEFINE enc(m) == [k \in DOMAIN SubSeq(l, 1, m) |-> Encode(SubSeq(l, 1, m)[k])]
  <2>1. ASSUME NEW m \in 0 .. Len(l)
        PROVE  Len(enc(m)) = m /\ \A k \in 1 .. m : enc(m)[k] = Encode(l[k])
    <3>1. /\ DOMAIN SubSeq(l, 1, m) = 1 .. m
          /\ \A k \in 1 .. m : SubSeq(l, 1, m)[k] = l[k]
        OBVIOUS
    <3> QED
        BY <3>1
  <2>2. \A m : Sent(l, m) = FlattenSeq(enc(m))
      BY DEF Sent, Octets
  <2>3. n - 1 \in Nat /\ n - 1 \in 0 .. Len(l) /\ n \in 0 .. Len(l) /\ (n - 1) + 1 = n
      OBVIOUS
  <2> HIDE DEF enc
  <2>4. /\ Len(enc(n)) = (n - 1) + 1 /\ Len(enc(n - 1)) = n - 1
        /\ \A k \in 1 .. n - 1 : enc(n - 1)[k] = enc(n)[k]
        /\ enc(n)[n] = Encode(l[n])
      BY <2>1, <2>3
  <2>5. FlattenSeq(enc(n)) =
          IF n - 1 = 0 THEN enc(n)[1] ELSE FlattenSeq(enc(n - 1)) \o enc(n)[(n - 1) + 1]
      BY <2>3, <2>4, FlattenLast
  <2>6. n = 1 <=> n - 1 = 0
      OBVIOUS
  <2> QED
      BY <2>2, <2>3, <2>4, <2>5, <2>6
<1> QED
    BY <1>1, <1>2

\* The first n elements are numbers in sequence.
LEMMA SentType ==
  ASSUME NEW l \in Seq(Element)
  PROVE  \A n \in 0 .. Len(l) : Sent(l, n) \in Seq(Nat)
<1> DEFINE T == {n \in Nat : n <= Len(l) => Sent(l, n) \in Seq(Nat)}
<1>1. 0 \in T
  <2>1. Sent(l, 0) = <<>>
      BY SentStep
  <2>2. <<>> \in Seq(Nat)
      OBVIOUS
  <2> QED
      BY <2>1, <2>2
<1>2. ASSUME NEW n \in Nat, n \in T
      PROVE  n + 1 \in T
  <2> SUFFICES ASSUME n + 1 <= Len(l)
               PROVE  Sent(l, n + 1) \in Seq(Nat)
      OBVIOUS
  <2>1. n + 1 \in 1 .. Len(l) /\ (n + 1) - 1 = n /\ l[n + 1] \in Element
      OBVIOUS
  <2>2. Sent(l, n) \in Seq(Nat) /\ Encode(l[n + 1]) \in Seq(Nat)
      BY <1>2, <2>1, EncodeIs
  <2>3. Sent(l, n + 1) = IF n + 1 = 1 THEN Encode(l[1]) ELSE Sent(l, n) \o Encode(l[n + 1])
      BY <2>1, SentStep
  <2>4. Sent(l, n) \o Encode(l[n + 1]) \in Seq(Nat)
      BY <2>2, ConcatProperties
  <2>5. CASE n = 0
    <3>1. n + 1 = 1 /\ l[1] \in Element
        BY <2>1, <2>5
    <3> QED
        BY <2>3, <3>1, EncodeIs
  <2>6. CASE n # 0
    <3>1. n + 1 # 1
        BY <2>6
    <3> QED
        BY <2>3, <2>4, <3>1
  <2> QED
      BY <2>5, <2>6
<1> HIDE DEF T
<1>3. Nat \subseteq T
    BY <1>1, <1>2, NatSets
<1> QED
    BY <1>3 DEF T

\* Where the n-th element begins and ends, and what is there.
LEMMA SentLast ==
  ASSUME NEW l \in Seq(Element), NEW n \in 1 .. Len(l)
  PROVE  /\ End(l, n - 1) \in Nat
         /\ End(l, n) = End(l, n - 1) + 2 + Len(l[n].val)
         /\ \A k \in 1 .. End(l, n - 1) : Sent(l, n)[k] = Sent(l, n - 1)[k]
         /\ \A k \in 1 .. 2 + Len(l[n].val) :
              Sent(l, n)[End(l, n - 1) + k] = Encode(l[n])[k]
<1>1. Sent(l, n) = Sent(l, n - 1) \o Encode(l[n])
  <2>1. CASE n = 1
    <3>1. Encode(l[n]) \in Seq(Nat)
        BY EncodeIs
    <3>2. Encode(l[n]) = <<>> \o Encode(l[n])
        BY <3>1, ConcatEmptySeq
    <3>3. Sent(l, n) = Encode(l[n])
        BY <2>1, SentStep
    <3>4. n - 1 = 0 /\ Sent(l, 0) = <<>>
        BY <2>1, SentStep
    <3> QED
        BY <3>2, <3>3, <3>4
  <2> QED
      BY <2>1, SentStep
<1>2. Sent(l, n - 1) \in Seq(Nat) /\ Encode(l[n]) \in Seq(Nat)
    BY SentType, EncodeIs
<1>3. Len(Encode(l[n])) = 2 + Len(l[n].val)
    BY EncodeIs
<1>4. Len(l[n].val) \in Nat
  <2>1. l[n] \in Element
      OBVIOUS
  <2> QED
      BY <2>1 DEF Element
<1> DEFINE a == Sent(l, n - 1)
           b == Encode(l[n])
           w == Len(l[n].val)
<1>5. Len(a) \in Nat
    BY <1>2
<1>6. a \in Seq(Nat) /\ b \in Seq(Nat) /\ Sent(l, n) = a \o b /\ Len(b) = 2 + w /\ w \in Nat
    BY <1>1, <1>2, <1>3, <1>4
<1> HIDE DEF a, b, w
<1>7. Len(a \o b) = Len(a) + 2 + w
  <2>1. Len(a \o b) = Len(a) + Len(b)
      BY <1>6, ConcatProperties
  <2> QED
      BY <1>5, <1>6, <2>1
<1>8. \A k \in 1 .. Len(a) : (a \o b)[k] = a[k]
    BY <1>5, <1>6, ConcatProperties
<1>9. \A k \in 1 .. 2 + w : (a \o b)[Len(a) + k] = b[k]
    BY <1>5, <1>6, ConcatProperties
<1>10. End(l, n - 1) = Len(a) /\ End(l, n) = Len(a \o b)
    BY <1>6 DEF End, a
<1> QED
    BY <1>5, <1>6, <1>7, <1>8, <1>9, <1>10 DEF a, b, w

\* What the first n elements are is not changed by what follows.
LEMMA SentGrows ==
  ASSUME NEW l \in Seq(Element), NEW n \in 0 .. Len(l)
  PROVE  \A m \in n .. Len(l) :
           /\ m > n => End(l, n) + 2 <= End(l, m)
           /\ End(l, n) <= End(l, m)
           /\ \A k \in 1 .. End(l, n) : Sent(l, m)[k] = Sent(l, n)[k]
<1> DEFINE P(m) == /\ m > n => End(l, n) + 2 <= End(l, m)
                   /\ End(l, n) <= End(l, m)
                   /\ \A k \in 1 .. End(l, n) : Sent(l, m)[k] = Sent(l, n)[k]
           T    == {d \in Nat : n + d <= Len(l) => P(n + d)}
<1>0. \A m \in 0 .. Len(l) : End(l, m) \in Nat
    BY SentType DEF End
<1>1. 0 \in T
  <2>1. n + 0 = n
      OBVIOUS
  <2> QED
      BY <1>0, <2>1
<1>2. ASSUME NEW d \in Nat, d \in T
      PROVE  d + 1 \in T
  <2> SUFFICES ASSUME n + (d + 1) <= Len(l)
               PROVE  P(n + (d + 1))
      OBVIOUS
  <2> DEFINE m == n + d
  <2>1. m + 1 \in 1 .. Len(l) /\ (m + 1) - 1 = m /\ m \in 0 .. Len(l) /\ n + (d + 1) = m + 1
      OBVIOUS
  <2>2. P(m)
      BY <1>2, <2>1
  <2>3. /\ End(l, m + 1) = End(l, m) + 2 + Len(l[m + 1].val)
        /\ \A k \in 1 .. End(l, m) : Sent(l, m + 1)[k] = Sent(l, m)[k]
      BY <2>1, SentLast
  <2>4. Len(l[m + 1].val) \in Nat
      BY <2>1 DEF Element
  <2> HIDE DEF m
  <2>5. P(m + 1)
    <3>1. End(l, n) + 2 <= End(l, m + 1) /\ End(l, n) <= End(l, m)
        BY <1>0, <2>1, <2>2, <2>3, <2>4
    <3> QED
        BY <1>0, <2>1, <2>2, <2>3, <3>1
  <2> QED
      BY <2>1, <2>5
<1> HIDE DEF T, P
<1>3. Nat \subseteq T
    BY <1>1, <1>2, NatSets
<1>4. ASSUME NEW m \in n .. Len(l)
      PROVE  P(m)
  <2>1. PICK d \in Nat : m = n + d
    <3>1. m - n \in Nat /\ m = n + (m - n)
        OBVIOUS
    <3> QED
        BY <3>1
  <2>2. n + d <= Len(l) => P(n + d)
      BY <1>3 DEF T
  <2> QED
      BY <2>1, <2>2 DEF P
<1> QED
    BY <1>4 DEF P

\* The whole list.
LEMMA SentAll ==
  ASSUME NEW l \in Seq(Element)
  PROVE  Sent(l, Len(l)) = Octets(l) /\ End(l, Len(l)) = Len(Octets(l))
  BY SubSeqFull DEF Sent, End

\* Every element of the list is found at its place in the octets sent.
LEMMA SentAt ==
  ASSUME NEW l \in Seq(Element), NEW n \in 1 .. Len(l)
  PROVE  LET p == End(l, n - 1)
             v == l[n].val
         IN  /\ p \in Nat /\ End(l, n) = p + 2 + Len(v) /\ End(l, n) <= Len(Octets(l))
             /\ Octets(l)[p + 1] = l[n].id
             /\ Octets(l)[p + 2] = Len(v)
             /\ \A k \in 1 .. Len(v) : Octets(l)[p + 2 + k] = v[k]
<1> DEFINE p == End(l, n - 1)
           v == l[n].val
<1>0. l[n] \in Element
    OBVIOUS
<1>1. Len(v) \in Nat
    BY <1>0 DEF Element
<1>2. p \in Nat /\ End(l, n) = p + 2 + Len(v)
    BY SentLast
<1>3. /\ End(l, n) <= Len(Octets(l))
      /\ \A k \in 1 .. End(l, n) : Octets(l)[k] = Sent(l, n)[k]
  <2>1. n \in 0 .. Len(l) /\ Len(l) \in n .. Len(l)
      OBVIOUS
  <2> QED
      BY <2>1, SentGrows, SentAll
<1>4. \A k \in 1 .. 2 + Len(v) : Octets(l)[p + k] = Encode(l[n])[k]
  <2> SUFFICES ASSUME NEW k \in 1 .. 2 + Len(v)
               PROVE  Octets(l)[p + k] = Encode(l[n])[k]
      OBVIOUS
  <2>1. Sent(l, n)[p + k] = Encode(l[n])[k]
      BY SentLast
  <2>2. p + k \in 1 .. End(l, n)
      BY <1>1, <1>2
  <2> QED
      BY <1>3, <2>1, <2>2
<1>5. ASSUME NEW k \in 1 .. Len(v)
      PROVE  Octets(l)[p + 2 + k] = v[k]
  <2>1. p + (2 + k) = p + 2 + k /\ 2 + k \in 1 .. 2 + Len(v)
      BY <1>1, <1>2
  <2> QED
      BY <1>0, <1>4, <2>1, EncodeIs
<1>6. Octets(l)[p + 1] = l[n].id /\ Octets(l)[p + 2] = Len(v)
  <2>1. 1 \in 1 .. 2 + Len(v) /\ 2 \in 1 .. 2 + Len(v)
      BY <1>1
  <2> QED
      BY <1>0, <1>4, <2>1, EncodeIs
<1> QED
    BY <1>2, <1>3, <1>5, <1>6

-----------------------------------------------------------------------------
(* The names taken over.                                                   *)

\* The names stored after each of the first n elements.
Names(f, l, o, n) ==
  f = [k \in 0 .. n |->
         IF k = 0 THEN o
         ELSE IF l[k].id = 0 THEN Renamed(f[k - 1], l[k].val) ELSE f[k - 1]]

\* They exist.
LEMMA NamesExist ==
  ASSUME NEW l, NEW o
  PROVE  \A n \in Nat : \E f : Names(f, l, o, n)
<1> DEFINE T == {n \in Nat : \E f : Names(f, l, o, n)}
<1>1. 0 \in T
  <2>1. Names([k \in 0 .. 0 |-> o], l, o, 0)
      BY DEF Names
  <2> QED
      BY <2>1
<1>2. ASSUME NEW n \in Nat, n \in T
      PROVE  n + 1 \in T
  <2>1. PICK f : Names(f, l, o, n)
      BY <1>2
  <2> DEFINE last == IF l[n + 1].id = 0 THEN Renamed(f[n], l[n + 1].val) ELSE f[n]
             g    == [k \in 0 .. n + 1 |-> IF k = n + 1 THEN last ELSE f[k]]
  <2>2. ASSUME NEW k \in 0 .. n + 1
        PROVE  g[k] = IF k = 0 THEN o
                      ELSE IF l[k].id = 0 THEN Renamed(g[k - 1], l[k].val) ELSE g[k - 1]
    <3>1. CASE k = n + 1
      <4>1. k # 0 /\ k - 1 = n /\ g[n] = f[n] /\ g[k] = last
          BY <3>1
      <4> HIDE DEF g
      <4> QED
          BY <3>1, <4>1
    <3>2. CASE k \in 0 .. n
      <4>1. f[k] = IF k = 0 THEN o
                   ELSE IF l[k].id = 0 THEN Renamed(f[k - 1], l[k].val) ELSE f[k - 1]
          BY <2>1, <3>2 DEF Names
      <4>2. g[k] = f[k] /\ (k # 0 => g[k - 1] = f[k - 1])
          BY <3>2
      <4> HIDE DEF g
      <4> QED
          BY <4>1, <4>2
    <3> QED
        BY <3>1, <3>2
  <2>3. Names(g, l, o, n + 1)
    <3>1. g = [k \in 0 .. n + 1 |-> g[k]]
        OBVIOUS
    <3> HIDE DEF g
    <3> QED
        BY <2>2, <3>1 DEF Names
  <2> QED
      BY <2>3
<1> HIDE DEF T
<1>3. Nat \subseteq T
    BY <1>1, <1>2, NatSets
<1> QED
    BY <1>3 DEF T

\* What each element does to the name stored.
LEMMA NameSteps ==
  ASSUME NEW l, NEW o, Len(l) \in Nat
  PROVE  /\ NameAfter(l, o, 0) = o
         /\ \A n \in 1 .. Len(l) :
              NameAfter(l, o, n) =
                IF l[n].id = 0 THEN Renamed(NameAfter(l, o, n - 1), l[n].val)
                               ELSE NameAfter(l, o, n - 1)
<1> DEFINE F == CHOOSE f : Names(f, l, o, Len(l))
<1>1. Names(F, l, o, Len(l))
    BY NamesExist
<1>2. \A n : NameAfter(l, o, n) = F[n]
    BY DEF NameAfter, Names
<1> HIDE DEF F
<1>3. F[0] = o
  <2>1. 0 \in 0 .. Len(l)
      OBVIOUS
  <2> QED
      BY <1>1, <2>1 DEF Names
<1>4. ASSUME NEW n \in 1 .. Len(l)
      PROVE  F[n] = IF l[n].id = 0 THEN Renamed(F[n - 1], l[n].val) ELSE F[n - 1]
  <2>1. n \in 0 .. Len(l) /\ n # 0
      OBVIOUS
  <2> QED
      BY <1>1, <2>1 DEF Names
<1> QED
    BY <1>2, <1>3, <1>4

\* Elements without a name leave the name alone.
LEMMA NameStays ==
  ASSUME NEW l, NEW o, Len(l) \in Nat, NEW n \in 0 .. Len(l),
         \A m \in n + 1 .. Len(l) : l[m].id # 0
  PROVE  NameAfter(l, o, Len(l)) = NameAfter(l, o, n)
<1> DEFINE T == {d \in Nat : n + d <= Len(l) => NameAfter(l, o, n + d) = NameAfter(l, o, n)}
<1>1. 0 \in T
  <2>1. n + 0 = n
      OBVIOUS
  <2> QED
      BY <2>1
<1>2. ASSUME NEW d \in Nat, d \in T
      PROVE  d + 1 \in T
  <2> SUFFICES ASSUME n + (d + 1) <= Len(l)
               PROVE  NameAfter(l, o, n + (d + 1)) = NameAfter(l, o, n)
      OBVIOUS
  <2>1. /\ n + (d + 1) \in n + 1 .. Len(l) /\ n + (d + 1) \in 1 .. Len(l)
        /\ (n + (d + 1)) - 1 = n + d
      OBVIOUS
  <2>2. NameAfter(l, o, n + d) = NameAfter(l, o, n)
      BY <1>2
  <2>3. l[n + (d + 1)].id # 0
      BY <2>1
  <2> DEFINE m == n + (d + 1)
  <2>4. m \in 1 .. Len(l) /\ m - 1 = n + d /\ l[m].id # 0
      BY <2>1, <2>3
  <2> HIDE DEF m
  <2>5. NameAfter(l, o, m) = NameAfter(l, o, m - 1)
      BY <2>4, NameSteps
  <2> QED
      BY <2>2, <2>4, <2>5 DEF m
<1> HIDE DEF T
<1>3. Nat \subseteq T
    BY <1>1, <1>2, NatSets
<1>4. Len(l) - n \in Nat /\ n + (Len(l) - n) = Len(l)
    OBVIOUS
<1>5. Len(l) - n \in T
    BY <1>3, <1>4
<1> QED
    BY <1>4, <1>5 DEF T

-----------------------------------------------------------------------------
(* The steps.                                                              *)

\* Beacons and probe responses have twelve octets of fixed parameters.
LEMMA FixedIs ==
  ASSUME frame_st \in {M_BEACON, M_PROBE_RESPONSE}
  PROVE  mgmt_fixed_params(frame_st) = 12
  BY DEF mgmt_fixed_params, M_BEACON, M_PROBE_RESPONSE, M_TIMING_ADVERTISEMENT,
         M_ACTION, M_ACTION_NOACK, M_DISASSOCIATION, M_DEAUTHENTICATION,
         M_ASSOCIATION_REQUEST, M_AUTHENTICATION, M_ASSOCIATION_RESPONSE,
         M_REASSOCIATION_REQUEST, M_REASSOCIATION_RESPONSE

\* What is sent is a sequence of numbers.
LEMMA OctetsType ==
  ASSUME NEW l \in Seq(Element)
  PROVE  Octets(l) \in Seq(Nat) /\ Len(Octets(l)) \in Nat
<1>1. Len(l) \in 0 .. Len(l)
    OBVIOUS
<1>2. Octets(l) \in Seq(Nat)
    BY <1>1, SentType, SentAll
<1> QED
    BY <1>2

\* The remainder of a length is at most the length.
LEMMA LengthWraps ==
  ASSUME NEW n \in Nat
  PROVE  n % U8 \in 0 .. n
<1>1. U8 \in Nat \ {0}
    BY IeAssumption
<1>2. CASE n < U8
    BY <1>1, <1>2
<1>3. CASE n >= U8
  <2>1. n % U8 \in 0 .. U8 - 1
      BY <1>1
  <2> QED
      BY <1>1, <1>3, <2>1
<1> QED
    BY <1>1, <1>2, <1>3

\* The invariant holds of what arrives.
LEMMA IeInitInv ==
  IeInit => IeInv
<1> SUFFICES ASSUME IeInit
             PROVE  IeInv
    OBVIOUS
<1>1. list \in Seq(Element) /\ frame_st \in {M_BEACON, M_PROBE_RESPONSE}
    BY IeAssumption DEF IeInit
<1> DEFINE O == Octets(list)
           Z == [n \in 1 .. 12 |-> 0]
<1>2. O \in Seq(Nat) /\ Len(O) \in Nat
    BY <1>1, OctetsType
<1>3. PICK cut \in Nat : body = Z \o Prefix(O, cut)
  <2>1. Cuts \subseteq Nat
      BY IeAssumption
  <2> QED
      BY <1>1, <2>1, FixedIs DEF IeInit
<1> DEFINE P == Prefix(O, cut)
<1> HIDE DEF O
<1>4. /\ P \in Seq(Nat) /\ Len(P) \in Nat /\ Len(P) <= Len(O)
      /\ \A k \in 1 .. Len(P) : P[k] = O[k]
  <2>1. \A k \in 1 .. Len(O) - cut : O[k] \in Nat
      BY <1>2
  <2>2. Len(O) - cut \in Int
      BY <1>2
  <2>3. /\ P \in Seq(Nat)
        /\ Len(P) = IF 1 <= Len(O) - cut THEN Len(O) - cut ELSE 0
        /\ \A k \in 1 .. Len(O) - cut : P[k] = O[k]
      BY <1>2, <2>1, <2>2, SubSeqProperties DEF Prefix
  <2> HIDE DEF P
  <2> QED
      BY <1>2, <2>3
<1>5. Z \in Seq(Nat) /\ Len(Z) = 12
    OBVIOUS
<1> HIDE DEF P, Z
<1>6. body = Z \o P
    BY <1>3 DEF P
<1>7. /\ body \in Seq(Nat) /\ Len(body) = 12 + Len(P)
      /\ \A k \in 13 .. 12 + Len(P) : body[k] = P[k - 12]
  <2>1. /\ body \in Seq(Nat) /\ Len(body) = Len(Z) + Len(P)
        /\ \A k \in 1 .. Len(Z) + Len(P) :
             body[k] = IF k <= Len(Z) THEN Z[k] ELSE P[k - Len(Z)]
      BY <1>4, <1>5, <1>6, ConcatProperties
  <2> QED
      BY <1>4, <1>5, <2>1
<1>8. StartOf(body, mgmt_fixed_params(frame_st))
  <2>1. Len(body) - 12 <= Len(O)
      BY <1>2, <1>4, <1>7
  <2>2. \A k \in 12 + 1 .. Len(body) : body[k] = O[k - 12]
      BY <1>4, <1>7
  <2>3. mgmt_fixed_params(frame_st) = 12
      BY <1>1, FixedIs
  <2> QED
      BY <2>1, <2>2, <2>3 DEF StartOf, O
<1>9. StartOf(ies, 0)
  <2>1. ies = <<>> /\ Len(ies) = 0
      BY DEF IeInit
  <2> QED
      BY <1>2, <2>1 DEF StartOf, O
<1>10. IeTypeOK
    BY <1>1, <1>7, IeAssumption DEF IeInit, IeTypeOK
<1> QED
    BY <1>8, <1>9, <1>10 DEF IeInit, IeInv, NULL, NameIsTheOneSent

\* An element whose octets are behind the block is not an SSID element, if
\* those arrived.
LEMMA RestIsNameless ==
  ASSUME IeTypeOK, SsidsArrived, NEW n \in 0 .. Len(list), Len(ies) <= End(list, n)
  PROVE  \A m \in n + 1 .. Len(list) : list[m].id # 0
<1> SUFFICES ASSUME NEW m \in n + 1 .. Len(list), list[m].id = 0
             PROVE  FALSE
    OBVIOUS
<1>1. list \in Seq(Element) /\ Len(ies) \in Nat
    BY DEF IeTypeOK
<1>2. m \in DOMAIN list /\ m \in n .. Len(list) /\ m > n
    BY <1>1
<1>3. End(list, m) <= Len(ies)
    BY <1>2 DEF SsidsArrived, EndOf, End, Sent
<1>4. End(list, n) + 2 <= End(list, m)
    BY <1>1, <1>2, SentGrows
<1>5. End(list, n) \in Nat /\ End(list, m) \in Nat
  <2>1. n \in 0 .. Len(list) /\ m \in 0 .. Len(list)
      BY <1>1, <1>2
  <2> QED
      BY <1>1, <2>1, SentType DEF End
<1> QED
    BY <1>1, <1>3, <1>4, <1>5

\* Nothing is left behind the elements that the block holds.
LEMMA NameIsComplete ==
  ASSUME IeTypeOK, SsidsArrived, NEW n \in 0 .. Len(list), Len(ies) <= End(list, n)
  PROVE  NameAfter(list, old, Len(list)) = NameAfter(list, old, n)
<1>1. Len(list) \in Nat
    BY DEF IeTypeOK
<1>2. \A m \in n + 1 .. Len(list) : list[m].id # 0
    BY RestIsNameless
<1> QED
    BY <1>1, <1>2, NameStays

\* Creating the iterator keeps the invariant, whether or not anything is left
\* of the length after its eight bits.
LEMMA CreateInv ==
  ASSUME IeInv, ie_iter
  PROVE  IeInv'
<1>0. /\ UNCHANGED <<frame_st, list, body, old, ssid, cur, cur_id, cur_len>>
      /\ pc = "start" /\ ies = <<>> /\ cur = NULL /\ ssid = old /\ IeTypeOK
    BY DEF ie_iter, sentVars, IeInv
<1>1. /\ list \in Seq(Element) /\ body \in Seq(Nat) /\ Len(body) \in Nat
      /\ mgmt_fixed_params(frame_st) = 12
    BY <1>0, FixedIs DEF IeTypeOK
<1>2. StartOf(body, 12) /\ StartOf(body, mgmt_fixed_params(frame_st))'
    BY <1>0, <1>1 DEF IeInv, StartOf
<1> DEFINE wrapped == Len(body) % U8
<1>3. wrapped \in 0 .. Len(body)
    BY <1>1, LengthWraps
<1> HIDE DEF wrapped
<1>4. CASE wrapped - 12 <= 0
  <2>1. pc' = "done" /\ UNCHANGED ies
      BY <1>1, <1>3, <1>4 DEF ie_iter, wrapped
  <2>2. ASSUME SsidsArrived
        PROVE  old = NameAfter(list, old, Len(list))
    <3>1. 0 \in 0 .. Len(list) /\ Len(list) \in Nat /\ Len(ies) = 0
        BY <1>0, <1>1
    <3>2. Len(ies) <= End(list, 0)
        BY <1>1, <3>1, SentStep DEF End
    <3> QED
        BY <1>0, <2>2, <3>1, <3>2, NameIsComplete, NameSteps
  <2>3. NameIsTheOneSent'
      BY <1>0, <2>1, <2>2 DEF NameIsTheOneSent, SsidsArrived, EndOf
  <2>4. IeTypeOK' /\ StartOf(ies, 0)'
      BY <1>0, <2>1 DEF IeTypeOK, IeInv, StartOf
  <2> QED
      BY <1>0, <1>2, <2>1, <2>3, <2>4 DEF IeInv
<1>5. CASE wrapped - 12 > 0
  <2>1. pc' = "next" /\ ies' = SubSeq(body, 12 + 1, 12 + (wrapped - 12))
      BY <1>1, <1>3, <1>5 DEF ie_iter, wrapped
  <2>2. ies' = SubSeq(body, 13, wrapped)
      BY <1>3, <2>1
  <2>3. /\ ies' \in Seq(Nat) /\ Len(ies') = wrapped - 12
        /\ \A k \in 1 .. wrapped - 12 : ies'[k] = body[k + 12]
    <3>1. \A k \in 13 .. wrapped : body[k] \in Nat
        BY <1>1, <1>3
    <3>2. /\ ies' \in Seq(Nat)
          /\ Len(ies') = IF 13 <= wrapped THEN wrapped - 13 + 1 ELSE 0
          /\ \A k \in 1 .. wrapped - 13 + 1 : ies'[k] = body[13 + k - 1]
        BY <1>3, <2>2, <3>1, SubSeqProperties
    <3> QED
        BY <1>3, <1>5, <3>2
  <2>4. StartOf(ies, 0)'
    <3>1. Len(Octets(list)) \in Nat
        BY <1>1, OctetsType
    <3>2. Len(body) - 12 <= Len(Octets(list))
        BY <1>2 DEF StartOf
    <3>3. \A k \in 1 .. wrapped - 12 : ies'[k] = Octets(list)[k]
      <4> SUFFICES ASSUME NEW k \in 1 .. wrapped - 12
                   PROVE  ies'[k] = Octets(list)[k]
          OBVIOUS
      <4>1. k + 12 \in 12 + 1 .. Len(body) /\ (k + 12) - 12 = k
          BY <1>1, <1>3
      <4>2. body[k + 12] = Octets(list)[(k + 12) - 12]
          BY <1>2, <4>1 DEF StartOf
      <4> QED
          BY <2>3, <4>1, <4>2
    <3>4. Len(ies') - 0 <= Len(Octets(list))
        BY <1>1, <1>3, <2>3, <3>1, <3>2
    <3>5. \A k \in 0 + 1 .. Len(ies') : ies'[k] = Octets(list)[k - 0]
        BY <1>3, <2>3, <3>3
    <3> QED
        BY <1>0, <3>4, <3>5 DEF StartOf
  <2>5. IeTypeOK'
      BY <1>0, <2>1, <2>3 DEF IeTypeOK
  <2> QED
      BY <1>0, <1>2, <2>1, <2>4, <2>5 DEF IeInv, NameIsTheOneSent
<1> QED
    BY <1>1, <1>3, <1>4, <1>5

\* Entering the n-th element at its place keeps the invariant.
LEMMA EnterInv ==
  ASSUME IeInv, UNCHANGED <<sentVars, ssid, ies>>,
         NEW n \in 1 .. Len(list), End(list, n - 1) < Len(ies),
         EnterElement(End(list, n - 1)),
         SsidsArrived => ssid = NameAfter(list, old, n - 1)
  PROVE  IeInv'
<1> DEFINE p == End(list, n - 1)
           O == Octets(list)
<1>0. /\ UNCHANGED <<frame_st, list, body, old, ssid, ies>>
      /\ list \in Seq(Element) /\ ies \in Seq(Nat) /\ Len(ies) \in Nat
    BY DEF sentVars, IeInv, IeTypeOK
<1>1. /\ p \in Nat /\ End(list, n) = p + 2 + Len(list[n].val)
      /\ O[p + 1] = list[n].id /\ O[p + 2] = Len(list[n].val)
    BY <1>0, SentAt
<1>2. \A k \in 1 .. Len(ies) : ies[k] = O[k]
    BY <1>0 DEF IeInv, StartOf
<1>3. pc' = "element" /\ cur' = p + 2 /\ cur_id' \in At(p) /\ cur_len' \in At(p + 1)
    BY DEF EnterElement
<1> HIDE DEF p, O
<1>4. p < Len(ies)
    BY DEF p
<1>5. cur_id' = list[n].id
  <2>1. p + 1 \in 1 .. Len(ies)
      BY <1>0, <1>1, <1>4
  <2> QED
      BY <1>1, <1>2, <1>3, <1>4, <2>1 DEF At
<1>6. cur_len' \in Nat /\ (p + 1 < Len(ies) => cur_len' = Len(list[n].val))
  <2>1. CASE p + 1 < Len(ies)
    <3>1. p + 2 \in 1 .. Len(ies) /\ (p + 1) + 1 = p + 2
        BY <1>0, <1>1, <2>1
    <3>2. cur_len' = ies[p + 2]
        BY <1>3, <2>1, <3>1 DEF At
    <3> QED
        BY <1>0, <1>1, <1>2, <3>1, <3>2
  <2>2. CASE ~(p + 1 < Len(ies))
    <3>1. Char \subseteq Nat
        BY IeAssumption
    <3> QED
        BY <1>3, <2>2, <3>1 DEF At
  <2> QED
      BY <2>1, <2>2
<1>7. SsidsArrived' <=> SsidsArrived
    BY <1>0 DEF SsidsArrived, EndOf
<1>8. InElement(n)'
    BY <1>0, <1>3, <1>4, <1>5, <1>6, <1>7 DEF InElement, p
<1>9. IeTypeOK'
    BY <1>0, <1>3, <1>6 DEF IeInv, IeTypeOK
<1>10. cur' # NULL
    BY <1>1, <1>3 DEF NULL
<1>11. StartOf(body, mgmt_fixed_params(frame_st))' /\ StartOf(ies, 0)'
    BY <1>0 DEF IeInv, StartOf
<1>12. n \in 1 .. Len(list')
    BY <1>0
<1> QED
    BY <1>3, <1>8, <1>9, <1>10, <1>11, <1>12 DEF IeInv, NameIsTheOneSent

\* Ending the walk keeps the invariant, if all names have been taken over.
LEMMA EndsInv ==
  ASSUME IeInv, UNCHANGED <<sentVars, ssid, ies>>, IterEnds,
         SsidsArrived => ssid = NameAfter(list, old, Len(list))
  PROVE  IeInv'
<1>0. /\ UNCHANGED <<frame_st, list, body, old, ssid, ies, cur, cur_id, cur_len>>
      /\ pc' = "done"
    BY DEF sentVars, IterEnds
<1>1. SsidsArrived' <=> SsidsArrived
    BY <1>0 DEF SsidsArrived, EndOf
<1>2. NameIsTheOneSent'
    BY <1>0, <1>1 DEF NameIsTheOneSent
<1>3. IeTypeOK'
    BY <1>0 DEF IeInv, IeTypeOK
<1>4. StartOf(body, mgmt_fixed_params(frame_st))' /\ StartOf(ies, 0)'
    BY <1>0 DEF IeInv, StartOf
<1> QED
    BY <1>0, <1>2, <1>3, <1>4 DEF IeInv

\* The first call of ie_iter_next keeps the invariant.  A block of two octets
\* is taken for an empty one: it could only hold an element without a value,
\* and an SSID element without a value changes no name.
LEMMA FirstInv ==
  ASSUME IeInv, NextFirst
  PROVE  IeInv'
<1>0. /\ UNCHANGED <<sentVars, ssid, ies>>
      /\ list \in Seq(Element) /\ Len(list) \in Nat /\ Len(ies) \in Nat
      /\ ssid = old /\ Len(old) \in Nat
    BY DEF NextFirst, IeInv, IeTypeOK
<1>1. End(list, 0) = 0 /\ NameAfter(list, old, 0) = old
    BY <1>0, SentStep, NameSteps DEF End
<1>2. CASE Len(ies) <= 2 /\ IterEnds
  <2>1. CASE Len(list) = 0
      BY <1>0, <1>1, <1>2, <2>1, EndsInv
  <2>2. CASE Len(list) # 0
    <3>1. SUFFICES ASSUME SsidsArrived
                   PROVE  old = NameAfter(list, old, Len(list))
        BY <1>0, <1>2, EndsInv
    <3>2. 1 \in 1 .. Len(list) /\ 1 \in 0 .. Len(list) /\ 1 - 1 = 0
        BY <1>0, <2>2
    <3> DEFINE v == list[1].val
    <3>3. End(list, 1) = 2 + Len(v) /\ Len(v) \in Nat
      <4>1. list[1] \in Element
          BY <1>0, <3>2
      <4>2. Len(v) \in Nat
          BY <4>1 DEF Element
      <4>3. End(list, 1) = End(list, 1 - 1) + 2 + Len(v)
          BY <1>0, <3>2, SentLast
      <4> QED
          BY <1>1, <3>2, <4>2, <4>3
    <3>4. NameAfter(list, old, Len(list)) = NameAfter(list, old, 1)
      <4>1. IeTypeOK /\ Len(ies) <= End(list, 1)
          BY <1>0, <1>2, <3>3 DEF IeInv
      <4> QED
          BY <3>1, <3>2, <4>1, NameIsComplete
    <3>5. NameAfter(list, old, 1) = IF list[1].id = 0 THEN Renamed(old, v) ELSE old
        BY <1>0, <1>1, <3>2, NameSteps
    <3>6. list[1].id = 0 => Renamed(old, v) = old
      <4> SUFFICES ASSUME list[1].id = 0
                   PROVE  Renamed(old, v) = old
          OBVIOUS
      <4>1. End(list, 1) <= Len(ies)
          BY <1>0, <3>1, <3>2 DEF SsidsArrived, EndOf, End, Sent
      <4>2. Len(v) = 0
          BY <1>0, <1>2, <3>3, <4>1
      <4> HIDE DEF v
      <4>3. Matches(v, old)
          BY <1>0, <4>2 DEF Matches
      <4> QED
          BY <4>3 DEF Renamed
    <3> QED
        BY <3>4, <3>5, <3>6
  <2> QED
      BY <2>1, <2>2
<1>3. CASE Len(ies) > 2 /\ EnterElement(0)
  <2>1. Len(list) # 0
    <3>1. Len(ies) <= Len(Octets(list)) /\ Len(Octets(list)) \in Nat
        BY <1>0, OctetsType DEF IeInv, StartOf
    <3>2. End(list, Len(list)) = Len(Octets(list))
        BY <1>0, SentAll
    <3> QED
        BY <1>0, <1>1, <1>3, <3>1, <3>2
  <2>2. 1 \in 1 .. Len(list) /\ 1 - 1 = 0
      BY <1>0, <2>1
  <2>3. /\ End(list, 1 - 1) < Len(ies) /\ EnterElement(End(list, 1 - 1))
        /\ ssid = NameAfter(list, old, 1 - 1)
      BY <1>0, <1>1, <1>3, <2>2
  <2> QED
      BY <1>0, <2>2, <2>3, EnterInv
<1> QED
    BY <1>2, <1>3 DEF NextFirst

\* So do the calls that follow: the walk goes on at the next element, and ends
\* only where the block does.
LEMMA ElementInv ==
  ASSUME IeInv, NextElement
  PROVE  IeInv'
<1>0. /\ UNCHANGED <<sentVars, ssid, ies>> /\ pc = "next"
      /\ list \in Seq(Element) /\ Len(list) \in Nat /\ Len(ies) \in Nat /\ cur_len \in Nat
    BY DEF NextElement, IeInv, IeTypeOK
<1>1. PICK n \in 1 .. Len(list) : InElement(n)
    BY DEF NextElement, IeInv
<1> DEFINE e == End(list, n - 1)
           p == cur + cur_len
           w == Len(list[n].val)
<1>2. e \in Nat /\ End(list, n) = e + 2 + w /\ w \in Nat
  <2>1. list[n] \in Element
      BY <1>0
  <2>2. w \in Nat
      BY <2>1 DEF Element
  <2> QED
      BY <1>0, <2>2, SentLast
<1>3. /\ p = e + 2 + cur_len
      /\ e + 1 < Len(ies) => cur_len = w
      /\ SsidsArrived => ssid = NameAfter(list, old, n)
    BY <1>0, <1>1 DEF InElement
<1>4. \/ p >= Len(ies) /\ IterEnds
      \/ p < Len(ies) /\ EnterElement(p)
    BY DEF NextElement
<1> HIDE DEF e, p, w
<1>5. CASE p >= Len(ies) /\ IterEnds
  <2>1. Len(ies) <= End(list, n)
    <3>1. CASE e + 1 < Len(ies)
        BY <1>0, <1>2, <1>3, <1>5, <3>1
    <3>2. CASE ~(e + 1 < Len(ies))
        BY <1>0, <1>2, <3>2
    <3> QED
        BY <3>1, <3>2
  <2>2. SsidsArrived => ssid = NameAfter(list, old, Len(list))
    <3>1. n \in 0 .. Len(list) /\ IeTypeOK
        BY <1>0 DEF IeInv
    <3> QED
        BY <1>3, <2>1, <3>1, NameIsComplete
  <2> QED
      BY <1>0, <1>5, <2>2, EndsInv
<1>6. CASE p < Len(ies) /\ EnterElement(p)
  <2>1. p = End(list, n)
    <3>1. e + 1 < Len(ies)
        BY <1>0, <1>2, <1>3, <1>6
    <3> QED
        BY <1>2, <1>3, <3>1
  <2>2. n # Len(list)
    <3>1. Len(ies) <= Len(Octets(list)) /\ Len(Octets(list)) \in Nat
        BY <1>0, OctetsType DEF IeInv, StartOf
    <3>2. End(list, Len(list)) = Len(Octets(list))
        BY <1>0, SentAll
    <3> QED
        BY <1>0, <1>2, <1>6, <2>1, <3>1, <3>2
  <2>3. n + 1 \in 1 .. Len(list) /\ (n + 1) - 1 = n
      BY <1>0, <2>2
  <2> QED
      BY <1>0, <1>3, <1>6, <2>1, <2>3, EnterInv
<1> QED
    BY <1>4, <1>5, <1>6

\* Using an element keeps the invariant: of an SSID element that arrived, the
\* octets read are the name that was sent.
LEMMA UseInv ==
  ASSUME IeInv, UseElement
  PROVE  IeInv'
<1>0. /\ UNCHANGED <<frame_st, list, body, old, ies, cur, cur_id, cur_len>>
      /\ pc = "element" /\ pc' = "next" /\ cur # NULL
      /\ list \in Seq(Element) /\ Len(list) \in Nat /\ Len(ies) \in Nat /\ cur_len \in Nat
    BY DEF UseElement, sentVars, IeInv, IeTypeOK
<1>1. PICK n \in 1 .. Len(list) : InElement(n)
    BY <1>0 DEF IeInv
<1> DEFINE e == End(list, n - 1)
           v == list[n].val
           O == Octets(list)
<1>2. /\ cur = e + 2 /\ e < Len(ies) /\ cur_id = list[n].id
      /\ e + 1 < Len(ies) => cur_len = Len(v)
      /\ SsidsArrived => ssid = NameAfter(list, old, n - 1)
    BY <1>0, <1>1 DEF InElement
<1>3. /\ e \in Nat /\ End(list, n) = e + 2 + Len(v)
      /\ \A k \in 1 .. Len(v) : O[e + 2 + k] = v[k]
    BY <1>0, SentAt
<1>4. v \in Seq(Char) /\ Len(v) \in Nat
  <2>1. list[n] \in Element
      BY <1>0
  <2>2. v \in Seq(Char)
      BY <2>1 DEF Element
  <2> QED
      BY <2>2
<1>5. \A k \in 1 .. Len(ies) : ies[k] = O[k]
    BY <1>0 DEF IeInv, StartOf
<1>6. NameAfter(list, old, n) =
        IF list[n].id = 0 THEN Renamed(NameAfter(list, old, n - 1), v)
                          ELSE NameAfter(list, old, n - 1)
    BY <1>0, NameSteps
<1> HIDE DEF e, v, O
<1>7. SsidsArrived => ssid' = NameAfter(list, old, n)
  <2> SUFFICES ASSUME SsidsArrived
               PROVE  ssid' = NameAfter(list, old, n)
      OBVIOUS
  <2>1. CASE cur_id # 0
      BY <1>2, <1>6, <2>1 DEF UseElement
  <2>2. CASE cur_id = 0
    <3>1. PICK s \in [1 .. cur_len -> Char] :
            /\ \A k \in 1 .. cur_len : s[k] \in At(cur + k - 1)
            /\ ssid' = Renamed(ssid, s)
        BY <2>2 DEF UseElement
    <3>2. End(list, n) <= Len(ies)
      <4>1. n \in DOMAIN list /\ list[n].id = 0
          BY <1>0, <1>2, <2>2
      <4> QED
          BY <4>1 DEF SsidsArrived, EndOf, End, Sent
    <3>3. cur_len = Len(v)
        BY <1>0, <1>2, <1>3, <1>4, <3>2
    <3>4. \A k \in 1 .. Len(v) : s[k] = v[k]
      <4> SUFFICES ASSUME NEW k \in 1 .. Len(v)
                   PROVE  s[k] = v[k]
          OBVIOUS
      <4>1. /\ cur + k - 1 < Len(ies) /\ (cur + k - 1) + 1 = e + 2 + k
            /\ e + 2 + k \in 1 .. Len(ies)
          BY <1>0, <1>2, <1>3, <1>4, <3>2
      <4>2. s[k] = ies[e + 2 + k]
          BY <3>1, <3>3, <4>1 DEF At
      <4> QED
          BY <1>3, <1>5, <4>1, <4>2
    <3>5. s = v
      <4>1. s \in Seq(Char) /\ Len(s) = Len(v)
          BY <1>0, <3>3
      <4> QED
          BY <1>4, <3>4, <4>1, SeqEqual
    <3> QED
        BY <1>2, <1>6, <2>2, <3>1, <3>5
  <2> QED
      BY <2>1, <2>2
<1>8. SsidsArrived' <=> SsidsArrived
    BY <1>0 DEF SsidsArrived, EndOf
<1>9. InElement(n)'
    BY <1>0, <1>2, <1>7, <1>8 DEF InElement, e, v
<1>10. IeTypeOK'
    BY <1>0 DEF IeInv, IeTypeOK
<1>11. StartOf(body, mgmt_fixed_params(frame_st))' /\ StartOf(ies, 0)'
    BY <1>0 DEF IeInv, StartOf
<1>12. n \in 1 .. Len(list')
    BY <1>0
<1> QED
    BY <1>0, <1>9, <1>10, <1>11, <1>12 DEF IeInv, NameIsTheOneSent

\* Every step of the walk keeps the invariant.
LEMMA IeStepInv ==
  IeInv /\ [IeNext]_ieVars => IeInv'
<1> SUFFICES ASSUME IeInv, [IeNext]_ieVars
             PROVE  IeInv'
    OBVIOUS
<1>1. CASE IeNext
    BY <1>1, CreateInv, FirstInv, ElementInv, UseInv DEF IeNext
<1>2. CASE UNCHANGED ieVars
  <2>1. UNCHANGED <<frame_st, list, body, old, ssid, pc, ies, cur, cur_id, cur_len>>
      BY <1>2 DEF ieVars, sentVars
  <2>2. IeTypeOK'
      BY <2>1 DEF IeInv, IeTypeOK
  <2>3. StartOf(body, mgmt_fixed_params(frame_st))' /\ StartOf(ies, 0)'
      BY <2>1 DEF IeInv, StartOf
  <2>4. SsidsArrived' <=> SsidsArrived
      BY <2>1 DEF SsidsArrived, EndOf
  <2>5. \A n : InElement(n)' <=> InElement(n)
      BY <2>1, <2>4 DEF InElement
  <2>6. NameIsTheOneSent'
      BY <2>1, <2>4 DEF IeInv, NameIsTheOneSent
  <2> QED
      BY <2>1, <2>2, <2>3, <2>5, <2>6 DEF IeInv
<1> QED
    BY <1>1, <1>2

\* It holds throughout the walk.
LEMMA IeAlways ==
  IeSpec => []IeInv
  BY IeInitInv, IeStepInv, PTL DEF IeSpec

\* In an element, or between two, the walk is not further than one octet
\* behind the block.
LEMMA WalkIsNear ==
  ASSUME IeInv, cur # NULL, pc # "done"
  PROVE  cur \in Nat /\ cur <= Len(ies) + 1
<1>1. list \in Seq(Element) /\ Len(ies) \in Nat
    BY DEF IeInv, IeTypeOK
<1>2. PICK n \in 1 .. Len(list) : InElement(n)
    BY DEF IeInv
<1>3. End(list, n - 1) \in Nat
    BY <1>1, SentAt
<1>4. cur = End(list, n - 1) + 2 /\ End(list, n - 1) < Len(ies)
    BY <1>2 DEF InElement
<1> QED
    BY <1>1, <1>3, <1>4

\* A step of the walk leaves less before it.
LEMMA StepShrinks ==
  ASSUME IeInv, IeNext
  PROVE  Left' \in Nat /\ Left' < Left
<1>0. IeInv'
    BY CreateInv, FirstInv, ElementInv, UseInv DEF IeNext
<1>1. /\ Len(body) \in Nat /\ Len(ies) \in Nat /\ Len(ies') \in Nat /\ cur_len \in Nat
    BY <1>0 DEF IeInv, IeTypeOK
<1>2. cur # NULL /\ pc # "done" => cur \in Nat /\ cur <= Len(ies) + 1
    BY WalkIsNear
<1>3. cur' # NULL /\ pc' # "done" => cur' \in Nat /\ cur' <= Len(ies') + 1
  <2>1. (IeInv /\ cur # NULL /\ pc # "done" => cur \in Nat /\ cur <= Len(ies) + 1)'
      BY WalkIsNear, PTL
  <2> QED
      BY <1>0, <2>1
<1>4. CASE ie_iter
  <2>1. pc = "start" /\ pc' \in {"next", "done"}
      BY <1>4 DEF ie_iter
  <2>2. cur' = NULL
      BY <1>4, <2>1 DEF ie_iter, IeInv
  <2>3. Len(ies') <= Len(body)
    <3> DEFINE wrapped == Len(body) % U8
    <3>1. wrapped \in 0 .. Len(body) /\ mgmt_fixed_params(frame_st) = 12
        BY <1>1, LengthWraps, FixedIs DEF IeInv, IeTypeOK
    <3> HIDE DEF wrapped
    <3>2. CASE UNCHANGED ies
      <4>1. Len(ies) = 0
          BY <2>1 DEF IeInv
      <4> QED
          BY <1>1, <3>2, <4>1
    <3>3. CASE ies' = SubSeq(body, 12 + 1, 12 + (wrapped - 12)) /\ wrapped - 12 > 0
      <4>1. \A k \in 12 + 1 .. 12 + (wrapped - 12) : body[k] \in Nat
          BY <3>1 DEF IeInv, IeTypeOK
      <4>2. Len(ies') = (12 + (wrapped - 12)) - (12 + 1) + 1
          BY <3>1, <3>3, <4>1, SubSeqProperties
      <4> QED
          BY <1>1, <3>1, <4>2
    <3> QED
        BY <1>4, <3>1, <3>2, <3>3 DEF ie_iter, wrapped
  <2> QED
      BY <1>1, <2>1, <2>2, <2>3 DEF Left
<1>5. CASE NextFirst
    BY <1>1, <1>3, <1>5 DEF NextFirst, IterEnds, EnterElement, Left, NULL
<1>6. CASE NextElement
  <2>1. pc = "next" /\ cur # NULL /\ UNCHANGED <<ies>>
      BY <1>6 DEF NextElement
  <2>2. cur \in Nat /\ cur <= Len(ies) + 1
      BY <1>2, <2>1
  <2>3. Left = 2 * (Len(ies) + 2 - cur) + 1
      BY <2>1 DEF Left
  <2>4. CASE pc' = "done"
    <3>1. Left' = 0
        BY <2>4 DEF Left
    <3> QED
        BY <1>1, <2>2, <2>3, <3>1
  <2>5. CASE pc' = "element" /\ cur' = cur + cur_len + 2
    <3>1. cur' # NULL
        BY <1>1, <2>2, <2>5 DEF NULL
    <3>2. Left' = 2 * (Len(ies) + 2 - cur') + 2
        BY <2>1, <2>5, <3>1 DEF Left
    <3>3. cur' \in Nat /\ cur' <= Len(ies) + 1 /\ cur' >= cur + 2
        BY <1>1, <1>3, <2>1, <2>2, <2>5, <3>1
    <3> QED
        BY <1>1, <2>2, <2>3, <3>2, <3>3
  <2> QED
      BY <1>6, <2>4, <2>5 DEF NextElement, IterEnds, EnterElement
<1>7. CASE UseElement
    BY <1>0, <1>1, <1>2, <1>7 DEF UseElement, Left, IeInv, NULL
<1> QED
    BY <1>4, <1>5, <1>6, <1>7 DEF IeNext

-----------------------------------------------------------------------------
(* Theorems.                                                               *)

\* Whatever list of elements is sent and however much of its end is missing,
\* once the walk is over the name stored is what the SSID elements make of
\* the old one, in their order, provided that they arrived.
THEOREM WalkTakesNames ==
  IeSpec => []NameIsTheOneSent
<1>1. IeInv => NameIsTheOneSent
    BY DEF IeInv
<1> QED
    BY <1>1, IeAlways, PTL

\* In a list that arrived whole, no element is read beyond the block.
THEOREM WholeListStaysInside ==
  IeSpec => []WholeListReadInside
<1>1. IeInv => WholeListReadInside
  <2> SUFFICES ASSUME IeInv, pc = "element", Len(ies) = Len(Octets(list))
               PROVE  cur + cur_len <= Len(ies)
      BY DEF WholeListReadInside
  <2>1. list \in Seq(Element) /\ Len(ies) \in Nat /\ cur_len \in Nat /\ cur # NULL
      BY DEF IeInv, IeTypeOK
  <2>2. PICK n \in 1 .. Len(list) : InElement(n)
      BY <2>1 DEF IeInv
  <2> DEFINE e == End(list, n - 1)
             v == list[n].val
  <2>3. cur = e + 2 /\ (e + 1 < Len(ies) => cur_len = Len(v))
      BY <2>2 DEF InElement
  <2>4. e \in Nat /\ End(list, n) = e + 2 + Len(v) /\ End(list, n) <= Len(ies)
      BY <2>1, SentAt
  <2>5. Len(v) \in Nat
    <3>1. list[n] \in Element
        BY <2>1
    <3> QED
        BY <3>1 DEF Element
  <2> HIDE DEF e, v
  <2> QED
      BY <2>1, <2>3, <2>4, <2>5
<1> QED
    BY <1>1, IeAlways, PTL

\* Every step of the walk leaves less before it, whatever its octets are and
\* whatever is read behind them.
THEOREM WalkAdvances ==
  IeSpec => WalkShrinks
<1>1. IeInv /\ [IeNext]_ieVars => [Left' \in Nat /\ Left' < Left]_ieVars
    BY StepShrinks
<1> QED
    BY <1>1, IeAlways, PTL DEF IeSpec, WalkShrinks
=============================================================================
