------------------------------ MODULE LiveProofs ------------------------------
(***************************************************************************)
(* Theorems about LivePublication for any sections, commands, bounds and   *)
(* numbers of edits.  Whatever is lost, late or unsaved, the outbox is in  *)
(* order and nothing but the barrier is sent behind a barrier.  While      *)
(* nothing given up is served late and a restart finds what was shown      *)
(* saved (Calm), no result is forgotten on its way to the page, no section *)
(* of the page goes back, and a page said to be down is down.              *)
(***************************************************************************)
EXTENDS LivePublication, FiniteSetTheorems, WellFoundedInduction, TLAPS

-----------------------------------------------------------------------------
(* Numbers and sequences.                                                  *)

\* A set of numbers has a least one.
LEMMA Least ==
  ASSUME NEW T \in SUBSET Nat, T # {}
  PROVE  \E n \in T : \A m \in T : n <= m
<1> DEFINE R == {pair \in Nat \X Nat : pair[1] < pair[2]}
<1>1. IsWellFoundedOn(R, Nat)
  BY NatLessThanWellFounded DEF OpToRel
<1> HIDE DEF R
<1>2. \E n \in T : \A m \in T : <<m, n>> \notin R
  BY <1>1, WFMin
<1>3. \A m, n \in Nat : <<m, n>> \notin R => n <= m
  BY DEF R
<1> QED
  BY <1>2, <1>3

\* Numbers up to n, the first of which is in a set that each is in with the one before.
LEMMA UpTo ==
  ASSUME NEW n \in Nat, NEW S, 0 \in S, \A i \in 1..n : i - 1 \in S => i \in S
  PROVE  0..n \subseteq S
<1> SUFFICES ASSUME (0..n) \ S # {} PROVE FALSE
  OBVIOUS
<1> DEFINE T == (0..n) \ S
<1>1. T \in SUBSET Nat /\ T # {} /\ T \subseteq 0..n
  OBVIOUS
<1> HIDE DEF T
<1>2. PICK i \in T : \A j \in T : i <= j
  BY <1>1, Least
<1>3. i \in 1..n /\ i - 1 \in 0..n /\ i - 1 \notin T
  BY <1>1, <1>2 DEF T
<1> QED
  BY <1>2, <1>3 DEF T

\* Places of a sequence taken in rising order: the function of their numbers.
Rising(places, n, limit) ==
  /\ places \in [1..n -> 1..limit]
  /\ \A i, j \in 1..n : i < j => places[i] < places[j]

\* One place more, above those taken.
LEMMA RisingNext ==
  ASSUME NEW n \in Nat, NEW top \in Nat, NEW at, Rising(at, n, top - 1), top > 0
  PROVE  \E next : /\ Rising(next, n + 1, top) /\ next[n + 1] = top
                   /\ \A k \in 1..n : next[k] = at[k]
<1> DEFINE next == [k \in 1..(n + 1) |-> IF k = n + 1 THEN top ELSE at[k]]
<1>1. \A k \in 1..n : k \in 1..(n + 1) /\ k # n + 1 /\ at[k] \in 1..(top - 1)
  BY DEF Rising
<1>2. next[n + 1] = top /\ \A k \in 1..n : next[k] = at[k]
  BY <1>1
<1>3. next \in [1..(n + 1) -> 1..top]
  BY <1>1
<1>4. \A i, j \in 1..(n + 1) : i < j => i \in 1..n /\ (j \in 1..n \/ j = n + 1)
  OBVIOUS
<1> HIDE DEF next
<1>5. \A i, j \in 1..(n + 1) : i < j => next[i] < next[j]
  BY <1>1, <1>2, <1>4 DEF Rising
<1> QED
  BY <1>2, <1>3, <1>5 DEF Rising

\* The same places among more.
LEMMA RisingWider ==
  ASSUME NEW n \in Nat, NEW top \in Nat, NEW at, Rising(at, n, top - 1)
  PROVE  Rising(at, n, top)
BY DEF Rising

\* A sequence with another last element.
LEMMA LastReplaced ==
  ASSUME NEW S, NEW r \in Seq(S), r # <<>>, NEW x \in S
  PROVE  LET new == [r EXCEPT ![Len(r)] = x] IN
         /\ new \in Seq(S) /\ Len(new) = Len(r) /\ new[Len(r)] = x
         /\ \A k \in 1..Len(r) : k # Len(r) => new[k] = r[k]
OBVIOUS

-----------------------------------------------------------------------------
(* The items at some places (filter).                                      *)

\* Picking looks at one item after another.
LEMMA PickedInTurn ==
  ASSUME NEW S, NEW items \in Seq(S), NEW places
  PROVE  \E f : /\ f[0] = <<>> /\ Picked(items, places) = f[Len(items)]
                /\ \A n \in 1..Len(items) :
                     f[n] = IF n \in places THEN Append(f[n - 1], items[n]) ELSE f[n - 1]
<1> DEFINE Size == Len(items)
           Turn(g, n) == IF n \in places THEN Append(g, items[n]) ELSE g
           IsFold(f, n) == f = [i \in 0..n |-> IF i = 0 THEN <<>> ELSE Turn(f[i - 1], i)]
           fold == CHOOSE f : IsFold(f, Size)
           Defined == {n \in 0..Size : \E f : IsFold(f, n)}
<1>1. Size \in Nat
  OBVIOUS
<1>2. Picked(items, places) = fold[Size]
  BY DEF Picked
<1> HIDE DEF Turn
<1>3. 0..Size \subseteq Defined
  <2>1. 0 \in Defined
    <3>1. IsFold([i \in 0..0 |-> <<>>], 0)
      OBVIOUS
    <3> HIDE DEF IsFold
    <3> QED
      BY <1>1, <3>1
  <2>2. ASSUME NEW n \in 1..Size, n - 1 \in Defined PROVE n \in Defined
    <3>1. PICK f : IsFold(f, n - 1)
      BY <2>2
    <3> DEFINE g == [i \in 0..n |-> IF i = n THEN Turn(f[n - 1], n) ELSE f[i]]
    <3>2. \A i \in 0..n : g[i] = IF i = 0 THEN <<>> ELSE Turn(g[i - 1], i)
      BY <1>1, <3>1
    <3>3. g = [i \in 0..n |-> g[i]]
      OBVIOUS
    <3> HIDE DEF g
    <3>4. IsFold(g, n)
      BY <3>2, <3>3
    <3>5. n \in 0..Size
      BY <1>1
    <3> HIDE DEF IsFold
    <3> QED
      BY <3>4, <3>5
  <2> HIDE DEF Defined
  <2> QED
    BY <1>1, <2>1, <2>2, UpTo
<1>4. IsFold(fold, Size)
  <2>1. \E f : IsFold(f, Size)
    BY <1>1, <1>3
  <2> HIDE DEF IsFold
  <2> QED
    BY <2>1
<1> HIDE DEF fold, Size
<1>5. fold[0] = <<>> /\ \A n \in 1..Size : fold[n] = Turn(fold[n - 1], n)
  BY <1>1, <1>4
<1> QED
  BY <1>2, <1>5 DEF Size, Turn

\* What is picked are the items at the places, each once and in their order.
LEMMA PickedIs ==
  ASSUME NEW S, NEW items \in Seq(S), NEW places
  PROVE  /\ Picked(items, places) \in Seq(S)
         /\ \E at : /\ Rising(at, Len(Picked(items, places)), Len(items))
                    /\ \A k \in 1..Len(Picked(items, places)) :
                         at[k] \in places /\ Picked(items, places)[k] = items[at[k]]
                    /\ \A i \in places \cap (1..Len(items)) :
                         \E k \in 1..Len(Picked(items, places)) : at[k] = i
<1> DEFINE Size == Len(items)
           Fits(p, at, n) ==
             /\ p \in Seq(S) /\ Rising(at, Len(p), n)
             /\ \A k \in 1..Len(p) : at[k] \in places /\ p[k] = items[at[k]]
             /\ \A i \in places \cap (1..n) : \E k \in 1..Len(p) : at[k] = i
<1>1. PICK f : /\ f[0] = <<>> /\ Picked(items, places) = f[Size]
               /\ \A n \in 1..Size :
                     f[n] = IF n \in places THEN Append(f[n - 1], items[n]) ELSE f[n - 1]
  BY PickedInTurn
<1> DEFINE Covered == {n \in 0..Size : \E at : Fits(f[n], at, n)}
<1>2. Size \in Nat
  OBVIOUS
<1>3. 0..Size \subseteq Covered
  <2>1. 0 \in Covered
    <3>1. Fits(<<>>, [i \in 1..0 |-> 0], 0)
      BY DEF Rising
    <3> HIDE DEF Fits
    <3> QED
      BY <1>1, <1>2, <3>1
  <2>2. ASSUME NEW n \in 1..Size, n - 1 \in Covered PROVE n \in Covered
    <3>1. PICK at : Fits(f[n - 1], at, n - 1)
      BY <2>2
    <3>2. PICK p : p = f[n - 1]
      OBVIOUS
    <3>3. Fits(p, at, n - 1) /\ p \in Seq(S) /\ Len(p) \in Nat /\ items[n] \in S
      BY <1>2, <3>1, <3>2
    <3>4. n \in Nat /\ n > 0 /\ n \in 0..Size
      BY <1>2
    <3>5. \E new, next : new = f[n] /\ Fits(new, next, n)
      <4>1. CASE n \in places
        <5>1. PICK next : /\ Rising(next, Len(p) + 1, n) /\ next[Len(p) + 1] = n
                          /\ \A k \in 1..Len(p) : next[k] = at[k]
          BY <3>3, <3>4, RisingNext
        <5>2. PICK new : new = Append(p, items[n])
          OBVIOUS
        <5>3. /\ new \in Seq(S) /\ Len(new) = Len(p) + 1
              /\ \A k \in 1..Len(p) : new[k] = p[k]
              /\ new[Len(p) + 1] = items[n]
          BY <3>3, <5>2
        <5>4. \A k \in 1..Len(new) : k \in 1..Len(p) \/ k = Len(p) + 1
          BY <3>3, <5>3
        <5>5. \A k \in 1..Len(new) : next[k] \in places /\ new[k] = items[next[k]]
          BY <3>3, <4>1, <5>1, <5>3, <5>4
        <5>6. \A i \in places \cap (1..n) : \E k \in 1..Len(new) : next[k] = i
          <6>1. \A i \in 1..n : i = n \/ i \in 1..(n - 1)
            BY <3>4
          <6>2. Len(p) + 1 \in 1..Len(new) /\ \A k \in 1..Len(p) : k \in 1..Len(new)
            BY <3>3, <5>3
          <6> QED
            BY <3>3, <5>1, <6>1, <6>2
        <5>7. Fits(new, next, n)
          BY <5>1, <5>3, <5>5, <5>6
        <5> HIDE DEF Fits
        <5> QED
          BY <1>1, <3>2, <4>1, <5>2, <5>7
      <4>2. CASE n \notin places
        <5>1. f[n] = p
          BY <1>1, <3>2, <4>2
        <5>2. Rising(at, Len(p), n)
          BY <3>3, <3>4, RisingWider
        <5>3. Fits(p, at, n)
          BY <3>3, <4>2, <5>2
        <5> HIDE DEF Fits
        <5> QED
          BY <5>1, <5>3
      <4> QED
        BY <4>1, <4>2
    <3> HIDE DEF Fits
    <3> QED
      BY <3>4, <3>5
  <2> HIDE DEF Covered
  <2> QED
    BY <1>2, <2>1, <2>2, UpTo
<1>4. \E at : Fits(f[Size], at, Size)
  BY <1>2, <1>3
<1> QED
  BY <1>1, <1>4

-----------------------------------------------------------------------------
(* Consecutive updates of transient sections become one.                   *)

\* Coalescing looks at one item after another.
LEMMA CoalescedInTurn ==
  ASSUME NEW S, NEW items \in Seq(S)
  PROVE  \E f : /\ f[0] = <<>> /\ Coalesced(items) = f[Len(items)]
                /\ \A n \in 1..Len(items) : f[n] = Coalesce(f[n - 1], items[n])
<1> DEFINE Size == Len(items)
           IsFold(f, n) == f = [i \in 0..n |-> IF i = 0 THEN <<>>
                                               ELSE Coalesce(f[i - 1], items[i])]
           fold == CHOOSE f : IsFold(f, Size)
           Defined == {n \in 0..Size : \E f : IsFold(f, n)}
<1>1. Size \in Nat
  OBVIOUS
<1>2. Coalesced(items) = fold[Size]
  BY DEF Coalesced
<1>3. 0..Size \subseteq Defined
  <2>1. 0 \in Defined
    <3>1. IsFold([i \in 0..0 |-> <<>>], 0)
      OBVIOUS
    <3> HIDE DEF IsFold
    <3> QED
      BY <1>1, <3>1
  <2>2. ASSUME NEW n \in 1..Size, n - 1 \in Defined PROVE n \in Defined
    <3>1. PICK f : IsFold(f, n - 1)
      BY <2>2
    <3> DEFINE g == [i \in 0..n |-> IF i = n THEN Coalesce(f[n - 1], items[n]) ELSE f[i]]
    <3>2. \A i \in 0..n : g[i] = IF i = 0 THEN <<>> ELSE Coalesce(g[i - 1], items[i])
      BY <1>1, <3>1
    <3>3. g = [i \in 0..n |-> g[i]]
      OBVIOUS
    <3> HIDE DEF g
    <3>4. IsFold(g, n)
      BY <3>2, <3>3
    <3>5. n \in 0..Size
      BY <1>1
    <3> HIDE DEF IsFold
    <3> QED
      BY <3>4, <3>5
  <2> HIDE DEF Defined
  <2> QED
    BY <1>1, <2>1, <2>2, UpTo
<1>4. IsFold(fold, Size)
  <2>1. \E f : IsFold(f, Size)
    BY <1>1, <1>3
  <2> HIDE DEF IsFold
  <2> QED
    BY <2>1
<1> HIDE DEF fold, Size
<1>5. fold[0] = <<>> /\ \A n \in 1..Size : fold[n] = Coalesce(fold[n - 1], items[n])
  BY <1>1, <1>4
<1> QED
  BY <1>2, <1>5 DEF Size

\* An item under the id and the base of another.
Under(item, other) == [item EXCEPT !.id = other.id, !.base = other.base]

\* Each item of r is one of the first n of q, at src, under the id of the same or an
\* earlier one, at own; only updates of transient sections are given up.
Merges(r, q, n, src, own) ==
  /\ r \in Seq(Items) /\ Rising(src, Len(r), n) /\ Rising(own, Len(r), n)
  /\ \A k \in 1..Len(r) :
       /\ own[k] <= src[k] /\ r[k] = Under(q[src[k]], q[own[k]])
       /\ own[k] # src[k] => TransientOnly(q[own[k]]) /\ TransientOnly(q[src[k]])
  /\ \A i \in 1..n : TransientOnly(q[i]) \/ \E k \in 1..Len(r) : src[k] = i /\ own[k] = i

\* What an item under another id is.
LEMMA UnderIs ==
  ASSUME NEW item \in Items, NEW other \in Items
  PROVE  /\ Under(item, other) \in Items
         /\ Under(item, other).id = other.id /\ Under(item, other).base = other.base
         /\ Under(item, other).kind = item.kind /\ Under(item, other).state = item.state
         /\ Under(item, other).sections = item.sections /\ Under(item, other).final = item.final
         /\ Under(item, other).revision = item.revision
         /\ TransientOnly(Under(item, other)) <=> TransientOnly(item)
         /\ Under(item, item) = item
BY DEF Under, Items, TransientOnly

\* One item more, after those there are.
LEMMA MergesNext ==
  ASSUME NEW q \in Seq(Items), NEW n \in 1..Len(q), NEW r, NEW src, NEW own,
         Merges(r, q, n - 1, src, own)
  PROVE  \E src2, own2 : /\ Merges(Append(r, q[n]), q, n, src2, own2)
                         /\ src2[Len(r) + 1] = n
<1>0. Rising(src, Len(r), n - 1) /\ Rising(own, Len(r), n - 1)
  BY DEF Merges
<1>1. n \in Nat /\ n > 0 /\ q[n] \in Items /\ r \in Seq(Items) /\ Len(r) \in Nat
  BY DEF Merges
<1>2. PICK src2 : /\ Rising(src2, Len(r) + 1, n) /\ src2[Len(r) + 1] = n
                  /\ \A k \in 1..Len(r) : src2[k] = src[k]
  <2>1. Len(r) \in Nat /\ n \in Nat /\ n > 0 /\ Rising(src, Len(r), n - 1)
    BY <1>0, <1>1
  <2> QED
    BY <2>1, RisingNext
<1>3. PICK own2 : /\ Rising(own2, Len(r) + 1, n) /\ own2[Len(r) + 1] = n
                  /\ \A k \in 1..Len(r) : own2[k] = own[k]
  <2>1. Len(r) \in Nat /\ n \in Nat /\ n > 0 /\ Rising(own, Len(r), n - 1)
    BY <1>0, <1>1
  <2> QED
    BY <2>1, RisingNext
<1>4. PICK r2 : r2 = Append(r, q[n])
  OBVIOUS
<1>5. /\ r2 \in Seq(Items) /\ Len(r2) = Len(r) + 1 /\ r2[Len(r) + 1] = q[n]
      /\ \A k \in 1..Len(r) : r2[k] = r[k]
  BY <1>1, <1>4
<1>6. \A k \in 1..Len(r2) : k \in 1..Len(r) \/ k = Len(r) + 1
  BY <1>1, <1>5
<1>7. q[n] = Under(q[n], q[n])
  BY <1>1, UnderIs
<1>8. \A k \in 1..Len(r2) :
        /\ own2[k] <= src2[k] /\ r2[k] = Under(q[src2[k]], q[own2[k]])
        /\ own2[k] # src2[k] => TransientOnly(q[own2[k]]) /\ TransientOnly(q[src2[k]])
  BY <1>1, <1>2, <1>3, <1>5, <1>6, <1>7 DEF Merges
<1>9. \A i \in 1..n :
        TransientOnly(q[i]) \/ \E k \in 1..Len(r2) : src2[k] = i /\ own2[k] = i
  <2>1. \A i \in 1..n : i = n \/ i \in 1..(n - 1)
    BY <1>1
  <2>2. Len(r) + 1 \in 1..Len(r2) /\ \A k \in 1..Len(r) : k \in 1..Len(r2)
    BY <1>1, <1>5
  <2> QED
    BY <1>2, <1>3, <2>1, <2>2 DEF Merges
<1>10. Merges(r2, q, n, src2, own2)
  BY <1>2, <1>3, <1>5, <1>8, <1>9 DEF Merges
<1> QED
  BY <1>2, <1>4, <1>10

\* An item that takes the place of the last.
LEMMA MergesLast ==
  ASSUME NEW q \in Seq(Items), NEW n \in 1..Len(q), NEW r, NEW src, NEW own,
         Merges(r, q, n - 1, src, own), r # <<>>, src[Len(r)] = n - 1,
         TransientOnly(r[Len(r)]), TransientOnly(q[n])
  PROVE  \E src2 : /\ Merges([r EXCEPT ![Len(r)] = Under(q[n], r[Len(r)])], q, n, src2, own)
                   /\ src2[Len(r)] = n
<1>1. /\ n \in Nat /\ n > 0 /\ q[n] \in Items /\ r \in Seq(Items)
      /\ Len(r) \in Nat /\ Len(r) > 0 /\ Len(r) \in 1..Len(r)
  BY DEF Merges
<1>2. PICK src2 : /\ src2 = [k \in 1..Len(r) |-> IF k = Len(r) THEN n ELSE src[k]]
  OBVIOUS
<1>3. src2[Len(r)] = n /\ \A k \in 1..Len(r) : k # Len(r) => src2[k] = src[k]
  BY <1>1, <1>2
<1>4. PICK r2 : r2 = [r EXCEPT ![Len(r)] = Under(q[n], r[Len(r)])]
  OBVIOUS
<1>5. r[Len(r)] \in Items /\ Under(q[n], r[Len(r)]) \in Items
  BY <1>1, UnderIs
<1>6. /\ r2 \in Seq(Items) /\ Len(r2) = Len(r) /\ r2[Len(r)] = Under(q[n], r[Len(r)])
      /\ \A k \in 1..Len(r) : k # Len(r) => r2[k] = r[k]
  BY <1>1, <1>4, <1>5, LastReplaced
<1>7. src \in [1..Len(r) -> 1..(n - 1)] /\ own \in [1..Len(r) -> 1..(n - 1)]
  BY DEF Merges, Rising
<1>8. Rising(src2, Len(r), n)
  <2>1. \A k \in 1..Len(r) : src2[k] \in 1..n
    BY <1>1, <1>3, <1>7
  <2>2. \A i, j \in 1..Len(r) : i < j => i # Len(r)
    BY <1>1
  <2>3. \A i, j \in 1..Len(r) : i < j => src2[i] < src2[j]
    <3>1. ASSUME NEW i \in 1..Len(r), NEW j \in 1..Len(r), i < j, j = Len(r)
          PROVE  src2[i] < src2[j]
      BY <1>1, <1>3, <1>7, <2>2, <3>1
    <3>2. ASSUME NEW i \in 1..Len(r), NEW j \in 1..Len(r), i < j, j # Len(r)
          PROVE  src2[i] < src2[j]
      <4>1. src[i] < src[j]
        BY <3>2 DEF Merges, Rising
      <4> QED
        BY <1>3, <2>2, <3>2, <4>1
    <3> QED
      BY <3>1, <3>2
  <2> QED
    BY <1>2, <2>1, <2>3 DEF Rising
<1>9. Rising(own, Len(r), n)
  <2>1. Len(r) \in Nat /\ n \in Nat /\ Rising(own, Len(r), n - 1)
    BY <1>1 DEF Merges
  <2> QED
    BY <2>1, RisingWider
<1>10. q[src[Len(r)]] \in Items /\ q[own[Len(r)]] \in Items
  <2>1. src[Len(r)] \in 1..(n - 1) /\ own[Len(r)] \in 1..(n - 1)
    BY <1>1, <1>7
  <2>2. \A i \in 1..(n - 1) : i \in 1..Len(q)
    BY <1>1
  <2> QED
    BY <2>1, <2>2
<1>11. /\ r[Len(r)].id = q[own[Len(r)]].id /\ r[Len(r)].base = q[own[Len(r)]].base
       /\ TransientOnly(q[src[Len(r)]])
  BY <1>1, <1>10, UnderIs DEF Merges
<1>12. TransientOnly(q[own[Len(r)]])
  BY <1>1, <1>11 DEF Merges
<1>13. r2[Len(r)] = Under(q[n], q[own[Len(r)]])
  BY <1>6, <1>11 DEF Under
<1>14. own[Len(r)] <= n
  BY <1>1, <1>7
<1>15. \A k \in 1..Len(r2) :
        /\ own[k] <= src2[k] /\ r2[k] = Under(q[src2[k]], q[own[k]])
        /\ own[k] # src2[k] => TransientOnly(q[own[k]]) /\ TransientOnly(q[src2[k]])
  BY <1>1, <1>3, <1>6, <1>12, <1>13, <1>14 DEF Merges
<1>16. \A i \in 1..n :
        TransientOnly(q[i]) \/ \E k \in 1..Len(r2) : src2[k] = i /\ own[k] = i
  <2>1. \A i \in 1..n : i = n \/ i \in 1..(n - 1)
    BY <1>1
  <2>2. ASSUME NEW i \in 1..(n - 1), ~TransientOnly(q[i])
        PROVE \E k \in 1..Len(r2) : src2[k] = i /\ own[k] = i
    <3>1. PICK k \in 1..Len(r) : src[k] = i /\ own[k] = i
      BY <2>2 DEF Merges
    <3>2. k # Len(r)
      BY <1>11, <2>2, <3>1
    <3> QED
      BY <1>3, <1>6, <3>1, <3>2
  <2> QED
    BY <2>1, <2>2
<1>17. Merges(r2, q, n, src2, own)
  BY <1>6, <1>8, <1>9, <1>15, <1>16 DEF Merges
<1> QED
  BY <1>3, <1>4, <1>17

\* Coalescing merges what there is.
LEMMA CoalescedIs ==
  ASSUME NEW q \in Seq(Items)
  PROVE  \E src, own : Merges(Coalesced(q), q, Len(q), src, own)
<1> DEFINE Size == Len(q)
           Fits(r, src, own, n) ==
             Merges(r, q, n, src, own) /\ (n > 0 => r # <<>> /\ src[Len(r)] = n)
<1>1. PICK f : /\ f[0] = <<>> /\ Coalesced(q) = f[Size]
               /\ \A n \in 1..Size : f[n] = Coalesce(f[n - 1], q[n])
  BY CoalescedInTurn
<1> DEFINE Covered == {n \in 0..Size : \E src, own : Fits(f[n], src, own, n)}
<1>2. Size \in Nat
  OBVIOUS
<1>3. 0..Size \subseteq Covered
  <2>1. 0 \in Covered
    <3>1. Fits(<<>>, [i \in 1..0 |-> 0], [i \in 1..0 |-> 0], 0)
      BY DEF Merges, Rising
    <3> HIDE DEF Fits
    <3> QED
      BY <1>1, <1>2, <3>1
  <2>2. ASSUME NEW n \in 1..Size, n - 1 \in Covered PROVE n \in Covered
    <3>1. PICK src, own : Fits(f[n - 1], src, own, n - 1)
      BY <2>2
    <3>2. PICK r : r = f[n - 1]
      OBVIOUS
    <3>3. n \in Nat /\ n > 0 /\ n \in 0..Size /\ f[n] = Coalesce(r, q[n])
      BY <1>1, <1>2, <3>2
    <3>4. Merges(r, q, n - 1, src, own) /\ (n - 1 > 0 => r # <<>> /\ src[Len(r)] = n - 1)
      BY <3>1, <3>2
    <3>5. r \in Seq(Items) /\ q[n] \in Items
      BY <3>4 DEF Merges
    <3>6. \E src2, own2 : Fits(f[n], src2, own2, n)
      <4>1. CASE r # <<>> /\ TransientOnly(r[Len(r)]) /\ TransientOnly(q[n])
        <5>1. n - 1 > 0
          <6>1. 1 \in 1..Len(r)
            BY <3>5, <4>1
          <6>2. src[1] \in 1..(n - 1)
            BY <3>4, <6>1 DEF Merges, Rising
          <6> QED
            BY <3>3, <6>2
        <5>2. PICK new : new = [r EXCEPT ![Len(r)] = Under(q[n], r[Len(r)])]
          OBVIOUS
        <5>3. f[n] = new
          BY <3>3, <4>1, <5>2 DEF Coalesce, Last, Under
        <5>4. PICK src2 : Merges(new, q, n, src2, own) /\ src2[Len(r)] = n
          <6>1. /\ Merges(r, q, n - 1, src, own) /\ r # <<>> /\ src[Len(r)] = n - 1
                /\ TransientOnly(r[Len(r)]) /\ TransientOnly(q[n])
            BY <3>4, <4>1, <5>1
          <6>2. \E src2 : /\ Merges([r EXCEPT ![Len(r)] = Under(q[n], r[Len(r)])], q, n, src2, own)
                         /\ src2[Len(r)] = n
            BY <6>1, MergesLast
          <6> QED
            BY <5>2, <6>2
        <5>5. Len(new) = Len(r) /\ new # <<>>
          <6>1. Under(q[n], r[Len(r)]) \in Items /\ Len(r) \in Nat /\ Len(r) > 0
            BY <3>5, <4>1, UnderIs
          <6>2. new \in Seq(Items) /\ Len(new) = Len(r)
            BY <3>5, <4>1, <5>2, <6>1, LastReplaced
          <6> QED
            BY <6>1, <6>2
        <5> QED
          BY <5>3, <5>4, <5>5
      <4>2. CASE ~(r # <<>> /\ TransientOnly(r[Len(r)]) /\ TransientOnly(q[n]))
        <5>1. PICK new : new = Append(r, q[n])
          OBVIOUS
        <5>2. f[n] = new
          BY <3>3, <4>2, <5>1 DEF Coalesce, Last
        <5>3. PICK src2, own2 : Merges(new, q, n, src2, own2) /\ src2[Len(r) + 1] = n
          BY <3>4, <5>1, MergesNext
        <5>4. Len(new) = Len(r) + 1 /\ new # <<>>
          BY <3>5, <5>1
        <5> QED
          BY <5>2, <5>3, <5>4
      <4> QED
        BY <4>1, <4>2
    <3> HIDE DEF Fits
    <3> QED
      BY <3>3, <3>6
  <2> HIDE DEF Covered
  <2> QED
    BY <1>2, <2>1, <2>2, UpTo
<1>4. \E src, own : Fits(f[Size], src, own, Size)
  BY <1>2, <1>3
<1> QED
  BY <1>1, <1>4

-----------------------------------------------------------------------------
(* What is true of the document and of the request under way.              *)

\* Nothing is in flight but the head (nextOutboxItem, markOutboxItemInFlight).
InFront(outbox) == Flying(outbox) \subseteq {1}

\* What an outbox holds in each lifecycle: a publication that ends only what was sent
\* before and its barrier, one that has ended nothing.
Phased(lifecycle, outbox) ==
  /\ \A i \in DOMAIN outbox :
       /\ outbox[i].kind \in Barriers => lifecycle \in Ending /\ outbox[i].sections = NoSections
       /\ outbox[i].kind = "delete" => lifecycle = "deleting"
       /\ lifecycle \in Ending => outbox[i].kind \in Barriers \/ InFlight(outbox[i])
  /\ lifecycle = "unpublishing" =>
       \A i, j \in DOMAIN outbox :
         outbox[i].kind \in Barriers /\ outbox[j].kind \in Barriers => i = j
  /\ lifecycle \in {"unpublished", "deleted"} => outbox = <<>>

\* What a publication record is, in the document and in what was saved of it.
Sound(record) ==
  /\ record \in Records
  /\ Distinct(record.outbox) /\ InFront(record.outbox)
  /\ Phased(record.lifecycle, record.outbox)

\* What came since a request began is behind what was known then.
KnownFirst(old, outbox) ==
  \A i, j \in DOMAIN outbox : i < j /\ i \in Newer(old, outbox) => j \in Newer(old, outbox)

\* What the drain holds is the head of the outbox as it was, with nothing else sent; it
\* is a barrier before barriers, or an update before updates.
Began(a) ==
  LET old == a.live.outbox IN
  /\ a \in Attempts /\ a.item.state = "queued"
  /\ old # <<>> /\ old[1] = [a.item EXCEPT !.state = "in-flight"]
  /\ Distinct(old) /\ InFront(old)
  /\ \A i \in DOMAIN old :
       /\ old[i].kind \in Barriers <=> a.item.kind \in Barriers
       /\ old[i].kind \in Barriers => old[i].sections = NoSections

\* How the outbox of now stands to what the drain holds.
Awaited(a, lifecycle, outbox) ==
  LET old == a.live.outbox IN
  /\ \A i \in Flying(outbox) : outbox[i].id = a.item.id
  /\ KnownFirst(old, outbox)
  /\ lifecycle \notin {"unpublished", "deleted"}
  /\ a.item.kind \in Barriers => lifecycle \in Ending
  /\ \A i \in DOMAIN old : old[i].kind = "delete" => lifecycle = "deleting"
  /\ lifecycle = "unpublishing" /\ a.item.kind \in Barriers =>
       Len(old) = 1 /\ Newer(old, outbox) = {}

\* The types of the variables.
TypeInv ==
  /\ content \in Contents
  /\ cache \in Snapshots \cup {None}
  /\ saved \in [content : Contents, live : Records]
  /\ attempt \in Attempts \cup {None}
  /\ request = IF attempt = None THEN None ELSE attempt.item
  /\ answer \in Replies \cup {None}
  /\ late \subseteq [item : Items, row : Pages \cup {None}]
  /\ page \in Pages /\ hurried \in BOOLEAN

\* The document is sound, and so is what the drain holds of it; a barrier is never refused.
DocInv ==
  /\ TypeInv /\ Sound(live) /\ Sound(saved.live)
  /\ attempt = None => answer = None
  /\ attempt # None => Began(attempt) /\ Awaited(attempt, live.lifecycle, live.outbox)
  /\ answer # None /\ attempt.item.kind \in Barriers => answer.kind # "conflict"

-----------------------------------------------------------------------------
(* How far the page is behind the document.                                *)

\* No section of a is newer in a than in b.
Precedes(a, b) == \A s \in DOMAIN a \cap DOMAIN b : a[s] <= b[s]

\* What waits behind an item is no older than the item.
Ordered(outbox) ==
  \A i, j \in DOMAIN outbox : i < j => Precedes(outbox[i].sections, outbox[j].sections)

\* What came into an outbox since then is no older than this.
Follows(from, known, outbox) ==
  \A j \in Newer(known, outbox) : Precedes(from, outbox[j].sections)

\* Nothing in an outbox is newer than this.
Ends(outbox, to) == \A i \in DOMAIN outbox : Precedes(outbox[i].sections, to)

\* An outbox leads on from what the page shows.
Leads(from, outbox) == Follows(from, <<>>, outbox) /\ Ordered(outbox)

\* What came since a request began is no older than what it was about.
Since(a, outbox) ==
  LET old == a.live.outbox IN
  /\ Follows(a.item.sections, <<>>, outbox)
  /\ \A i \in DOMAIN old : Follows(old[i].sections, old, outbox)
  /\ a.snapshot # None => Follows(a.snapshot.sections, old, outbox)

\* Nothing on the page or in an outbox is newer than this.
AtMost(from, outbox, to) == Precedes(from, to) /\ Ends(outbox, to)

\* From the page over the outbox to the document nothing goes back: what the drain holds,
\* and what was derived last, lie on that way, and so does all that came since.
OrderInv ==
  /\ late = {}
  /\ AtMost(page.sections, live.outbox, content)
  /\ Leads(page.sections, live.outbox)
  /\ cache # None => /\ Precedes(cache.sections, content)
                     /\ AtMost(page.sections, live.outbox, cache.sections)
  /\ attempt # None =>
       /\ Leads(page.sections, attempt.live.outbox) /\ Ends(attempt.live.outbox, content)
       /\ cache # None => Ends(attempt.live.outbox, cache.sections)
       /\ attempt.snapshot # None =>
            /\ Precedes(attempt.snapshot.sections, content)
            /\ cache # None => Precedes(attempt.snapshot.sections, cache.sections)
            /\ AtMost(page.sections, attempt.live.outbox, attempt.snapshot.sections)
       /\ Since(attempt, live.outbox)

\* An item brings the section as the document has it.
Brings(item, s, c) == s \in DOMAIN item.sections /\ item.sections[s] = c[s]

\* The section is on the page as the document has it, or on its way.
OnItsWay(s, outbox, p, c) == p[s] = c[s] \/ \E i \in DOMAIN outbox : Brings(outbox[i], s, c)

\* The same once the drain ends: what it holds, with what came since, replaces the outbox.
Underway(s, old, outbox, p, c) ==
  \/ p[s] = c[s] \/ \E i \in DOMAIN old : Brings(old[i], s, c)
  \/ \E j \in Newer(old, outbox) : Brings(outbox[j], s, c)

\* Every durable section is on its way, and would be if the drain ended now; what the
\* backend says it published is on the page.
CoverInv ==
  /\ live.lifecycle \in Projecting =>
       /\ cache # None => cache.sections = content
       /\ \A s \in Sections \ Transient : OnItsWay(s, live.outbox, page.sections, content)
       /\ attempt # None => \A s \in Sections \ Transient :
            Underway(s, attempt.live.outbox, live.outbox, page.sections, content)
  /\ answer # None /\ answer.kind = "published" /\ attempt.item.kind \notin Barriers =>
       \A s \in DOMAIN attempt.item.sections : page.sections[s] = attempt.item.sections[s]

\* What the backend says of a barrier is so.
BarrierInv ==
  /\ BarrierHolds
  /\ answer # None /\ answer.kind = "published" =>
       /\ attempt.item.kind = "unpublish" => page.lifecycle = "unpublished"
       /\ attempt.item.kind = "delete" => page.lifecycle = "gone"

-----------------------------------------------------------------------------
(* What becomes of an outbox to which something is added (collapseOutbox). *)

\* Each item of r is one of q, or an update of transient sections under the id of an
\* earlier one; they keep their order.
DrawnBy(r, q, src, own) ==
  /\ r \in Seq(Items) /\ Rising(src, Len(r), Len(q)) /\ Rising(own, Len(r), Len(q))
  /\ \A k \in 1..Len(r) :
       /\ own[k] <= src[k] /\ r[k] = Under(q[src[k]], q[own[k]])
       /\ own[k] # src[k] => ~InFlight(q[src[k]])

\* The same, from some of the items.
Drawn(r, q) == \E src, own : DrawnBy(r, q, src, own)

\* Only updates of transient sections are missing.
Keeps(r, q) == \A i \in DOMAIN q : TransientOnly(q[i]) \/ \E k \in DOMAIN r : r[k] = q[i]

\* Places that are all below others.
Above(high, n, low, m) == \A i \in 1..m, j \in 1..n : low[i] < high[j]

\* The first m of these, then the n others.
Joins(both, low, m, high, n) ==
  (\A k \in 1..m : both[k] = low[k]) /\ (\A k \in 1..n : both[m + k] = high[k])

\* Two rising sequences of places, the second above the first.
LEMMA RisingJoined ==
  ASSUME NEW m \in Nat, NEW n \in Nat, NEW top \in Nat, NEW low, NEW high,
         Rising(low, m, top), Rising(high, n, top), Above(high, n, low, m)
  PROVE  \E both : Rising(both, m + n, top) /\ Joins(both, low, m, high, n)
<1> DEFINE both == [k \in 1..(m + n) |-> IF k <= m THEN low[k] ELSE high[k - m]]
<1>1. Joins(both, low, m, high, n)
  <2>1. \A k \in 1..m : k \in 1..(m + n) /\ k <= m
    OBVIOUS
  <2>2. \A k \in 1..n : m + k \in 1..(m + n) /\ ~(m + k <= m) /\ (m + k) - m = k
    OBVIOUS
  <2> QED
    BY <2>1, <2>2 DEF Joins
<1>2. \A k \in 1..(m + n) : \/ k \in 1..m /\ both[k] = low[k]
                            \/ k > m /\ k - m \in 1..n /\ both[k] = high[k - m]
  OBVIOUS
<1>3. \A k \in 1..(m + n) : both[k] \in 1..top
  BY <1>2 DEF Rising
<1>4. both \in [1..(m + n) -> 1..top]
  BY <1>3
<1> HIDE DEF both
<1>5. ASSUME NEW i \in 1..(m + n), NEW j \in 1..(m + n), i < j PROVE both[i] < both[j]
  <2>1. CASE i \in 1..m /\ both[i] = low[i] /\ j \in 1..m /\ both[j] = low[j]
    BY <1>5, <2>1 DEF Rising
  <2>2. CASE /\ i \in 1..m /\ both[i] = low[i]
             /\ j > m /\ j - m \in 1..n /\ both[j] = high[j - m]
    BY <2>2 DEF Above
  <2>3. CASE /\ i > m /\ i - m \in 1..n /\ both[i] = high[i - m]
             /\ j > m /\ j - m \in 1..n /\ both[j] = high[j - m]
    <3>1. i - m < j - m
      BY <1>5
    <3> QED
      BY <2>3, <3>1 DEF Rising
  <2> QED
    BY <1>2, <1>5, <2>1, <2>2, <2>3
<1> QED
  BY <1>1, <1>4, <1>5 DEF Rising

\* What was sent is the head, if anything.
LEMMA SentIs ==
  ASSUME NEW q \in Seq(Items), InFront(q)
  PROVE  LET sent == Picked(q, Flying(q)) IN
         /\ sent \in Seq(Items) /\ (Len(sent) = 0 \/ Len(sent) = 1)
         /\ Len(sent) = 1 => 1 \in DOMAIN q /\ 1 \in Flying(q) /\ sent[1] = q[1]
         /\ Flying(q) # {} => Len(sent) = 1
<1> DEFINE sent == Picked(q, Flying(q))
<1>1. /\ sent \in Seq(Items)
      /\ \E at : /\ Rising(at, Len(sent), Len(q))
                 /\ \A k \in 1..Len(sent) : at[k] \in Flying(q) /\ sent[k] = q[at[k]]
                 /\ \A i \in Flying(q) \cap (1..Len(q)) : \E k \in 1..Len(sent) : at[k] = i
  BY PickedIs
<1> HIDE DEF sent
<1>2. PICK at : /\ Rising(at, Len(sent), Len(q))
                /\ \A k \in 1..Len(sent) : at[k] \in Flying(q) /\ sent[k] = q[at[k]]
                /\ \A i \in Flying(q) \cap (1..Len(q)) : \E k \in 1..Len(sent) : at[k] = i
  BY <1>1
<1>3. Len(sent) \in Nat
  BY <1>1
<1>4. \A k \in 1..Len(sent) : at[k] = 1
  BY <1>2 DEF InFront
<1>5. PICK n \in Nat : n = Len(sent)
  BY <1>3
<1>6. Len(sent) = 0 \/ Len(sent) = 1
  <2>1. ASSUME n > 1 PROVE FALSE
    <3>1. 1 \in 1..n /\ 2 \in 1..n
      BY <2>1
    <3> QED
      BY <1>2, <1>4, <1>5, <3>1 DEF Rising
  <2>2. n = 0 \/ n = 1
    BY <2>1
  <2> QED
    BY <1>5, <2>2
<1>7. ASSUME Len(sent) = 1 PROVE 1 \in DOMAIN q /\ 1 \in Flying(q) /\ sent[1] = q[1]
  <2>1. 1 \in 1..Len(sent)
    BY <1>7
  <2> QED
    BY <1>2, <1>4, <2>1 DEF Flying
<1>8. ASSUME Flying(q) # {} PROVE Len(sent) = 1
  <2>1. PICK i \in Flying(q) : i \in 1..Len(q)
    BY <1>8 DEF Flying
  <2>2. \E k \in 1..Len(sent) : at[k] = i
    BY <1>2, <2>1
  <2> QED
    BY <1>6, <2>2
<1> QED
  BY <1>1, <1>6, <1>7, <1>8 DEF sent

\* Coalescing what waits behind what was sent.
LEMMA CoalescedDrawn ==
  ASSUME NEW q \in Seq(Items), InFront(q)
  PROVE  LET r == Picked(q, Flying(q)) \o Coalesced(Picked(q, DOMAIN q \ Flying(q))) IN
         Drawn(r, q) /\ Keeps(r, q)
<1> DEFINE behind == DOMAIN q \ Flying(q)
<1>1. PICK sent : sent = Picked(q, Flying(q))
  OBVIOUS
<1>2. /\ sent \in Seq(Items) /\ (Len(sent) = 0 \/ Len(sent) = 1)
      /\ Len(sent) = 1 => 1 \in DOMAIN q /\ 1 \in Flying(q) /\ sent[1] = q[1]
      /\ Flying(q) # {} => Len(sent) = 1
  BY <1>1, SentIs
<1>3. PICK waiting : waiting = Picked(q, behind)
  OBVIOUS
<1>4. PICK at : /\ Rising(at, Len(waiting), Len(q))
                /\ \A k \in 1..Len(waiting) : at[k] \in behind /\ waiting[k] = q[at[k]]
                /\ \A i \in behind \cap (1..Len(q)) : \E k \in 1..Len(waiting) : at[k] = i
  <2> HIDE DEF behind
  <2> QED
    BY <1>3, PickedIs
<1>5. waiting \in Seq(Items)
  BY <1>3, PickedIs
<1>6. PICK rest : rest = Coalesced(waiting)
  OBVIOUS
<1>7. PICK src, own : Merges(rest, waiting, Len(waiting), src, own)
  BY <1>5, <1>6, CoalescedIs
<1>8. PICK r : r = sent \o rest
  OBVIOUS
<1>9. /\ rest \in Seq(Items) /\ Len(rest) \in Nat /\ Len(waiting) \in Nat /\ Len(q) \in Nat
      /\ DOMAIN q = 1..Len(q) /\ Len(sent) \in Nat
  BY <1>2, <1>5, <1>7 DEF Merges
<1>10. /\ r \in Seq(Items) /\ Len(r) = Len(sent) + Len(rest) /\ DOMAIN r = 1..Len(r)
       /\ \A k \in 1..Len(sent) : r[k] = sent[k]
       /\ \A k \in 1..Len(rest) : r[Len(sent) + k] = rest[k]
       /\ \A k \in 1..Len(r) : k \in 1..Len(sent) \/ \E m \in 1..Len(rest) : k = Len(sent) + m
  <2>1. \A k \in 1..(Len(sent) + Len(rest)) :
          k \in 1..Len(sent) \/ (k - Len(sent) \in 1..Len(rest) /\ k = Len(sent) + (k - Len(sent)))
    BY <1>9
  <2> QED
    BY <1>2, <1>8, <1>9, <2>1
<1> DEFINE first == [k \in 1..Len(sent) |-> 1]
           From(f) == [k \in 1..Len(rest) |-> at[f[k]]]
<1>11. Rising(first, Len(sent), Len(q))
  <2>1. CASE Len(sent) = 0
    <3>1. \A k \in 1..Len(sent) : FALSE
      BY <2>1
    <3> QED
      BY <3>1 DEF Rising
  <2>2. CASE Len(sent) = 1
    <3>1. 1 \in 1..Len(q)
      BY <1>2, <1>9, <2>2
    <3>2. \A i, j \in 1..Len(sent) : ~(i < j)
      BY <2>2
    <3> QED
      BY <3>1, <3>2 DEF Rising
  <2> QED
    BY <1>2, <2>1, <2>2
<1>12. \A k \in 1..Len(waiting) : at[k] \in 2..Len(q) \/ Len(sent) = 0
  BY <1>2, <1>4, <1>9 DEF Rising
<1>13. ASSUME NEW f, Rising(f, Len(rest), Len(waiting))
       PROVE  /\ Rising(From(f), Len(rest), Len(q))
              /\ \A i \in 1..Len(sent), j \in 1..Len(rest) : first[i] < From(f)[j]
  <2>1. \A k \in 1..Len(rest) : f[k] \in 1..Len(waiting) /\ From(f)[k] = at[f[k]]
    BY <1>13 DEF Rising
  <2>2. \A k \in 1..Len(rest) : From(f)[k] \in 1..Len(q)
    BY <1>4, <2>1 DEF Rising
  <2>3. From(f) \in [1..Len(rest) -> 1..Len(q)]
    BY <2>2
  <2>4. \A i, j \in 1..Len(rest) : i < j => f[i] < f[j]
    BY <1>13 DEF Rising
  <2>5. \A i, j \in 1..Len(waiting) : i < j => at[i] < at[j]
    BY <1>4 DEF Rising
  <2>6. \A i \in 1..Len(sent) : first[i] = 1 /\ Len(sent) # 0
    BY <1>2
  <2> HIDE DEF From, first
  <2>7. \A i, j \in 1..Len(rest) : i < j => From(f)[i] < From(f)[j]
    BY <2>1, <2>4, <2>5
  <2>8. \A i \in 1..Len(sent), j \in 1..Len(rest) : first[i] < From(f)[j]
    BY <1>12, <2>1, <2>6
  <2> QED
    BY <2>3, <2>7, <2>8 DEF Rising
<1>14. Rising(src, Len(rest), Len(waiting)) /\ Rising(own, Len(rest), Len(waiting))
  BY <1>7 DEF Merges
<1> HIDE DEF first
<1>15. PICK src2 : /\ Rising(src2, Len(r), Len(q)) /\ \A k \in 1..Len(sent) : src2[k] = first[k]
                   /\ \A k \in 1..Len(rest) : src2[Len(sent) + k] = From(src)[k]
  <2>1. /\ Rising(From(src), Len(rest), Len(q))
        /\ \A i \in 1..Len(sent), j \in 1..Len(rest) : first[i] < From(src)[j]
    BY <1>13, <1>14
  <2> HIDE DEF From
  <2>2. PICK m \in Nat, n \in Nat, size \in Nat :
          m = Len(sent) /\ n = Len(rest) /\ size = Len(q) /\ m + n = Len(r)
    BY <1>9, <1>10
  <2>3. PICK low, high : low = first /\ high = From(src)
    OBVIOUS
  <2>4. /\ Rising(low, m, size) /\ Rising(high, n, size)
        /\ Above(high, n, low, m)
    BY <1>11, <2>1, <2>2, <2>3 DEF Above
  <2>5. \E both : Rising(both, m + n, size) /\ Joins(both, low, m, high, n)
    BY <2>4, RisingJoined
  <2> QED
    BY <2>2, <2>3, <2>5 DEF Joins
<1>16. PICK own2 : /\ Rising(own2, Len(r), Len(q)) /\ \A k \in 1..Len(sent) : own2[k] = first[k]
                   /\ \A k \in 1..Len(rest) : own2[Len(sent) + k] = From(own)[k]
  <2>1. /\ Rising(From(own), Len(rest), Len(q))
        /\ \A i \in 1..Len(sent), j \in 1..Len(rest) : first[i] < From(own)[j]
    BY <1>13, <1>14
  <2> HIDE DEF From
  <2>2. PICK m \in Nat, n \in Nat, size \in Nat :
          m = Len(sent) /\ n = Len(rest) /\ size = Len(q) /\ m + n = Len(r)
    BY <1>9, <1>10
  <2>3. PICK low, high : low = first /\ high = From(own)
    OBVIOUS
  <2>4. /\ Rising(low, m, size) /\ Rising(high, n, size)
        /\ Above(high, n, low, m)
    BY <1>11, <2>1, <2>2, <2>3 DEF Above
  <2>5. \E both : Rising(both, m + n, size) /\ Joins(both, low, m, high, n)
    BY <2>4, RisingJoined
  <2> QED
    BY <2>2, <2>3, <2>5 DEF Joins
<1>17. ASSUME NEW k \in 1..Len(sent)
       PROVE  src2[k] = 1 /\ own2[k] = 1 /\ r[k] = q[1] /\ r[k] = Under(q[src2[k]], q[own2[k]])
  <2>1. k = 1 /\ Len(sent) = 1
    <3>1. Len(sent) = 0 \/ Len(sent) = 1
      BY <1>2
    <3>2. CASE Len(sent) = 0
      BY <3>2
    <3>3. CASE Len(sent) = 1
      BY <3>3
    <3> QED
      BY <3>1, <3>2, <3>3
  <2>2. first[k] = 1
    BY DEF first
  <2>3. r[k] = q[1] /\ q[1] \in Items
    BY <1>2, <1>10, <2>1
  <2> QED
    BY <1>15, <1>16, <2>2, <2>3, UnderIs
<1>18. ASSUME NEW m \in 1..Len(rest)
       PROVE  LET k == Len(sent) + m IN
              /\ src2[k] = at[src[m]] /\ own2[k] = at[own[m]] /\ own2[k] <= src2[k]
              /\ r[k] = Under(q[src2[k]], q[own2[k]])
              /\ own2[k] # src2[k] => ~InFlight(q[src2[k]])
  <2>1. src[m] \in 1..Len(waiting) /\ own[m] \in 1..Len(waiting) /\ own[m] <= src[m]
    BY <1>7, <1>14 DEF Rising, Merges
  <2>2. at[own[m]] <= at[src[m]]
    <3>1. own[m] = src[m] \/ own[m] < src[m]
      BY <2>1
    <3>2. at[own[m]] \in 1..Len(q) /\ at[src[m]] \in 1..Len(q)
      BY <1>4, <2>1 DEF Rising
    <3> QED
      BY <1>4, <2>1, <3>1, <3>2 DEF Rising
  <2>3. rest[m] = Under(waiting[src[m]], waiting[own[m]])
    BY <1>7 DEF Merges
  <2>4. waiting[src[m]] = q[at[src[m]]] /\ waiting[own[m]] = q[at[own[m]]]
    BY <1>4, <2>1
  <2>5. at[src[m]] \in DOMAIN q \ Flying(q)
    BY <1>4, <2>1
  <2>6. ~InFlight(q[at[src[m]]])
    BY <2>5 DEF Flying
  <2> QED
    BY <1>10, <1>15, <1>16, <2>2, <2>3, <2>4, <2>6
<1>19. DrawnBy(r, q, src2, own2)
  <2>1. ASSUME NEW k \in 1..Len(r)
        PROVE  /\ own2[k] <= src2[k] /\ r[k] = Under(q[src2[k]], q[own2[k]])
               /\ own2[k] # src2[k] => ~InFlight(q[src2[k]])
    <3>1. CASE k \in 1..Len(sent)
      BY <1>17, <3>1
    <3>2. CASE \E m \in 1..Len(rest) : k = Len(sent) + m
      BY <1>18, <3>2
    <3> QED
      BY <1>10, <3>1, <3>2
  <2> QED
    BY <1>10, <1>15, <1>16, <2>1 DEF DrawnBy
<1>20. ASSUME NEW i \in DOMAIN q, ~TransientOnly(q[i]) PROVE \E k \in DOMAIN r : r[k] = q[i]
  <2>1. CASE i \in Flying(q)
    <3>1. Len(sent) = 1 /\ i = 1 /\ 1 \in 1..Len(sent) /\ 1 \in DOMAIN r
      BY <1>2, <1>9, <1>10, <2>1 DEF InFront
    <3> QED
      BY <1>17, <3>1
  <2>2. CASE i \notin Flying(q)
    <3>1. PICK n \in 1..Len(waiting) : at[n] = i
      BY <1>4, <1>9, <2>2
    <3>2. waiting[n] = q[i]
      BY <1>4, <3>1
    <3>3. PICK m \in 1..Len(rest) : src[m] = n /\ own[m] = n
      BY <1>7, <1>20, <3>2 DEF Merges
    <3>4. Len(sent) + m \in DOMAIN r
      BY <1>9, <1>10
    <3>5. r[Len(sent) + m] = Under(q[i], q[i])
      BY <1>18, <3>1, <3>3
    <3> QED
      BY <3>4, <3>5, UnderIs
  <2> QED
    BY <2>1, <2>2
<1> QED
  BY <1>1, <1>3, <1>6, <1>8, <1>19, <1>20 DEF Drawn, Keeps

-----------------------------------------------------------------------------
(* A new id (newDirectorId).                                               *)

\* There are no more ids than items.
LEMMA IdsFinite ==
  ASSUME NEW S, NEW outbox \in Seq(S)
  PROVE  IsFiniteSet(Ids(outbox)) /\ Cardinality(Ids(outbox)) <= Len(outbox)
<1>1. PICK n \in Nat : n = Len(outbox) /\ DOMAIN outbox = 1..n
  OBVIOUS
<1>2. PICK f : f = [i \in 1..n |-> outbox[i].id]
  OBVIOUS
<1>3. f \in Surjection(1..n, Ids(outbox))
  BY <1>1, <1>2 DEF Surjection, Ids
<1>4. IsFiniteSet(1..n) /\ Cardinality(1..n) = n
  BY FS_Interval
<1>5. IsFiniteSet(Ids(outbox)) /\ Cardinality(Ids(outbox)) <= Cardinality(1..n)
  BY <1>3, <1>4, FS_Surjection
<1> QED
  BY <1>1, <1>4, <1>5

\* A fresh id is a number no item has.
LEMMA FreshIdIs ==
  ASSUME NEW S, NEW a \in Seq(S), NEW b \in Seq(S)
  PROVE  FreshId(a, b) \in Nat /\ FreshId(a, b) \notin Ids(a) \cup Ids(b)
<1> DEFINE used == Ids(a) \cup Ids(b)
<1>1. PICK n \in Nat : n = Len(a) + Len(b)
  OBVIOUS
<1>2. IsFiniteSet(used) /\ Cardinality(used) <= n
  <2>1. /\ IsFiniteSet(Ids(a)) /\ Cardinality(Ids(a)) <= Len(a)
        /\ IsFiniteSet(Ids(b)) /\ Cardinality(Ids(b)) <= Len(b)
    BY IdsFinite
  <2>2. /\ Cardinality(Ids(a)) \in Nat /\ Cardinality(Ids(b)) \in Nat
        /\ Len(a) \in Nat /\ Len(b) \in Nat
    BY <2>1, FS_CardinalityType
  <2>3. /\ IsFiniteSet(used)
        /\ Cardinality(used) =
             Cardinality(Ids(a)) + Cardinality(Ids(b)) - Cardinality(Ids(a) \cap Ids(b))
    BY <2>1, FS_Union
  <2>4. Cardinality(Ids(a) \cap Ids(b)) \in Nat
    BY <2>1, FS_Subset, FS_CardinalityType
  <2> QED
    BY <1>1, <2>1, <2>2, <2>3, <2>4
<1> HIDE DEF used
<1>3. \E i \in 1..(n + 1) : i \notin used
  <2>1. SUFFICES ASSUME 1..(n + 1) \subseteq used PROVE FALSE
    OBVIOUS
  <2>2. Cardinality(1..(n + 1)) = n + 1
    BY FS_Interval
  <2>3. Cardinality(1..(n + 1)) <= Cardinality(used)
    BY <1>2, <2>1, FS_Subset
  <2>4. Cardinality(used) \in Nat
    BY <1>2, FS_CardinalityType
  <2> QED
    BY <1>2, <2>2, <2>3, <2>4
<1>4. FreshId(a, b) = CHOOSE i \in 1..(n + 1) : i \notin used
  BY <1>1 DEF FreshId, used
<1>5. FreshId(a, b) \in 1..(n + 1) /\ FreshId(a, b) \notin used
  BY <1>3, <1>4
<1> QED
  BY <1>5 DEF used

-----------------------------------------------------------------------------
(* Publishing: what is derived joins the outbox.                           *)

\* A snapshot queued under a new id.
LEMMA SnapshotItemIs ==
  ASSUME NEW id \in Nat, NEW snapshot \in Snapshots
  PROVE  /\ SnapshotItem(id, snapshot) \in Items
         /\ SnapshotItem(id, snapshot).id = id
         /\ SnapshotItem(id, snapshot).kind = "snapshot"
         /\ SnapshotItem(id, snapshot).state = "queued"
         /\ SnapshotItem(id, snapshot).sections = snapshot.sections
         /\ DOMAIN snapshot.sections = Sections
         /\ ~TransientOnly(SnapshotItem(id, snapshot))
<1>1. /\ snapshot.revision \in Nat /\ snapshot.final \in BOOLEAN
      /\ snapshot.sections \in [Sections -> Editions]
  BY DEF Snapshots, Contents
<1>2. snapshot.sections \in SectionValues
  BY <1>1 DEF SectionValues
<1> QED
  BY <1>1, <1>2 DEF SnapshotItem, Item, Items, TransientOnly

\* One item behind what was sent.
LEMMA SentThenOne ==
  ASSUME NEW q \in Seq(Items), InFront(q), NEW x \in Items, x.state = "queued"
  PROVE  LET r == Append(Picked(q, Flying(q)), x) IN
         Drawn(r, Append(q, x)) /\ \E k \in DOMAIN r : r[k] = x
<1>1. PICK sent : sent = Picked(q, Flying(q))
  OBVIOUS
<1>2. /\ sent \in Seq(Items) /\ (Len(sent) = 0 \/ Len(sent) = 1)
      /\ Len(sent) = 1 => 1 \in DOMAIN q /\ 1 \in Flying(q) /\ sent[1] = q[1]
  BY <1>1, SentIs
<1>3. PICK n \in Nat : n = Len(q) /\ DOMAIN q = 1..n
  OBVIOUS
<1>4. PICK p : p = Append(q, x)
  OBVIOUS
<1>5. p \in Seq(Items) /\ Len(p) = n + 1 /\ p[n + 1] = x /\ \A i \in 1..n : p[i] = q[i]
  BY <1>3, <1>4
<1>6. PICK r : r = Append(sent, x)
  OBVIOUS
<1>7. Under(x, x) = x /\ \A i \in 1..n : Under(q[i], q[i]) = q[i]
  BY <1>3, UnderIs
<1>8. \E at : DrawnBy(r, p, at, at)
  <2>1. CASE Len(sent) = 0
    <3>1. r \in Seq(Items) /\ Len(r) = 1 /\ r[1] = x
      BY <1>2, <1>6, <2>1
    <3>2. PICK at : at = [k \in 1..1 |-> n + 1]
      OBVIOUS
    <3>3. Rising(at, 1, n + 1) /\ at[1] = n + 1
      BY <3>2 DEF Rising
    <3>4. \A k \in 1..1 : k = 1
      OBVIOUS
    <3>5. DrawnBy(r, p, at, at)
      BY <1>5, <1>7, <3>1, <3>3, <3>4 DEF DrawnBy
    <3> QED
      BY <3>5
  <2>2. CASE Len(sent) = 1
    <3>1. r \in Seq(Items) /\ Len(r) = 2 /\ r[1] = q[1] /\ r[2] = x /\ 1 \in 1..n
      <4>1. sent \in Seq(Items) /\ Len(sent) = 1 /\ sent[1] = q[1]
        BY <1>2, <2>2
      <4>2. /\ r \in Seq(Items) /\ Len(r) = Len(sent) + 1 /\ r[Len(sent) + 1] = x
            /\ \A k \in 1..Len(sent) : r[k] = sent[k]
        BY <1>2, <1>6
      <4>3. 1 \in 1..n
        BY <1>2, <1>3, <2>2
      <4> QED
        BY <4>1, <4>2, <4>3
    <3>2. PICK at : at = [k \in 1..2 |-> IF k = 1 THEN 1 ELSE n + 1]
      OBVIOUS
    <3>3. Rising(at, 2, n + 1) /\ at[1] = 1 /\ at[2] = n + 1
      BY <3>1, <3>2 DEF Rising
    <3>4. \A k \in 1..2 : k = 1 \/ k = 2
      OBVIOUS
    <3>5. DrawnBy(r, p, at, at)
      BY <1>5, <1>7, <3>1, <3>3, <3>4 DEF DrawnBy
    <3> QED
      BY <3>5
  <2> QED
    BY <1>2, <2>1, <2>2
<1>9. \E k \in DOMAIN r : r[k] = x
  <2>1. Len(r) = Len(sent) + 1 /\ r[Len(sent) + 1] = x
    BY <1>2, <1>6
  <2>2. Len(sent) + 1 \in DOMAIN r
    BY <1>2, <1>6
  <2> QED
    BY <2>1, <2>2
<1> QED
  BY <1>1, <1>4, <1>6, <1>8, <1>9 DEF Drawn

\* An outbox in which something is queued is coalesced, or becomes one snapshot.
LEMMA CollapseIs ==
  ASSUME NEW q \in Seq(Items), InFront(q), NEW snapshot \in Snapshots, Known \in Seq(Items)
  PROVE  LET r == Collapse(q, snapshot)
             x == SnapshotItem(FreshId(q, Known), snapshot)
         IN \/ Drawn(r, q) /\ Keeps(r, q)
            \/ Drawn(r, Append(q, x)) /\ \E k \in DOMAIN r : r[k] = x
<1>1. CASE Len(q) > MaxOutbox
  <2>1. PICK x : x = SnapshotItem(FreshId(q, Known), snapshot)
    OBVIOUS
  <2>2. x \in Items /\ x.state = "queued"
    BY <2>1, FreshIdIs, SnapshotItemIs
  <2>3. Collapse(q, snapshot) = Append(Picked(q, Flying(q)), x)
    BY <1>1, <2>1 DEF Collapse
  <2> QED
    BY <2>1, <2>2, <2>3, SentThenOne
<1>2. CASE ~(Len(q) > MaxOutbox)
  <2>1. Collapse(q, snapshot)
          = Picked(q, Flying(q)) \o Coalesced(Picked(q, DOMAIN q \ Flying(q)))
    BY <1>2 DEF Collapse
  <2> QED
    BY <2>1, CoalescedDrawn
<1> QED
  BY <1>1, <1>2

\* q is this outbox with items queued behind it that bring c, under ids that are new to
\* it and to what was known when a request began.
Grown(q, outbox, known, c) ==
  /\ q \in Seq(Items) /\ Len(outbox) <= Len(q)
  /\ \A i \in DOMAIN outbox : q[i] = outbox[i]
  /\ \A i \in DOMAIN q \ DOMAIN outbox :
       /\ q[i].state = "queued" /\ q[i].kind \notin Barriers
       /\ q[i].id \notin Ids(outbox) \cup Ids(known)
       /\ \A s \in DOMAIN q[i].sections : q[i].sections[s] = c[s]
  /\ \A i, j \in DOMAIN q \ DOMAIN outbox : q[i].id = q[j].id => i = j

\* The item has an id that is new.
Fresh(item, outbox, known) == item.id \notin Ids(outbox) \cup Ids(known)

\* The outbox r of d is that of the record, grown and then collapsed; each durable section
\* that changed since `previous` is in an item of r that is new.
Joined(d, record, previous, c, known) ==
  LET r == d.live.outbox IN
  /\ d.live = [record EXCEPT !.outbox = r, !.local = record.local + 1]
  /\ d.cache \in Snapshots /\ d.cache.sections = c
  /\ \E q : Grown(q, record.outbox, known, c) /\ Drawn(r, q)
  /\ \A s \in Sections \ Transient :
       \/ \E k \in DOMAIN r : Fresh(r[k], record.outbox, known) /\ Brings(r[k], s, c)
       \/ previous # None /\ previous.sections[s] = c[s] /\ Keeps(r, record.outbox)

\* What may be queued behind an outbox.
Behind(x, q, known, c) ==
  /\ x \in Items /\ x.state = "queued" /\ x.kind \notin Barriers
  /\ x.id \notin Ids(q) \cup Ids(known)
  /\ \A s \in DOMAIN x.sections : x.sections[s] = c[s]

\* An outbox grows by one item after another.
LEMMA GrownNext ==
  ASSUME NEW outbox \in Seq(Items), NEW q, NEW known, NEW c,
         Grown(q, outbox, known, c), NEW x, Behind(x, q, known, c)
  PROVE  Grown(Append(q, x), outbox, known, c)
<1>1. PICK m \in Nat, n \in Nat :
        /\ m = Len(outbox) /\ DOMAIN outbox = 1..m
        /\ n = Len(q) /\ DOMAIN q = 1..n /\ m <= n
  BY DEF Grown
<1>2. PICK p : p = Append(q, x)
  OBVIOUS
<1>3. /\ p \in Seq(Items) /\ Len(p) = n + 1 /\ DOMAIN p = 1..(n + 1)
      /\ p[n + 1] = x /\ \A i \in 1..n : p[i] = q[i]
  BY <1>1, <1>2 DEF Grown, Behind
<1>4. \A i \in 1..m : p[i] = outbox[i]
  BY <1>1, <1>3 DEF Grown
<1>5. Ids(outbox) \subseteq Ids(q)
  BY <1>1 DEF Grown, Ids
<1>6. \A i \in DOMAIN p \ DOMAIN outbox : i = n + 1 \/ i \in DOMAIN q \ DOMAIN outbox
  BY <1>1, <1>3
<1>7. ASSUME NEW i \in DOMAIN p \ DOMAIN outbox
      PROVE  /\ p[i].state = "queued" /\ p[i].kind \notin Barriers
             /\ p[i].id \notin Ids(outbox) \cup Ids(known)
             /\ \A s \in DOMAIN p[i].sections : p[i].sections[s] = c[s]
  <2>1. CASE i = n + 1
    BY <1>3, <1>5, <2>1 DEF Behind
  <2>2. CASE i \in DOMAIN q \ DOMAIN outbox
    BY <1>1, <1>3, <2>2 DEF Grown
  <2> QED
    BY <1>6, <2>1, <2>2
<1>8. \A i \in 1..n : p[i].id # x.id
  BY <1>1, <1>3 DEF Behind, Ids
<1>9. ASSUME NEW i \in DOMAIN p \ DOMAIN outbox, NEW j \in DOMAIN p \ DOMAIN outbox,
             p[i].id = p[j].id
      PROVE  i = j
  <2>1. CASE i = n + 1 \/ j = n + 1
    BY <1>1, <1>3, <1>6, <1>8, <1>9, <2>1
  <2>2. CASE i \in DOMAIN q \ DOMAIN outbox /\ j \in DOMAIN q \ DOMAIN outbox
    BY <1>1, <1>3, <1>9, <2>2 DEF Grown
  <2> QED
    BY <1>6, <2>1, <2>2
<1>10. m <= n + 1
  BY <1>1
<1> QED
  BY <1>1, <1>2, <1>3, <1>4, <1>7, <1>9, <1>10 DEF Grown

\* One item behind an outbox.
LEMMA GrownOnce ==
  ASSUME NEW outbox \in Seq(Items), NEW known, NEW c, NEW x, Behind(x, outbox, known, c)
  PROVE  Grown(Append(outbox, x), outbox, known, c)
<1>1. Grown(outbox, outbox, known, c)
  BY DEF Grown
<1> QED
  BY <1>1, GrownNext

\* An update queued under a new id.
LEMMA UpdateIs ==
  ASSUME NEW id \in Nat, NEW snapshot \in Snapshots, NEW base \in Nat,
         NEW values \in SectionValues
  PROVE  /\ Item(id, "sections", snapshot, base, values) \in Items
         /\ Item(id, "sections", snapshot, base, values).id = id
         /\ Item(id, "sections", snapshot, base, values).kind = "sections"
         /\ Item(id, "sections", snapshot, base, values).state = "queued"
         /\ Item(id, "sections", snapshot, base, values).sections = values
         /\ TransientOnly(Item(id, "sections", snapshot, base, values))
              => DOMAIN values \subseteq Transient
<1>1. /\ snapshot.revision \in Nat /\ snapshot.final \in BOOLEAN
  BY DEF Snapshots
<1> QED
  BY <1>1 DEF Item, Items, TransientOnly

\* A commit leaves the record alone, which was up to date, or it publishes.
LEMMA DerivedIs ==
  ASSUME NEW c \in Contents, NEW record \in Records, InFront(record.outbox),
         Known \in Seq(Items), NEW previous \in Snapshots \cup {None}
  PROVE  LET d == Derived(c, record, previous) IN
         \/ /\ d.live = record /\ d.cache = previous
            /\ Publishes(record) =>
                 /\ previous # None => previous.sections = c
                 /\ \A s \in Sections : previous # None /\ previous.sections[s] = c[s]
         \/ Publishes(record) /\ Joined(d, record, previous, c, Known)
<1>1. PICK snapshot : snapshot = [revision |-> record.local + 1, sections |-> c,
                                  final |-> record.lifecycle = "final"]
  OBVIOUS
<1>2. PICK changed : changed = {s \in Sections : previous = None \/ previous.sections[s] # c[s]}
  OBVIOUS
<1>3. PICK id : id = FreshId(record.outbox, Known)
  OBVIOUS
<1>4. PICK item : item = IF previous = None \/ snapshot.final
                           THEN SnapshotItem(id, snapshot)
                           ELSE Item(id, "sections", snapshot, record.ack, [s \in changed |-> c[s]])
  OBVIOUS
<1>5. PICK outbox : outbox = record.outbox
  OBVIOUS
<1>6. PICK q : q = Append(outbox, item)
  OBVIOUS
<1>7. PICK r : r = Collapse(q, snapshot)
  OBVIOUS
<1>8. PICK d : d = Derived(c, record, previous)
  OBVIOUS
<1>9. d = IF Publishes(record) /\ changed # {}
            THEN [live |-> [record EXCEPT !.outbox = r, !.local = snapshot.revision],
                  cache |-> snapshot]
            ELSE [live |-> record, cache |-> previous]
  BY <1>1, <1>2, <1>3, <1>4, <1>5, <1>6, <1>7, <1>8 DEF Derived
<1>10. /\ record.local \in Nat /\ record.ack \in Nat /\ outbox \in Seq(Items)
       /\ c \in [Sections -> Editions] /\ InFront(outbox)
  BY <1>5 DEF Records, Contents
<1>11. /\ snapshot \in Snapshots /\ snapshot.sections = c
       /\ snapshot.revision = record.local + 1
  BY <1>1, <1>10 DEF Snapshots
<1>12. id \in Nat /\ id \notin Ids(outbox) \cup Ids(Known)
  BY <1>3, <1>5, <1>10, FreshIdIs
<1>13. /\ Behind(item, outbox, Known, c)
       /\ \A s \in changed : Brings(item, s, c)
       /\ TransientOnly(item) => changed \subseteq Transient
  <2>1. CASE previous = None \/ snapshot.final
    <3>1. item = SnapshotItem(id, snapshot)
      BY <1>4, <2>1
    <3>2. /\ item \in Items /\ item.id = id /\ item.kind = "snapshot" /\ item.state = "queued"
          /\ item.sections = c /\ DOMAIN c = Sections /\ ~TransientOnly(item)
      BY <1>11, <1>12, <3>1, SnapshotItemIs
    <3> QED
      BY <1>2, <1>12, <3>2 DEF Behind, Brings, Barriers
  <2>2. CASE ~(previous = None \/ snapshot.final)
    <3>1. PICK values : values = [s \in changed |-> c[s]]
      OBVIOUS
    <3>2. changed \in SUBSET Sections /\ values \in [changed -> Editions]
      BY <1>2, <1>10, <3>1
    <3>3. item = Item(id, "sections", snapshot, record.ack, values)
      BY <1>4, <2>2, <3>1
    <3>4. /\ item \in Items /\ item.id = id /\ item.kind = "sections" /\ item.state = "queued"
          /\ item.sections = values /\ (TransientOnly(item) => changed \subseteq Transient)
      <4>1. PICK base \in Nat : base = record.ack
        BY <1>10
      <4>2. id \in Nat /\ snapshot \in Snapshots /\ item = Item(id, "sections", snapshot, base, values)
        BY <1>11, <1>12, <3>3, <4>1
      <4>3. values \in SectionValues /\ DOMAIN values = changed
        BY <3>2 DEF SectionValues
      <4> QED
        BY <4>2, <4>3, UpdateIs
    <3>5. DOMAIN values = changed /\ \A s \in changed : values[s] = c[s]
      BY <3>1
    <3> QED
      BY <1>12, <3>4, <3>5 DEF Behind, Brings, Barriers
  <2> QED
    BY <2>1, <2>2
<1>14. /\ q \in Seq(Items) /\ Len(q) = Len(outbox) + 1 /\ q[Len(q)] = item
       /\ Len(q) \in DOMAIN q /\ \A i \in DOMAIN outbox : i \in DOMAIN q /\ q[i] = outbox[i]
  BY <1>6, <1>10, <1>13 DEF Behind
<1>15. Grown(q, outbox, Known, c)
  BY <1>6, <1>10, <1>13, GrownOnce
<1>16. InFront(q)
  <2>1. \A i \in DOMAIN q : i \in DOMAIN outbox \/ q[i] = item
    BY <1>6, <1>10, <1>13 DEF Behind
  <2>2. ~InFlight(item)
    BY <1>13 DEF Behind, InFlight
  <2> QED
    BY <1>10, <1>14, <2>1, <2>2 DEF InFront, Flying
<1>17. CASE Publishes(record) /\ changed # {}
  <2>1. /\ d.live = [record EXCEPT !.outbox = r, !.local = record.local + 1]
        /\ d.cache = snapshot
    BY <1>9, <1>11, <1>17
  <2>2. d.live.outbox = r
    BY <2>1 DEF Records
  <2>3. PICK x : x = SnapshotItem(FreshId(q, Known), snapshot)
    OBVIOUS
  <2>4. \/ Drawn(r, q) /\ Keeps(r, q)
        \/ Drawn(r, Append(q, x)) /\ \E k \in DOMAIN r : r[k] = x
    BY <1>7, <1>11, <1>14, <1>16, <2>3, CollapseIs
  <2>5. CASE Drawn(r, q) /\ Keeps(r, q)
    <3>1. ASSUME NEW s \in Sections \ Transient
          PROVE  \/ \E k \in DOMAIN r : Fresh(r[k], outbox, Known) /\ Brings(r[k], s, c)
                 \/ previous # None /\ previous.sections[s] = c[s] /\ Keeps(r, outbox)
      <4>1. CASE s \in changed
        <5>1. ~TransientOnly(item)
          BY <1>13, <4>1
        <5>2. PICK k \in DOMAIN r : r[k] = item
          BY <1>14, <2>5, <5>1 DEF Keeps
        <5>3. Fresh(item, outbox, Known) /\ Brings(item, s, c)
          BY <1>13, <4>1 DEF Fresh, Behind
        <5> QED
          BY <5>2, <5>3
      <4>2. CASE s \notin changed
        <5>1. previous # None /\ previous.sections[s] = c[s]
          BY <1>2, <4>2
        <5>2. Keeps(r, outbox)
          BY <1>14, <2>5 DEF Keeps
        <5> QED
          BY <5>1, <5>2
      <4> QED
        BY <4>1, <4>2
    <3> QED
      BY <1>5, <1>8, <1>11, <1>15, <1>17, <2>1, <2>2, <2>5, <3>1 DEF Joined
  <2>6. CASE Drawn(r, Append(q, x)) /\ \E k \in DOMAIN r : r[k] = x
    <3>1. /\ FreshId(q, Known) \in Nat /\ FreshId(q, Known) \notin Ids(q) \cup Ids(Known)
      BY <1>14, FreshIdIs
    <3>2. /\ x \in Items /\ x.id = FreshId(q, Known) /\ x.kind = "snapshot" /\ x.state = "queued"
          /\ x.sections = c /\ DOMAIN c = Sections
      BY <1>11, <2>3, <3>1, SnapshotItemIs
    <3>3. Behind(x, q, Known, c)
      BY <3>1, <3>2 DEF Behind, Barriers
    <3>4. Grown(Append(q, x), outbox, Known, c)
      BY <1>10, <1>15, <3>3, GrownNext
    <3>5. Fresh(x, outbox, Known) /\ \A s \in Sections : Brings(x, s, c)
      <4>1. Ids(outbox) \subseteq Ids(q)
        BY <1>14 DEF Ids
      <4> QED
        BY <3>1, <3>2, <4>1 DEF Fresh, Brings
    <3> QED
      BY <1>5, <1>8, <1>11, <1>17, <2>1, <2>2, <2>6, <3>4, <3>5 DEF Joined
  <2> QED
    BY <2>4, <2>5, <2>6
<1>18. CASE ~(Publishes(record) /\ changed # {})
  <2>1. d.live = record /\ d.cache = previous
    BY <1>9, <1>18
  <2>2. ASSUME Publishes(record), previous # None PROVE previous.sections = c
    <3>1. \A s \in Sections : previous.sections[s] = c[s]
      BY <1>2, <1>18, <2>2
    <3>2. previous.sections \in [Sections -> Editions]
      BY <2>2 DEF Snapshots, Contents
    <3> QED
      BY <1>10, <3>1, <3>2
  <2>3. ASSUME Publishes(record)
        PROVE  \A s \in Sections : previous # None /\ previous.sections[s] = c[s]
    BY <1>2, <1>18, <2>3
  <2> QED
    BY <1>8, <2>1, <2>2, <2>3
<1> QED
  BY <1>17, <1>18

\* What is queued behind an outbox disturbs nothing in it.
LEMMA GrownIs ==
  ASSUME NEW outbox \in Seq(Items), NEW q, NEW known, NEW c, Grown(q, outbox, known, c),
         Distinct(outbox), InFront(outbox)
  PROVE  /\ q \in Seq(Items) /\ Distinct(q) /\ InFront(q) /\ Flying(q) = Flying(outbox)
         /\ KnownFirst(known, outbox) => KnownFirst(known, q)
<1>1. PICK m \in Nat, n \in Nat :
        /\ m = Len(outbox) /\ DOMAIN outbox = 1..m
        /\ n = Len(q) /\ DOMAIN q = 1..n /\ m <= n
  BY DEF Grown
<1>2. \A i \in 1..m : i \in 1..n /\ q[i] = outbox[i]
  BY <1>1 DEF Grown
<1>3. \A i \in 1..n : i \in 1..m \/ i \in DOMAIN q \ DOMAIN outbox
  BY <1>1
<1>4. \A i \in DOMAIN q \ DOMAIN outbox :
        /\ ~InFlight(q[i]) /\ q[i].id \notin Ids(known)
        /\ \A j \in 1..m : q[i].id # outbox[j].id
  BY <1>1 DEF Grown, InFlight, Ids
<1>5. Distinct(q)
  <2>1. ASSUME NEW i \in 1..n, NEW j \in 1..n, q[i].id = q[j].id PROVE i = j
    <3>1. CASE i \in 1..m /\ j \in 1..m
      BY <1>1, <1>2, <2>1, <3>1 DEF Distinct
    <3>2. CASE i \in DOMAIN q \ DOMAIN outbox /\ j \in DOMAIN q \ DOMAIN outbox
      BY <2>1, <3>2 DEF Grown
    <3>3. CASE i \in 1..m /\ j \in DOMAIN q \ DOMAIN outbox
      BY <1>2, <1>4, <2>1, <3>3
    <3>4. CASE i \in DOMAIN q \ DOMAIN outbox /\ j \in 1..m
      BY <1>2, <1>4, <2>1, <3>4
    <3> QED
      BY <1>3, <3>1, <3>2, <3>3, <3>4
  <2> QED
    BY <1>1, <2>1 DEF Distinct
<1>6. Flying(q) = Flying(outbox)
  BY <1>1, <1>2, <1>3, <1>4 DEF Flying
<1>7. InFront(q)
  BY <1>6 DEF InFront
<1>8. ASSUME KnownFirst(known, outbox) PROVE KnownFirst(known, q)
  <2>1. ASSUME NEW i \in 1..n, NEW j \in 1..n, i < j, q[i].id \notin Ids(known)
        PROVE  q[j].id \notin Ids(known)
    <3>1. CASE i \in 1..m /\ j \in 1..m
      BY <1>1, <1>2, <1>8, <2>1, <3>1 DEF KnownFirst, Newer
    <3>2. CASE j \in DOMAIN q \ DOMAIN outbox
      BY <1>4, <3>2
    <3>3. CASE i \notin 1..m /\ j \in 1..m
      BY <1>1, <2>1, <3>3
    <3> QED
      BY <1>3, <3>1, <3>2, <3>3
  <2> QED
    BY <1>1, <2>1 DEF KnownFirst, Newer
<1> QED
  BY <1>5, <1>6, <1>7, <1>8 DEF Grown

\* What is drawn from an outbox keeps its ids apart, its head and its order.
LEMMA DrawnIs ==
  ASSUME NEW q \in Seq(Items), NEW r, Drawn(r, q), Distinct(q), InFront(q)
  PROVE  /\ r \in Seq(Items) /\ Distinct(r) /\ InFront(r)
         /\ \A k \in Flying(r) : \E i \in Flying(q) : r[k].id = q[i].id
         /\ \A known : KnownFirst(known, q) => KnownFirst(known, r)
<1>1. PICK src, own : DrawnBy(r, q, src, own)
  BY DEF Drawn
<1>2. PICK m \in Nat, n \in Nat :
        /\ m = Len(r) /\ DOMAIN r = 1..m /\ n = Len(q) /\ DOMAIN q = 1..n
        /\ r \in Seq(Items)
  BY <1>1 DEF DrawnBy
<1>3. \A k \in 1..m : src[k] \in 1..n /\ own[k] \in 1..n
  BY <1>1, <1>2 DEF DrawnBy, Rising
<1>4. \A i, j \in 1..m : i < j => src[i] < src[j] /\ own[i] < own[j]
  BY <1>1, <1>2 DEF DrawnBy, Rising
<1>5. \A k \in 1..m : q[src[k]] \in Items /\ q[own[k]] \in Items
  BY <1>2, <1>3
<1>6. \A k \in 1..m : r[k].id = q[own[k]].id /\ r[k].state = q[src[k]].state
  BY <1>1, <1>2, <1>5, UnderIs DEF DrawnBy
<1>7. ASSUME NEW i \in 1..m, NEW j \in 1..m, r[i].id = r[j].id PROVE i = j
  <2>1. own[i] = own[j]
    BY <1>2, <1>3, <1>6, <1>7 DEF Distinct
  <2>2. ~(own[i] < own[j]) /\ ~(own[j] < own[i])
    BY <1>3, <2>1
  <2> QED
    BY <1>4, <2>2
<1>8. ASSUME NEW k \in Flying(r)
      PROVE  k = 1 /\ \E i \in Flying(q) : r[k].id = q[i].id
  <2>1. k \in 1..m /\ InFlight(q[src[k]])
    BY <1>2, <1>6 DEF Flying, InFlight
  <2>2. own[k] = src[k] /\ src[k] \in Flying(q) /\ src[k] = 1
    BY <1>1, <1>2, <1>3, <2>1 DEF DrawnBy, Flying, InFront
  <2>3. k = 1
    <3>1. ASSUME k # 1 PROVE FALSE
      <4>1. 1 \in 1..m /\ 1 < k
        BY <2>1, <3>1
      <4> QED
        BY <1>3, <1>4, <2>1, <2>2, <4>1
    <3> QED
      BY <3>1
  <2> QED
    BY <1>6, <2>1, <2>2, <2>3
<1>9. ASSUME NEW known, KnownFirst(known, q) PROVE KnownFirst(known, r)
  <2>1. ASSUME NEW i \in 1..m, NEW j \in 1..m, i < j, r[i].id \notin Ids(known)
        PROVE  r[j].id \notin Ids(known)
    BY <1>2, <1>3, <1>4, <1>6, <1>9, <2>1 DEF KnownFirst, Newer
  <2> QED
    BY <1>2, <2>1 DEF KnownFirst, Newer
<1> QED
  BY <1>2, <1>7, <1>8, <1>9 DEF Distinct, InFront

\* What is queued behind an outbox is no older than what is in it.
LEMMA GrownOrder ==
  ASSUME NEW outbox \in Seq(Items), NEW q, NEW known, NEW c \in Contents,
         Grown(q, outbox, known, c)
  PROVE  /\ Ends(outbox, c) => Ends(q, c)
         /\ Ends(outbox, c) /\ Ordered(outbox) => Ordered(q)
         /\ \A v, k : Precedes(v, c) /\ Follows(v, k, outbox) => Follows(v, k, q)
<1>1. PICK m \in Nat, n \in Nat :
        /\ m = Len(outbox) /\ DOMAIN outbox = 1..m
        /\ n = Len(q) /\ DOMAIN q = 1..n /\ m <= n
  BY DEF Grown
<1>2. \A i \in 1..m : i \in 1..n /\ q[i] = outbox[i]
  BY <1>1 DEF Grown
<1>3. \A i \in 1..n : i \in 1..m \/ i \in DOMAIN q \ DOMAIN outbox
  BY <1>1
<1>4. DOMAIN c = Sections /\ \A s \in Sections : c[s] <= c[s]
  BY DEF Contents, Editions
<1>5. ASSUME NEW i \in DOMAIN q \ DOMAIN outbox
      PROVE  /\ DOMAIN q[i].sections \subseteq Sections
             /\ \A s \in DOMAIN q[i].sections : q[i].sections[s] = c[s]
  <2>1. q[i] \in Items
    BY <1>1, <1>5 DEF Grown
  <2>2. q[i].sections \in SectionValues
    BY <2>1 DEF Items
  <2>3. DOMAIN q[i].sections \subseteq Sections
    BY <2>2 DEF SectionValues
  <2> QED
    BY <1>5, <2>3 DEF Grown
<1>6. ASSUME NEW v, Precedes(v, c), NEW i \in DOMAIN q \ DOMAIN outbox
      PROVE  Precedes(v, q[i].sections)
  BY <1>4, <1>5, <1>6 DEF Precedes
<1>7. ASSUME NEW i \in DOMAIN q \ DOMAIN outbox PROVE Precedes(q[i].sections, c)
  BY <1>4, <1>5 DEF Precedes
<1>8. ASSUME Ends(outbox, c) PROVE Ends(q, c)
  BY <1>1, <1>2, <1>3, <1>7, <1>8 DEF Ends
<1>9. ASSUME Ends(outbox, c), Ordered(outbox) PROVE Ordered(q)
  <2>1. ASSUME NEW i \in 1..n, NEW j \in 1..n, i < j
        PROVE  Precedes(q[i].sections, q[j].sections)
    <3>1. CASE i \in 1..m /\ j \in 1..m
      BY <1>1, <1>2, <1>9, <2>1, <3>1 DEF Ordered
    <3>2. CASE j \in DOMAIN q \ DOMAIN outbox
      <4>1. Precedes(q[i].sections, c)
        BY <1>1, <1>8, <1>9 DEF Ends
      <4> QED
        BY <1>6, <3>2, <4>1
    <3>3. CASE i \notin 1..m /\ j \in 1..m
      BY <1>1, <2>1, <3>3
    <3> QED
      BY <1>3, <3>1, <3>2, <3>3
  <2> QED
    BY <1>1, <2>1 DEF Ordered
<1>10. ASSUME NEW v, NEW k, Precedes(v, c), Follows(v, k, outbox) PROVE Follows(v, k, q)
  <2>1. ASSUME NEW j \in 1..n, q[j].id \notin Ids(k) PROVE Precedes(v, q[j].sections)
    <3>1. CASE j \in 1..m
      BY <1>1, <1>2, <1>10, <2>1, <3>1 DEF Follows, Newer
    <3>2. CASE j \in DOMAIN q \ DOMAIN outbox
      BY <1>6, <1>10, <3>2
    <3> QED
      BY <1>3, <3>1, <3>2
  <2> QED
    BY <1>1, <2>1 DEF Follows, Newer
<1> QED
  BY <1>8, <1>9, <1>10

\* What is drawn from an outbox is in its order.
LEMMA DrawnOrder ==
  ASSUME NEW q \in Seq(Items), NEW r, Drawn(r, q)
  PROVE  /\ \A c : Ends(q, c) => Ends(r, c)
         /\ Ordered(q) => Ordered(r)
         /\ \A v, k : KnownFirst(k, q) /\ Follows(v, k, q) => Follows(v, k, r)
<1>1. PICK src, own : DrawnBy(r, q, src, own)
  BY DEF Drawn
<1>2. PICK m \in Nat, n \in Nat :
        /\ m = Len(r) /\ DOMAIN r = 1..m /\ n = Len(q) /\ DOMAIN q = 1..n
        /\ r \in Seq(Items)
  BY <1>1 DEF DrawnBy
<1>3. \A k \in 1..m : src[k] \in 1..n /\ own[k] \in 1..n /\ own[k] <= src[k]
  BY <1>1, <1>2 DEF DrawnBy, Rising
<1>4. \A i, j \in 1..m : i < j => src[i] < src[j]
  BY <1>1, <1>2 DEF DrawnBy, Rising
<1>5. \A k \in 1..m : q[src[k]] \in Items /\ q[own[k]] \in Items
  BY <1>2, <1>3
<1>6. \A k \in 1..m : r[k].id = q[own[k]].id /\ r[k].sections = q[src[k]].sections
  BY <1>1, <1>2, <1>5, UnderIs DEF DrawnBy
<1>7. ASSUME NEW c, Ends(q, c) PROVE Ends(r, c)
  BY <1>2, <1>3, <1>6, <1>7 DEF Ends
<1>8. ASSUME Ordered(q) PROVE Ordered(r)
  BY <1>2, <1>3, <1>4, <1>6, <1>8 DEF Ordered
<1>9. ASSUME NEW v, NEW k, KnownFirst(k, q), Follows(v, k, q) PROVE Follows(v, k, r)
  <2>1. ASSUME NEW j \in 1..m, r[j].id \notin Ids(k) PROVE Precedes(v, r[j].sections)
    <3>1. own[j] \in Newer(k, q)
      BY <1>2, <1>3, <1>6, <2>1 DEF Newer
    <3>2. own[j] = src[j] \/ own[j] < src[j]
      BY <1>3
    <3>3. src[j] \in Newer(k, q)
      BY <1>2, <1>3, <1>9, <3>1, <3>2 DEF KnownFirst
    <3> QED
      BY <1>6, <1>9, <3>3 DEF Follows
  <2> QED
    BY <1>2, <2>1 DEF Follows, Newer
<1> QED
  BY <1>7, <1>8, <1>9

\* What has been known from the start, or is known now.
LEMMA KnownAlways ==
  ASSUME NEW outbox \in Seq(Items)
  PROVE  KnownFirst(<<>>, outbox) /\ Newer(<<>>, outbox) = DOMAIN outbox
         /\ KnownFirst(outbox, outbox) /\ Newer(outbox, outbox) = {}
<1>1. Ids(<<>>) = {}
  BY DEF Ids
<1>2. Newer(<<>>, outbox) = DOMAIN outbox
  BY <1>1 DEF Newer
<1>3. Newer(outbox, outbox) = {}
  BY DEF Newer, Ids
<1> QED
  BY <1>2, <1>3 DEF KnownFirst

\* Without barriers nothing else is asked of an outbox that is being published.
LEMMA Projected ==
  ASSUME NEW record, record \in Records, Distinct(record.outbox), InFront(record.outbox),
         Publishes(record)
  PROVE  Sound(record) <=> \A i \in DOMAIN record.outbox : record.outbox[i].kind \notin Barriers
BY DEF Sound, Phased, Publishes, Projecting, Ending, Barriers

\* A commit leaves a record sound, and what was known ahead of what has come since.
LEMMA DerivedSound ==
  ASSUME NEW c \in Contents, NEW record, Sound(record), Known \in Seq(Items),
         NEW previous \in Snapshots \cup {None}
  PROVE  LET d == Derived(c, record, previous) IN
         /\ Sound(d.live) /\ d.cache \in Snapshots \cup {None}
         /\ d.live.lifecycle = record.lifecycle /\ d.live.ack = record.ack
         /\ ~Publishes(record) => d.live = record
         /\ \A k \in Flying(d.live.outbox) :
              \E i \in Flying(record.outbox) : d.live.outbox[k].id = record.outbox[i].id
         /\ \A known \in {<<>>, Known, record.outbox} :
              KnownFirst(known, record.outbox) => KnownFirst(known, d.live.outbox)
<1>1. PICK d : d = Derived(c, record, previous)
  OBVIOUS
<1>2. PICK outbox : outbox = record.outbox
  OBVIOUS
<1>3. /\ record \in Records /\ outbox \in Seq(Items) /\ record.local \in Nat
      /\ Distinct(outbox) /\ InFront(outbox)
  BY <1>2 DEF Sound, Records
<1>4. \/ d.live = record /\ d.cache = previous
      \/ Publishes(record) /\ Joined(d, record, previous, c, Known)
  BY <1>1, <1>2, <1>3, DerivedIs
<1>5. CASE d.live = record /\ d.cache = previous
  BY <1>1, <1>5
<1>6. CASE Publishes(record) /\ Joined(d, record, previous, c, Known)
  <2>1. PICK r : r = d.live.outbox
    OBVIOUS
  <2>2. PICK q : Grown(q, outbox, Known, c) /\ Drawn(r, q)
    BY <1>2, <1>6, <2>1 DEF Joined
  <2>3. /\ q \in Seq(Items) /\ Distinct(q) /\ InFront(q) /\ Flying(q) = Flying(outbox)
        /\ KnownFirst(Known, outbox) => KnownFirst(Known, q)
    BY <1>3, <2>2, GrownIs
  <2>4. KnownFirst(outbox, q)
    <3>1. Grown(q, outbox, outbox, c)
      BY <2>2 DEF Grown
    <3> QED
      BY <1>3, <3>1, GrownIs, KnownAlways
  <2>5. /\ r \in Seq(Items) /\ Distinct(r) /\ InFront(r)
        /\ \A k \in Flying(r) : \E i \in Flying(q) : r[k].id = q[i].id
        /\ \A known : KnownFirst(known, q) => KnownFirst(known, r)
    BY <2>2, <2>3, DrawnIs
  <2>6. \A known \in {<<>>, Known, outbox} : KnownFirst(known, outbox) => KnownFirst(known, r)
    BY <2>3, <2>4, <2>5, KnownAlways
  <2>7. \A k \in Flying(r) : \E i \in Flying(outbox) : r[k].id = outbox[i].id
    BY <2>2, <2>3, <2>5 DEF Grown, Flying
  <2>8. /\ d.live = [record EXCEPT !.outbox = r, !.local = record.local + 1]
        /\ d.cache \in Snapshots
    BY <1>6, <2>1 DEF Joined
  <2>9. /\ d.live \in Records /\ d.live.outbox = r
        /\ d.live.lifecycle = record.lifecycle /\ d.live.ack = record.ack
    <3>1. PICK next \in Nat : next = record.local + 1
      BY <1>3
    <3>2. d.live = [record EXCEPT !.outbox = r, !.local = next]
      BY <2>8, <3>1
    <3> QED
      BY <1>3, <2>5, <3>2 DEF Records
  <2>10. \A i \in DOMAIN outbox : outbox[i].kind \notin Barriers
    BY <1>2, <1>3, <1>6, Projected
  <2>11. \A i \in DOMAIN q : q[i].kind \notin Barriers
    BY <2>2, <2>10 DEF Grown
  <2>12. \A k \in DOMAIN r : r[k].kind \notin Barriers
    <3>1. PICK src, own : DrawnBy(r, q, src, own)
      BY <2>2 DEF Drawn
    <3>2. ASSUME NEW k \in DOMAIN r PROVE r[k].kind \notin Barriers
      <4>1. k \in 1..Len(r)
        BY <2>5
      <4>2. src[k] \in DOMAIN q /\ own[k] \in DOMAIN q
        BY <2>3, <3>1, <4>1 DEF DrawnBy, Rising
      <4>3. q[src[k]] \in Items /\ q[own[k]] \in Items
        BY <2>3, <4>2
      <4>4. r[k].kind = q[src[k]].kind
        BY <3>1, <4>1, <4>3, UnderIs DEF DrawnBy
      <4> QED
        BY <2>11, <4>2, <4>4
    <3> QED
      BY <3>2
  <2>13. Publishes(d.live)
    BY <1>6, <2>9 DEF Publishes
  <2>14. Sound(d.live)
    BY <2>5, <2>9, <2>12, <2>13, Projected
  <2> QED
    BY <1>1, <1>2, <1>6, <2>6, <2>7, <2>8, <2>9, <2>14
<1> QED
  BY <1>4, <1>5, <1>6

\* A commit keeps an outbox in order, and behind what it was behind.
LEMMA DerivedOrder ==
  ASSUME NEW c \in Contents, NEW record, Sound(record), Known \in Seq(Items),
         NEW previous \in Snapshots \cup {None}, Ends(record.outbox, c), Ordered(record.outbox)
  PROVE  LET d == Derived(c, record, previous) IN
         /\ Ends(d.live.outbox, c) /\ Ordered(d.live.outbox)
         /\ \A v : \A known \in {<<>>, Known, record.outbox} :
              /\ Precedes(v, c) /\ KnownFirst(known, record.outbox)
              /\ Follows(v, known, record.outbox)
              => Follows(v, known, d.live.outbox)
         /\ \/ d.live = record /\ d.cache = previous
            \/ d.cache \in Snapshots /\ d.cache.sections = c
<1>1. PICK d : d = Derived(c, record, previous)
  OBVIOUS
<1>2. PICK outbox : outbox = record.outbox
  OBVIOUS
<1>3. /\ record \in Records /\ outbox \in Seq(Items)
      /\ Distinct(outbox) /\ InFront(outbox)
  BY <1>2 DEF Sound, Records
<1>4. \/ d.live = record /\ d.cache = previous
      \/ Publishes(record) /\ Joined(d, record, previous, c, Known)
  BY <1>1, <1>2, <1>3, DerivedIs
<1>5. CASE d.live = record /\ d.cache = previous
  BY <1>1, <1>5
<1>6. CASE Publishes(record) /\ Joined(d, record, previous, c, Known)
  <2>1. PICK r : r = d.live.outbox
    OBVIOUS
  <2>2. PICK q : Grown(q, outbox, Known, c) /\ Drawn(r, q)
    BY <1>2, <1>6, <2>1 DEF Joined
  <2>3. q \in Seq(Items) /\ (KnownFirst(Known, outbox) => KnownFirst(Known, q))
    BY <1>3, <2>2, GrownIs
  <2>4. KnownFirst(outbox, q)
    <3>1. Grown(q, outbox, outbox, c)
      BY <2>2 DEF Grown
    <3> QED
      BY <1>3, <3>1, GrownIs, KnownAlways
  <2>5. KnownFirst(<<>>, q)
    BY <2>3, KnownAlways
  <2>6. /\ Ends(q, c) /\ Ordered(q)
        /\ \A v, k : Precedes(v, c) /\ Follows(v, k, outbox) => Follows(v, k, q)
    BY <1>2, <1>3, <2>2, GrownOrder
  <2>7. /\ Ends(r, c) /\ Ordered(r)
        /\ \A v, k : KnownFirst(k, q) /\ Follows(v, k, q) => Follows(v, k, r)
    BY <2>2, <2>3, <2>6, DrawnOrder
  <2>8. d.cache \in Snapshots /\ d.cache.sections = c
    BY <1>6 DEF Joined
  <2> QED
    BY <1>1, <1>2, <2>1, <2>3, <2>4, <2>5, <2>6, <2>7, <2>8
<1> QED
  BY <1>4, <1>5, <1>6

\* What carries each durable section to the page: a new item, or what carried it before.
Carries(r, outbox, known, previous, c) ==
  \A s \in Sections \ Transient :
    \/ \E k \in DOMAIN r : Fresh(r[k], outbox, known) /\ Brings(r[k], s, c)
    \/ previous # None /\ previous.sections[s] = c[s] /\ Keeps(r, outbox)

\* A commit carries every durable section that has changed.
LEMMA DerivedCover ==
  ASSUME NEW c \in Contents, NEW record, Sound(record), Known \in Seq(Items),
         NEW previous \in Snapshots \cup {None}, Publishes(record)
  PROVE  LET d == Derived(c, record, previous) IN
         /\ Carries(d.live.outbox, record.outbox, Known, previous, c)
         /\ d.cache # None => d.cache.sections = c
<1>1. PICK d : d = Derived(c, record, previous)
  OBVIOUS
<1>2. record \in Records /\ InFront(record.outbox)
  BY DEF Sound
<1>3. \/ /\ d.live = record /\ d.cache = previous
         /\ previous # None => previous.sections = c
         /\ \A s \in Sections : previous # None /\ previous.sections[s] = c[s]
      \/ Joined(d, record, previous, c, Known)
  BY <1>1, <1>2, DerivedIs
<1>4. CASE /\ d.live = record /\ d.cache = previous
           /\ previous # None => previous.sections = c
           /\ \A s \in Sections : previous # None /\ previous.sections[s] = c[s]
  <2>1. Keeps(d.live.outbox, record.outbox)
    BY <1>4 DEF Keeps
  <2> QED
    BY <1>1, <1>4, <2>1 DEF Carries
<1>5. CASE Joined(d, record, previous, c, Known)
  BY <1>1, <1>5 DEF Joined, Carries
<1> QED
  BY <1>3, <1>4, <1>5

\* What was on its way, or under way, stays so.
LEMMA CarriedOn ==
  ASSUME NEW r, NEW outbox, NEW known, NEW previous, NEW c,
         Carries(r, outbox, known, previous, c), NEW s \in Sections \ Transient, NEW p
  PROVE  /\ (previous # None /\ previous.sections[s] = c[s] => OnItsWay(s, outbox, p, c))
              => OnItsWay(s, r, p, c)
         /\ \A old \in {known, outbox} :
              (previous # None /\ previous.sections[s] = c[s] => Underway(s, old, outbox, p, c))
                => Underway(s, old, r, p, c)
<1>1. \/ \E k \in DOMAIN r : Fresh(r[k], outbox, known) /\ Brings(r[k], s, c)
      \/ previous # None /\ previous.sections[s] = c[s] /\ Keeps(r, outbox)
  BY DEF Carries
<1>2. CASE \E k \in DOMAIN r : Fresh(r[k], outbox, known) /\ Brings(r[k], s, c)
  <2>1. PICK k \in DOMAIN r : Fresh(r[k], outbox, known) /\ Brings(r[k], s, c)
    BY <1>2
  <2>2. k \in Newer(known, r) /\ k \in Newer(outbox, r)
    BY <2>1 DEF Newer, Fresh
  <2> QED
    BY <2>1, <2>2 DEF OnItsWay, Underway
<1>3. CASE previous # None /\ previous.sections[s] = c[s] /\ Keeps(r, outbox)
  <2>1. ASSUME NEW i \in DOMAIN outbox, Brings(outbox[i], s, c)
        PROVE  \E k \in DOMAIN r : r[k] = outbox[i]
    <3>1. ~TransientOnly(outbox[i])
      BY <2>1 DEF Brings, TransientOnly
    <3> QED
      BY <1>3, <3>1 DEF Keeps
  <2>2. ASSUME NEW old, NEW i \in Newer(old, outbox), Brings(outbox[i], s, c)
        PROVE  \E k \in Newer(old, r) : Brings(r[k], s, c)
    <3>1. i \in DOMAIN outbox /\ outbox[i].id \notin Ids(old)
      BY <2>2 DEF Newer
    <3>2. PICK k \in DOMAIN r : r[k] = outbox[i]
      BY <2>1, <2>2, <3>1
    <3>3. k \in Newer(old, r)
      BY <3>1, <3>2 DEF Newer
    <3> QED
      BY <2>2, <3>2, <3>3
  <2> QED
    BY <1>3, <2>1, <2>2 DEF OnItsWay, Underway
<1> QED
  BY <1>1, <1>2, <1>3

-----------------------------------------------------------------------------
(* The steps keep what is true of the document and of the request.         *)

\* The newest edition is no older than any section.
LEMMA EditionIs ==
  ASSUME content \in Contents
  PROVE  Edition \in Editions /\ \A s \in Sections : content[s] <= Edition
<1> DEFINE S == {content[s] : s \in Sections} \cup {1}
           T == {MaxEditions - n : n \in S}
<1>1. MaxEditions \in Nat /\ MaxEditions > 0
  BY LiveAssumption
<1>2. S \subseteq 0..MaxEditions /\ 1 \in S
  BY <1>1 DEF Contents, Editions
<1> HIDE DEF S
<1>3. T \in SUBSET Nat /\ T # {}
  <2>1. \A n \in S : MaxEditions - n \in Nat
    BY <1>1, <1>2
  <2> QED
    BY <1>2, <2>1
<1>4. PICK t \in T : \A m \in T : t <= m
  BY <1>3, Least
<1>5. PICK n \in S : t = MaxEditions - n
  BY <1>4
<1>6. \A m \in S : n >= m
  <2>1. ASSUME NEW m \in S PROVE n >= m
    <3>1. MaxEditions - m \in T
      OBVIOUS
    <3>2. t <= MaxEditions - m
      BY <1>4, <3>1
    <3>3. m \in Nat /\ n \in Nat
      BY <1>2
    <3> QED
      BY <1>1, <1>5, <3>2, <3>3
  <2> QED
    BY <2>1
<1>7. Edition = Max(S)
  BY DEF Edition, S
<1> HIDE DEF T
<1>8. Edition \in S /\ \A m \in S : Edition >= m
  BY <1>5, <1>6, <1>7 DEF Max
<1>9. \A s \in Sections : content[s] \in S
  BY DEF S
<1> QED
  BY <1>1, <1>2, <1>8, <1>9 DEF Editions, Contents

\* The outbox known to the drain.
LEMMA KnownIs ==
  ASSUME TypeInv
  PROVE  /\ Known \in Seq(Items)
         /\ attempt # None => attempt \in Attempts /\ Known = attempt.live.outbox
BY DEF TypeInv, Known, Attempts, Records

\* A commit while a request is under way, or none is.
LEMMA CommitDoc ==
  ASSUME DocInv, NEW c \in Contents, NEW record, Sound(record), Commit(c, record),
         attempt # None => Awaited(attempt, record.lifecycle, record.outbox),
         UNCHANGED <<saved, network, page>>, hurried' \in BOOLEAN
  PROVE  DocInv'
<1>1. TypeInv /\ Known \in Seq(Items) /\ cache \in Snapshots \cup {None}
  BY KnownIs DEF DocInv, TypeInv
<1>2. PICK d : d = Derived(c, record, cache)
  OBVIOUS
<1>3. /\ Sound(d.live) /\ d.cache \in Snapshots \cup {None}
      /\ d.live.lifecycle = record.lifecycle
      /\ ~Publishes(record) => d.live = record
      /\ \A k \in Flying(d.live.outbox) :
           \E i \in Flying(record.outbox) : d.live.outbox[k].id = record.outbox[i].id
      /\ KnownFirst(Known, record.outbox) => KnownFirst(Known, d.live.outbox)
  <2>1. /\ Sound(d.live) /\ d.cache \in Snapshots \cup {None}
        /\ d.live.lifecycle = record.lifecycle
        /\ ~Publishes(record) => d.live = record
        /\ \A k \in Flying(d.live.outbox) :
             \E i \in Flying(record.outbox) : d.live.outbox[k].id = record.outbox[i].id
        /\ \A known \in {<<>>, Known, record.outbox} :
             KnownFirst(known, record.outbox) => KnownFirst(known, d.live.outbox)
    BY <1>1, <1>2, DerivedSound
  <2> QED
    BY <2>1
<1>4. content' = c /\ live' = d.live /\ cache' = d.cache
  BY <1>2 DEF Commit
<1>5. TypeInv'
  BY <1>1, <1>3, <1>4 DEF TypeInv, network
<1>6. ASSUME attempt # None PROVE Awaited(attempt, d.live.lifecycle, d.live.outbox)
  <2>1. Awaited(attempt, record.lifecycle, record.outbox) /\ Known = attempt.live.outbox
    BY <1>6, <1>1, KnownIs
  <2>2. \A k \in Flying(d.live.outbox) : d.live.outbox[k].id = attempt.item.id
    BY <1>3, <2>1 DEF Awaited
  <2>3. KnownFirst(attempt.live.outbox, d.live.outbox)
    BY <1>3, <2>1 DEF Awaited
  <2>4. record.lifecycle = "unpublishing" => d.live = record
    BY <1>3 DEF Publishes, Projecting
  <2> QED
    BY <1>3, <2>1, <2>2, <2>3, <2>4 DEF Awaited
<1> QED
  BY <1>3, <1>4, <1>5, <1>6 DEF DocInv, network

\* The sections after an edit.
Edited(changed) == [s \in Sections |-> IF s \in changed THEN Edition + 1 ELSE content[s]]

\* An edit makes sections newer.
LEMMA EditedIs ==
  ASSUME content \in Contents, NEW changed \in SUBSET Sections,
         changed # {} => Edition < MaxEditions
  PROVE  /\ Edited(changed) \in Contents
         /\ \A s \in Sections : content[s] <= Edited(changed)[s]
         /\ \A s \in Sections \ changed : Edited(changed)[s] = content[s]
<1>1. MaxEditions \in Nat
  BY LiveAssumption
<1>2. Edition \in 0..MaxEditions /\ \A s \in Sections : content[s] <= Edition
  BY EditionIs DEF Editions
<1>3. \A s \in Sections : content[s] \in 0..MaxEditions
  BY DEF Contents, Editions
<1> QED
  BY <1>1, <1>2, <1>3 DEF Edited, Contents, Editions

\* An edit keeps the document sound.
LEMMA EditDoc ==
  ASSUME DocInv, NEW changed \in SUBSET Sections, Edit(changed)
  PROVE  DocInv'
<1>1. Commit(Edited(changed), live)
  BY DEF Edit, Edited
<1>2. Edited(changed) \in Contents
  BY EditedIs DEF Edit, DocInv, TypeInv
<1>3. hurried' \in BOOLEAN
  BY DEF Edit
<1> QED
  BY <1>1, <1>2, <1>3, CommitDoc DEF DocInv, Edit

\* Finishing the tournament keeps the document sound.
LEMMA FinalizeDoc ==
  ASSUME DocInv, Finalize
  PROVE  DocInv'
<1>1. PICK record : record = [live EXCEPT !.lifecycle = "final"]
  OBVIOUS
<1>2. live \in Records /\ live.lifecycle = "live"
  BY DEF Finalize, DocInv, Sound
<1>3. record \in Records /\ record.lifecycle = "final" /\ record.outbox = live.outbox
  BY <1>1, <1>2 DEF Records, Lifecycles, Projecting
<1>4. Sound(record)
  BY <1>2, <1>3, Projected DEF DocInv, Sound, Publishes, Projecting
<1>5. attempt # None => Awaited(attempt, record.lifecycle, record.outbox)
  BY <1>2, <1>3 DEF DocInv, Awaited, Ending
<1>6. Commit(content, record) /\ UNCHANGED <<saved, network, page>> /\ hurried' \in BOOLEAN
  BY <1>1 DEF Finalize, public, DocInv, TypeInv
<1> QED
  BY <1>4, <1>5, <1>6, CommitDoc DEF DocInv, TypeInv

\* A barrier supersedes all but what was sent.
LEMMA BarrierIs ==
  ASSUME DocInv, NEW kind \in Barriers, NEW lifecycle \in Ending,
         \/ /\ kind = "unpublish" /\ lifecycle = "unpublishing"
            /\ live.lifecycle \in Projecting \cup {"disabled"}
         \/ /\ kind = "delete" /\ lifecycle = "deleting"
            /\ live.lifecycle \in Projecting \cup {"unpublishing", "unpublished", "disabled"}
  PROVE  /\ Sound(Barrier(kind, lifecycle))
         /\ Barrier(kind, lifecycle).lifecycle = lifecycle
         /\ \A k \in DOMAIN Barrier(kind, lifecycle).outbox :
              \/ Barrier(kind, lifecycle).outbox[k].sections = NoSections
              \/ /\ k = 1 /\ 1 \in DOMAIN live.outbox
                 /\ Barrier(kind, lifecycle).outbox[k] = live.outbox[1]
         /\ attempt # None =>
              Awaited(attempt, lifecycle, Barrier(kind, lifecycle).outbox)
<1>1. /\ live \in Records /\ live.outbox \in Seq(Items) /\ live.local \in Nat
      /\ Distinct(live.outbox) /\ InFront(live.outbox) /\ Phased(live.lifecycle, live.outbox)
      /\ Known \in Seq(Items)
  BY KnownIs DEF DocInv, Sound, Records
<1>2. PICK outbox : outbox = live.outbox
  OBVIOUS
<1>3. PICK sent : sent = Picked(outbox, Flying(outbox))
  OBVIOUS
<1>4. /\ sent \in Seq(Items) /\ (Len(sent) = 0 \/ Len(sent) = 1)
      /\ Len(sent) = 1 => 1 \in DOMAIN outbox /\ 1 \in Flying(outbox) /\ sent[1] = outbox[1]
  BY <1>1, <1>2, <1>3, SentIs
<1>5. PICK id : id = FreshId(outbox, Known)
  OBVIOUS
<1>6. id \in Nat /\ id \notin Ids(outbox) \cup Ids(Known)
  BY <1>1, <1>2, <1>5, FreshIdIs
<1>7. PICK x : x = [id |-> id, kind |-> kind, revision |-> live.local, base |-> 0,
                    sections |-> NoSections, final |-> FALSE, state |-> "queued"]
  OBVIOUS
<1>8. NoSections \in SectionValues
  <2>1. NoSections \in [{} -> Editions]
    BY DEF NoSections
  <2>2. {} \in SUBSET Sections
    OBVIOUS
  <2> QED
    BY <2>1, <2>2 DEF SectionValues
<1>9. x \in Items /\ x.id = id /\ x.kind = kind /\ x.state = "queued" /\ x.sections = NoSections
  BY <1>1, <1>6, <1>7, <1>8 DEF Items
<1>10. PICK r : r = Append(sent, x)
  OBVIOUS
<1>11. PICK record : record = [live EXCEPT !.lifecycle = lifecycle, !.outbox = r]
  OBVIOUS
<1>12. record = Barrier(kind, lifecycle)
  BY <1>2, <1>3, <1>5, <1>7, <1>10, <1>11 DEF Barrier
<1>13. PICK n \in Nat : n = Len(sent) /\ n <= 1
  <2>1. PICK n \in Nat : n = Len(sent)
    BY <1>4
  <2>2. n = 0 \/ n = 1
    BY <1>4, <2>1
  <2> QED
    BY <2>1, <2>2
<1>14. /\ r \in Seq(Items) /\ DOMAIN r = 1..(n + 1) /\ r[n + 1] = x
       /\ \A k \in 1..n : r[k] = sent[k]
  BY <1>4, <1>9, <1>10, <1>13
<1>15. \A k \in 1..(n + 1) :
         \/ k = n + 1 /\ r[k] = x
         \/ k = 1 /\ n = 1 /\ r[k] = outbox[1] /\ 1 \in DOMAIN outbox /\ 1 \in Flying(outbox)
  <2>1. ASSUME NEW k \in 1..(n + 1), k # n + 1
        PROVE  k = 1 /\ n = 1 /\ r[k] = outbox[1] /\ 1 \in DOMAIN outbox /\ 1 \in Flying(outbox)
    <3>1. k = 1 /\ n = 1
      BY <1>13, <2>1
    <3> QED
      BY <1>4, <1>13, <1>14, <3>1
  <2> QED
    BY <1>14, <2>1
<1>16. /\ record \in Records /\ record.lifecycle = lifecycle /\ record.outbox = r
  BY <1>1, <1>11, <1>14 DEF Records, Lifecycles
<1>17. Distinct(r)
  BY <1>6, <1>9, <1>14, <1>15 DEF Distinct, Ids
<1>18. \A k \in DOMAIN r : InFlight(r[k]) => k = 1 /\ r[k] = outbox[1] /\ 1 \in Flying(outbox)
  BY <1>9, <1>14, <1>15 DEF InFlight
<1>19. InFront(r)
  BY <1>18 DEF InFront, Flying
<1>20. 1 \in DOMAIN outbox /\ outbox[1].kind \in Barriers =>
         kind = "delete" /\ outbox[1].sections = NoSections
  BY <1>1, <1>2 DEF Phased, Projecting, Ending
<1>21. Phased(lifecycle, r)
  <2>1. ASSUME NEW k \in DOMAIN r
        PROVE  /\ r[k].kind \in Barriers => lifecycle \in Ending /\ r[k].sections = NoSections
               /\ r[k].kind = "delete" => lifecycle = "deleting"
               /\ lifecycle \in Ending => r[k].kind \in Barriers \/ InFlight(r[k])
    <3>1. CASE r[k] = x
      BY <1>9, <3>1 DEF Barriers, Ending
    <3>2. CASE r[k] = outbox[1] /\ 1 \in DOMAIN outbox /\ 1 \in Flying(outbox)
      BY <1>20, <3>2 DEF Barriers, Ending, Flying
    <3> QED
      BY <1>14, <1>15, <3>1, <3>2
  <2>2. ASSUME lifecycle = "unpublishing", NEW i \in DOMAIN r, NEW j \in DOMAIN r,
               r[i].kind \in Barriers, r[j].kind \in Barriers
        PROVE  i = j
    <3>1. \A k \in DOMAIN r : r[k].kind \in Barriers => k = n + 1
      BY <1>14, <1>15, <1>20, <2>2
    <3> QED
      BY <2>2, <3>1
  <2> QED
    BY <2>1, <2>2 DEF Phased, Ending
<1>22. ASSUME attempt # None PROVE Awaited(attempt, lifecycle, r)
  <2>1. Awaited(attempt, live.lifecycle, outbox) /\ Known = attempt.live.outbox
    BY <1>2, <1>22, KnownIs DEF DocInv
  <2>2. \A k \in Flying(r) : r[k].id = attempt.item.id
    BY <1>18, <2>1 DEF Awaited, Flying
  <2>3. KnownFirst(attempt.live.outbox, r)
    <3>1. ASSUME NEW i \in DOMAIN r, NEW j \in DOMAIN r, i < j PROVE j \in Newer(Known, r)
      <4>1. j = n + 1
        BY <1>13, <1>14, <3>1
      <4> QED
        BY <1>6, <1>9, <1>14, <4>1 DEF Newer
    <3> QED
      BY <2>1, <3>1 DEF KnownFirst
  <2>4. lifecycle = "unpublishing" =>
          attempt.item.kind \notin Barriers
          /\ \A i \in DOMAIN attempt.live.outbox : attempt.live.outbox[i].kind # "delete"
    BY <2>1 DEF Awaited, Projecting, Ending, Barriers
  <2> QED
    BY <2>2, <2>3, <2>4 DEF Awaited, Ending
<1>23. \A k \in DOMAIN r :
         r[k].sections = NoSections \/ (k = 1 /\ 1 \in DOMAIN outbox /\ r[k] = outbox[1])
  BY <1>9, <1>14, <1>15
<1> QED
  BY <1>2, <1>12, <1>16, <1>17, <1>19, <1>21, <1>22, <1>23 DEF Sound

\* Taking the page down keeps the document sound.
LEMMA UnpublishDoc ==
  ASSUME DocInv, Unpublish
  PROVE  DocInv'
<1>1. PICK record : record = Barrier("unpublish", "unpublishing")
  OBVIOUS
<1>2. /\ Sound(record) /\ record.lifecycle = "unpublishing"
      /\ attempt # None => Awaited(attempt, record.lifecycle, record.outbox)
  BY <1>1, BarrierIs DEF Unpublish, Barriers, Ending
<1>3. Commit(content, record) /\ UNCHANGED <<saved, network, page>> /\ hurried' \in BOOLEAN
  BY <1>1 DEF Unpublish, public, DocInv, TypeInv
<1> QED
  BY <1>2, <1>3, CommitDoc DEF DocInv, TypeInv

\* Deleting the page keeps the document sound.
LEMMA DeleteDoc ==
  ASSUME DocInv, Delete
  PROVE  DocInv'
<1>1. PICK record : record = Barrier("delete", "deleting")
  OBVIOUS
<1>2. /\ Sound(record) /\ record.lifecycle = "deleting"
      /\ attempt # None => Awaited(attempt, record.lifecycle, record.outbox)
  BY <1>1, BarrierIs DEF Delete, Barriers, Ending
<1>3. Commit(content, record) /\ UNCHANGED <<saved, network, page>> /\ hurried' \in BOOLEAN
  BY <1>1 DEF Delete, public, DocInv, TypeInv
<1> QED
  BY <1>2, <1>3, CommitDoc DEF DocInv, TypeInv

\* Leaving the page as it is keeps the document sound.
LEMMA DisableDoc ==
  ASSUME DocInv, Disable
  PROVE  DocInv'
<1>1. /\ live \in Records /\ Distinct(live.outbox) /\ InFront(live.outbox)
      /\ live.lifecycle \in Projecting \cup {"unpublished"}
      /\ Phased(live.lifecycle, live.outbox)
  BY DEF Disable, DocInv, Sound
<1>2. /\ live' \in Records /\ live'.lifecycle = "disabled" /\ live'.outbox = live.outbox
  BY <1>1 DEF Disable, Records, Lifecycles
<1>3. \A i \in DOMAIN live.outbox : live.outbox[i].kind \notin Barriers
  BY <1>1 DEF Phased, Projecting, Ending
<1>4. Sound(live')
  BY <1>1, <1>2, <1>3 DEF Sound, Phased, Ending, Barriers
<1>5. ASSUME attempt # None PROVE Awaited(attempt, "disabled", live.outbox)
  <2>1. Awaited(attempt, live.lifecycle, live.outbox)
    BY <1>5 DEF DocInv
  <2> QED
    BY <1>1, <2>1 DEF Awaited, Projecting, Ending
<1>6. TypeInv'
  BY DEF DocInv, TypeInv, Disable, network, public
<1> QED
  BY <1>2, <1>4, <1>5, <1>6 DEF DocInv, Disable, network

\* What is saved is the document.
LEMMA SaveDoc ==
  ASSUME DocInv, Save
  PROVE  DocInv'
<1>1. TypeInv' /\ Sound(saved'.live)
  BY DEF DocInv, TypeInv, Sound, Save, document, network, public
<1> QED
  BY <1>1 DEF DocInv, Save, document, network

-----------------------------------------------------------------------------
(* The drain begins.                                                       *)

\* The same item, whatever its state.
Same(x, y) == x.id = y.id /\ x.kind = y.kind /\ x.sections = y.sections

\* r holds the items of q at these places, in their order, in whatever state.
Selects(r, q, at) ==
  /\ r \in Seq(Items) /\ Rising(at, Len(r), Len(q))
  /\ \A k \in 1..Len(r) : Same(r[k], q[at[k]])

\* A selection of an outbox is in its order.
LEMMA SelectedIs ==
  ASSUME NEW q \in Seq(Items), NEW r, NEW at, Selects(r, q, at)
  PROVE  /\ Distinct(q) => Distinct(r)
         /\ Ordered(q) => Ordered(r)
         /\ \A c : Ends(q, c) => Ends(r, c)
         /\ \A known : KnownFirst(known, q) => KnownFirst(known, r)
         /\ \A v, known : Follows(v, known, q) => Follows(v, known, r)
<1>1. PICK m \in Nat, n \in Nat :
        /\ m = Len(r) /\ DOMAIN r = 1..m /\ n = Len(q) /\ DOMAIN q = 1..n
  BY DEF Selects
<1>2. \A k \in 1..m : at[k] \in 1..n
  BY <1>1 DEF Selects, Rising
<1>3. \A i, j \in 1..m : i < j => at[i] < at[j]
  BY <1>1 DEF Selects, Rising
<1>4. \A k \in 1..m : r[k].id = q[at[k]].id /\ r[k].sections = q[at[k]].sections
  BY <1>1 DEF Selects, Same
<1>5. ASSUME Distinct(q), NEW i \in 1..m, NEW j \in 1..m, r[i].id = r[j].id PROVE i = j
  <2>1. at[i] = at[j]
    BY <1>1, <1>2, <1>4, <1>5 DEF Distinct
  <2>2. ~(at[i] < at[j]) /\ ~(at[j] < at[i])
    BY <1>2, <2>1
  <2> QED
    BY <1>3, <2>2
<1>6. Ordered(q) => Ordered(r)
  BY <1>1, <1>2, <1>3, <1>4 DEF Ordered
<1>7. \A c : Ends(q, c) => Ends(r, c)
  BY <1>1, <1>2, <1>4 DEF Ends
<1>8. \A known : \A k \in 1..m : k \in Newer(known, r) <=> at[k] \in Newer(known, q)
  BY <1>1, <1>2, <1>4 DEF Newer
<1>9. \A known : KnownFirst(known, q) => KnownFirst(known, r)
  BY <1>1, <1>2, <1>3, <1>8 DEF KnownFirst
<1>10. \A v, known : Follows(v, known, q) => Follows(v, known, r)
  <2>1. ASSUME NEW v, NEW known, Follows(v, known, q), NEW j \in Newer(known, r)
        PROVE  Precedes(v, r[j].sections)
    <3>1. j \in 1..m
      BY <1>1 DEF Newer
    <3> QED
      BY <1>4, <1>8, <2>1, <3>1 DEF Follows
  <2> QED
    BY <2>1 DEF Follows
<1> QED
  BY <1>1, <1>5, <1>6, <1>7, <1>9, <1>10 DEF Distinct

\* Another state makes no other item.
LEMMA StateIs ==
  ASSUME NEW x \in Items, NEW state \in {"queued", "in-flight", "stopped"}
  PROVE  /\ [x EXCEPT !.state = state] \in Items /\ [x EXCEPT !.state = state].state = state
         /\ Same([x EXCEPT !.state = state], x)
BY DEF Items, Same

\* What is recovered is the outbox without what a barrier has superseded, and nothing of
\* it is in flight.
LEMMA RecoveredIs ==
  ASSUME NEW record, Sound(record)
  PROVE  LET new == Recovered(record) IN
         /\ Sound(new) /\ new = [record EXCEPT !.outbox = new.outbox]
         /\ new.lifecycle = record.lifecycle /\ new.ack = record.ack /\ new.local = record.local
         /\ Flying(new.outbox) = {}
         /\ \E at : Selects(new.outbox, record.outbox, at)
         /\ new.lifecycle \in Ending =>
              \A k \in DOMAIN new.outbox : new.outbox[k].kind \in Barriers
         /\ new.lifecycle \notin Ending =>
              \A i \in DOMAIN record.outbox :
                \E k \in DOMAIN new.outbox : Same(new.outbox[k], record.outbox[i])
<1>1. PICK outbox : outbox = record.outbox
  OBVIOUS
<1>2. /\ record \in Records /\ outbox \in Seq(Items) /\ Distinct(outbox) /\ InFront(outbox)
      /\ Phased(record.lifecycle, outbox)
  BY <1>1 DEF Sound, Records
<1>3. PICK superseded : superseded = {i \in Flying(outbox) : /\ record.lifecycle \in Ending
                                                             /\ outbox[i].kind \notin Barriers}
  OBVIOUS
<1>4. PICK places : places = DOMAIN outbox \ superseded
  OBVIOUS
<1>5. PICK kept : kept = Picked(outbox, places)
  OBVIOUS
<1>6. kept \in Seq(Items)
  BY <1>2, <1>5, PickedIs
<1>7. PICK at : /\ Rising(at, Len(kept), Len(outbox))
                /\ \A k \in 1..Len(kept) : at[k] \in places /\ kept[k] = outbox[at[k]]
                /\ \A i \in places \cap (1..Len(outbox)) : \E k \in 1..Len(kept) : at[k] = i
  BY <1>2, <1>5, PickedIs
<1>8. PICK r : r = [i \in DOMAIN kept |-> IF InFlight(kept[i])
                                            THEN [kept[i] EXCEPT !.state = "queued"] ELSE kept[i]]
  OBVIOUS
<1>9. Recovered(record) = [record EXCEPT !.outbox = r]
  BY <1>1, <1>3, <1>4, <1>5, <1>8 DEF Recovered
<1>10. PICK n \in Nat : n = Len(kept) /\ DOMAIN kept = 1..n
  BY <1>6
<1>11. ASSUME NEW k \in 1..n
       PROVE  /\ r[k] \in Items /\ ~InFlight(r[k]) /\ Same(r[k], kept[k])
              /\ r[k].state = kept[k].state \/ InFlight(kept[k])
  <2>1. kept[k] \in Items /\ r[k] = IF InFlight(kept[k])
                                      THEN [kept[k] EXCEPT !.state = "queued"] ELSE kept[k]
    BY <1>6, <1>8, <1>10
  <2>2. CASE InFlight(kept[k])
    BY <2>1, <2>2, StateIs DEF InFlight
  <2>3. CASE ~InFlight(kept[k])
    BY <2>1, <2>3 DEF Same
  <2> QED
    BY <2>2, <2>3
<1>12. r \in Seq(Items) /\ Len(r) = n /\ DOMAIN r = 1..n
  BY <1>8, <1>10, <1>11
<1>13. Selects(r, outbox, at)
  BY <1>7, <1>10, <1>11, <1>12 DEF Selects, Same
<1>14. Flying(r) = {}
  BY <1>11, <1>12 DEF Flying
<1>15. PICK new : new = Recovered(record)
  OBVIOUS
<1>16. /\ new \in Records /\ new.outbox = r /\ new.lifecycle = record.lifecycle
       /\ new.ack = record.ack /\ new.local = record.local
  BY <1>2, <1>9, <1>12, <1>15 DEF Records
<1>17. \A k \in 1..n : at[k] \in DOMAIN outbox /\ at[k] \notin superseded /\ Same(r[k], outbox[at[k]])
  BY <1>4, <1>7, <1>10, <1>11 DEF Same
<1>18. record.lifecycle \in Ending => \A k \in DOMAIN r : r[k].kind \in Barriers
  BY <1>2, <1>3, <1>12, <1>17 DEF Same, Phased, Flying
<1>19. Phased(record.lifecycle, r)
  <2>1. \A k \in DOMAIN r :
          /\ r[k].kind \in Barriers => record.lifecycle \in Ending /\ r[k].sections = NoSections
          /\ r[k].kind = "delete" => record.lifecycle = "deleting"
          /\ record.lifecycle \in Ending => r[k].kind \in Barriers \/ InFlight(r[k])
    BY <1>2, <1>12, <1>17, <1>18 DEF Same, Phased
  <2>2. ASSUME record.lifecycle = "unpublishing", NEW i \in DOMAIN r, NEW j \in DOMAIN r,
               r[i].kind \in Barriers, r[j].kind \in Barriers
        PROVE  i = j
    <3>1. at[i] = at[j]
      BY <1>2, <1>12, <1>17, <2>2 DEF Same, Phased
    <3>2. at[i] \in Nat /\ ~(at[i] < at[j]) /\ ~(at[j] < at[i])
      BY <1>2, <1>12, <1>17, <2>2, <3>1
    <3> QED
      BY <1>7, <1>10, <1>12, <3>2 DEF Rising
  <2>3. ASSUME record.lifecycle \in {"unpublished", "deleted"} PROVE r = <<>>
    <3>1. outbox = <<>>
      BY <1>2, <2>3 DEF Phased
    <3>2. \A k \in 1..n : FALSE
      BY <1>17, <3>1
    <3> QED
      BY <1>12, <3>2
  <2> QED
    BY <2>1, <2>2, <2>3 DEF Phased
<1>20. Sound(new)
  BY <1>2, <1>13, <1>14, <1>16, <1>19, SelectedIs DEF Sound, InFront
<1>21. ASSUME record.lifecycle \notin Ending, NEW i \in DOMAIN outbox
       PROVE  \E k \in DOMAIN r : Same(r[k], outbox[i])
  <2>1. i \in places \cap (1..Len(outbox))
    BY <1>2, <1>3, <1>4, <1>21
  <2>2. PICK k \in 1..Len(kept) : at[k] = i
    BY <1>7, <2>1
  <2> QED
    BY <1>10, <1>12, <1>17, <2>2
<1> QED
  BY <1>1, <1>9, <1>13, <1>14, <1>15, <1>16, <1>18, <1>20, <1>21

\* Marking the head puts it in flight, and nothing else.
LEMMA MarkedIs ==
  ASSUME NEW outbox \in Seq(Items), outbox # <<>>, Flying(outbox) = {}
  PROVE  LET r == [outbox EXCEPT ![1].state = "in-flight"] IN
         /\ r \in Seq(Items) /\ Len(r) = Len(outbox) /\ r # <<>> /\ Flying(r) = {1}
         /\ r[1] = [outbox[1] EXCEPT !.state = "in-flight"] /\ outbox[1] \in Items
         /\ \A k \in DOMAIN outbox : Same(r[k], outbox[k])
<1>1. PICK r : r = [outbox EXCEPT ![1].state = "in-flight"]
  OBVIOUS
<1>2. PICK n \in Nat : n = Len(outbox) /\ DOMAIN outbox = 1..n /\ n > 0
  OBVIOUS
<1>3. 1 \in 1..n /\ outbox[1] \in Items
  BY <1>2
<1>4. PICK x : x = [outbox[1] EXCEPT !.state = "in-flight"]
  OBVIOUS
<1>5. x \in Items /\ x.state = "in-flight" /\ Same(x, outbox[1])
  BY <1>3, <1>4, StateIs
<1>6. r = [outbox EXCEPT ![1] = x]
  BY <1>1, <1>4
<1>7. /\ r \in Seq(Items) /\ Len(r) = n /\ DOMAIN r = 1..n /\ r[1] = x
      /\ \A k \in 1..n : k # 1 => r[k] = outbox[k]
  BY <1>2, <1>3, <1>5, <1>6
<1>8. \A k \in 1..n : Same(r[k], outbox[k])
  BY <1>5, <1>7 DEF Same
<1>9. Flying(r) = {1}
  BY <1>2, <1>3, <1>5, <1>7 DEF Flying, InFlight
<1>10. /\ r \in Seq(Items) /\ Len(r) = Len(outbox) /\ r # <<>> /\ Flying(r) = {1}
       /\ r[1] = [outbox[1] EXCEPT !.state = "in-flight"] /\ outbox[1] \in Items
       /\ \A k \in DOMAIN outbox : Same(r[k], outbox[k])
  BY <1>2, <1>3, <1>4, <1>7, <1>8, <1>9
<1> QED
  BY <1>1, <1>10

\* What a drain begins with: the outbox as recovered, its head marked, from which the
\* document goes on, and what was derived last.
Begins(marked, before, was) ==
  /\ Sound(marked) /\ marked.lifecycle = live.lifecycle /\ marked.outbox # <<>>
  /\ marked.ack = live.ack /\ marked.local = live.local
  /\ Flying(marked.outbox) = {1}
  /\ \E at : Selects(marked.outbox, live.outbox, at)
  /\ live.lifecycle \in Ending =>
       \A k \in DOMAIN marked.outbox : marked.outbox[k].kind \in Barriers
  /\ live.lifecycle \notin Ending =>
       \A i \in DOMAIN live.outbox :
         \E k \in DOMAIN marked.outbox : Same(marked.outbox[k], live.outbox[i])
  /\ Sound(before) /\ before.outbox = marked.outbox /\ before.lifecycle = live.lifecycle
  /\ was \in Snapshots \cup {None} /\ (was = cache \/ was.sections = content)
  /\ \E item \in Items :
       /\ item.state = "queued" /\ marked.outbox[1] = [item EXCEPT !.state = "in-flight"]
       /\ attempt' = [item |-> item, live |-> marked, snapshot |-> cache']
       /\ request' = item
  /\ live' = Derived(content, before, was).live
  /\ cache' = Derived(content, before, was).cache

\* How a drain begins.
LEMMA StartIs ==
  ASSUME DocInv, StartAttempt
  PROVE  \E marked, before, was : Begins(marked, before, was)
<1>1. /\ Sound(live) /\ content \in Contents /\ cache \in Snapshots \cup {None}
      /\ Known \in Seq(Items)
  BY KnownIs DEF DocInv, TypeInv
<1>2. PICK rec : rec = Recovered(live)
  OBVIOUS
<1>3. /\ Sound(rec) /\ rec = [live EXCEPT !.outbox = rec.outbox]
      /\ rec.lifecycle = live.lifecycle /\ rec.ack = live.ack /\ rec.local = live.local
      /\ Flying(rec.outbox) = {}
      /\ \E at : Selects(rec.outbox, live.outbox, at)
      /\ rec.lifecycle \in Ending =>
           \A k \in DOMAIN rec.outbox : rec.outbox[k].kind \in Barriers
      /\ rec.lifecycle \notin Ending =>
           \A i \in DOMAIN live.outbox :
             \E k \in DOMAIN rec.outbox : Same(rec.outbox[k], live.outbox[i])
  BY <1>1, <1>2, RecoveredIs
<1>4. PICK outbox : outbox = rec.outbox
  OBVIOUS
<1>5. PICK item : item = Head(outbox)
  OBVIOUS
<1>6. /\ rec \in Records /\ outbox \in Seq(Items) /\ outbox # <<>>
      /\ item = outbox[1] /\ item.state = "queued"
  BY <1>2, <1>3, <1>4, <1>5 DEF StartAttempt, Sendable, Sound, Records
<1>7. PICK r : r = [outbox EXCEPT ![1].state = "in-flight"]
  OBVIOUS
<1>8. /\ r \in Seq(Items) /\ Len(r) = Len(outbox) /\ r # <<>> /\ Flying(r) = {1}
      /\ r[1] = [item EXCEPT !.state = "in-flight"] /\ item \in Items
      /\ \A k \in DOMAIN outbox : Same(r[k], outbox[k])
  BY <1>3, <1>4, <1>6, <1>7, MarkedIs
<1>9. PICK marked : marked = [rec EXCEPT !.outbox = r]
  OBVIOUS
<1>10. marked = [rec EXCEPT !.outbox[1].state = "in-flight"]
  BY <1>4, <1>7, <1>9
<1>11. /\ marked \in Records /\ marked.outbox = r /\ marked.lifecycle = live.lifecycle
       /\ marked.ack = live.ack /\ marked.local = live.local
  BY <1>3, <1>6, <1>8, <1>9 DEF Records
<1>12. PICK recovered : recovered = IF rec = live THEN [live |-> live, cache |-> cache]
                                                  ELSE Derived(content, rec, cache)
  OBVIOUS
<1>13. /\ Sound(recovered.live) /\ recovered.live.lifecycle = live.lifecycle
       /\ recovered.cache \in Snapshots \cup {None}
       /\ recovered.cache = cache \/ recovered.cache.sections = content
  <2>1. CASE rec = live
    BY <1>1, <1>12, <2>1
  <2>2. CASE rec # live
    <3>1. recovered = Derived(content, rec, cache)
      BY <1>12, <2>2
    <3>2. /\ Sound(recovered.live) /\ recovered.cache \in Snapshots \cup {None}
          /\ recovered.live.lifecycle = rec.lifecycle
      BY <1>1, <1>3, <3>1, DerivedSound
    <3>3. recovered.cache = cache \/ recovered.cache.sections = content
      <4>1. InFront(rec.outbox) /\ rec \in Records
        BY <1>3 DEF Sound
      <4>2. \/ recovered.live = rec /\ recovered.cache = cache
            \/ Joined(recovered, rec, cache, content, Known)
        BY <1>1, <3>1, <4>1, DerivedIs
      <4> QED
        BY <4>2 DEF Joined
    <3> QED
      BY <1>3, <3>2, <3>3
  <2> QED
    BY <2>1, <2>2
<1>14. PICK before : before = [recovered.live EXCEPT !.outbox = marked.outbox]
  OBVIOUS
<1>15. /\ before \in Records /\ before.outbox = r /\ before.lifecycle = live.lifecycle
  BY <1>8, <1>11, <1>13, <1>14 DEF Sound, Records
<1>16. \E at : Selects(r, outbox, at)
  <2>1. PICK at : at = [k \in 1..Len(r) |-> k]
    OBVIOUS
  <2>2. Rising(at, Len(r), Len(outbox)) /\ \A k \in 1..Len(r) : at[k] = k
    BY <1>6, <1>8, <2>1 DEF Rising
  <2>3. \A k \in 1..Len(r) : Same(r[k], outbox[at[k]])
    BY <1>6, <1>8, <2>2
  <2> QED
    BY <1>8, <2>2, <2>3 DEF Selects
<1>17. Distinct(r)
  BY <1>3, <1>4, <1>6, <1>16, SelectedIs DEF Sound
<1>18. InFront(r)
  BY <1>8 DEF InFront
<1>19. /\ DOMAIN r = DOMAIN outbox
       /\ \A k \in DOMAIN r : r[k].kind = outbox[k].kind /\ r[k].sections = outbox[k].sections
  BY <1>6, <1>8 DEF Same
<1>20. Phased(live.lifecycle, r)
  <2>1. Phased(live.lifecycle, outbox)
    BY <1>3, <1>4 DEF Sound
  <2>2. live.lifecycle \in Ending => \A k \in DOMAIN r : r[k].kind \in Barriers
    BY <1>3, <1>4, <1>19
  <2>3. \A k \in DOMAIN r :
          /\ r[k].kind \in Barriers => live.lifecycle \in Ending /\ r[k].sections = NoSections
          /\ r[k].kind = "delete" => live.lifecycle = "deleting"
          /\ live.lifecycle \in Ending => r[k].kind \in Barriers \/ InFlight(r[k])
    BY <1>19, <2>1, <2>2 DEF Phased
  <2>4. live.lifecycle = "unpublishing" =>
          \A i, j \in DOMAIN r : r[i].kind \in Barriers /\ r[j].kind \in Barriers => i = j
    BY <1>19, <2>1 DEF Phased
  <2>5. live.lifecycle \notin {"unpublished", "deleted"}
    BY <1>6, <2>1 DEF Phased
  <2> QED
    BY <2>3, <2>4, <2>5 DEF Phased
<1>21. Sound(marked) /\ Sound(before)
  BY <1>11, <1>15, <1>17, <1>18, <1>20 DEF Sound
<1>22. \E at : Selects(r, live.outbox, at)
  <2>1. PICK at1 : Selects(r, outbox, at1)
    BY <1>16
  <2>2. PICK at2 : Selects(outbox, live.outbox, at2)
    BY <1>3, <1>4
  <2>3. PICK k1 \in Nat, k2 \in Nat, k3 \in Nat :
          k1 = Len(r) /\ k2 = Len(outbox) /\ k3 = Len(live.outbox)
    <3>1. live.outbox \in Seq(Items)
      BY <1>1 DEF Sound, Records
    <3>2. Len(r) \in Nat /\ Len(outbox) \in Nat /\ Len(live.outbox) \in Nat
      BY <1>6, <1>8, <3>1
    <3> QED
      BY <3>2
  <2>4. PICK at : at = [k \in 1..k1 |-> at2[at1[k]]]
    OBVIOUS
  <2>5. \A k \in 1..k1 : at1[k] \in 1..k2 /\ at2[at1[k]] \in 1..k3 /\ at[k] = at2[at1[k]]
    BY <2>1, <2>2, <2>3, <2>4 DEF Selects, Rising
  <2>6. at \in [1..k1 -> 1..k3]
    BY <2>4, <2>5
  <2>7. \A i, j \in 1..k1 : i < j => at[i] < at[j]
    BY <2>1, <2>2, <2>3, <2>5 DEF Selects, Rising
  <2>8. ASSUME NEW k \in 1..k1 PROVE Same(r[k], live.outbox[at[k]])
    <3>1. PICK i \in 1..k2 : i = at1[k] /\ at[k] = at2[i]
      BY <2>5
    <3>2. Same(r[k], outbox[i])
      BY <2>1, <2>3, <3>1 DEF Selects
    <3>3. Same(outbox[i], live.outbox[at2[i]])
      BY <2>2, <2>3, <3>1 DEF Selects
    <3> QED
      BY <3>1, <3>2, <3>3 DEF Same
  <2> QED
    BY <1>8, <2>3, <2>6, <2>7, <2>8 DEF Selects, Rising
<1>23. live.lifecycle \in Ending => \A k \in DOMAIN r : r[k].kind \in Barriers
  BY <1>3, <1>4, <1>19
<1>24. live.lifecycle \notin Ending =>
         \A i \in DOMAIN live.outbox : \E k \in DOMAIN r : Same(r[k], live.outbox[i])
  BY <1>3, <1>4, <1>8, <1>19 DEF Same
<1>25. /\ live' = Derived(content, before, recovered.cache).live
       /\ cache' = Derived(content, before, recovered.cache).cache
       /\ attempt' = [item |-> item, live |-> marked, snapshot |-> cache']
       /\ request' = item
  BY <1>2, <1>4, <1>5, <1>10, <1>12, <1>14 DEF StartAttempt
<1>26. \E i \in Items :
         /\ i.state = "queued" /\ marked.outbox[1] = [i EXCEPT !.state = "in-flight"]
         /\ attempt' = [item |-> i, live |-> marked, snapshot |-> cache'] /\ request' = i
  BY <1>6, <1>8, <1>11, <1>25
<1>27. Begins(marked, before, recovered.cache)
  BY <1>8, <1>11, <1>13, <1>15, <1>21, <1>22, <1>23, <1>24, <1>25, <1>26 DEF Begins
<1> QED
  BY <1>27

\* What a drain holds of the record it began with.
LEMMA BegunIs ==
  ASSUME DocInv, StartAttempt, NEW marked, NEW before, NEW was, Begins(marked, before, was)
  PROVE  /\ Sound(live') /\ cache' \in Snapshots \cup {None}
         /\ attempt' \in Attempts /\ request' = attempt'.item
         /\ attempt'.live = marked /\ attempt'.snapshot = cache'
         /\ Began(attempt') /\ Awaited(attempt', live'.lifecycle, live'.outbox)
<1>1. Known = <<>> /\ Known \in Seq(Items) /\ content \in Contents
  BY DEF StartAttempt, Known, DocInv, TypeInv
<1>2. Sound(before) /\ was \in Snapshots \cup {None}
  BY DEF Begins
<1>3. /\ Sound(live') /\ cache' \in Snapshots \cup {None}
      /\ live'.lifecycle = before.lifecycle
      /\ ~Publishes(before) => live' = before
      /\ \A k \in Flying(live'.outbox) :
           \E i \in Flying(before.outbox) : live'.outbox[k].id = before.outbox[i].id
      /\ KnownFirst(before.outbox, before.outbox) => KnownFirst(before.outbox, live'.outbox)
  BY <1>1, <1>2, DerivedSound DEF Begins
<1>4. PICK r : r = marked.outbox
  OBVIOUS
<1>5. PICK lifecycle : lifecycle = live.lifecycle
  OBVIOUS
<1>6. /\ r = before.outbox /\ lifecycle = before.lifecycle /\ lifecycle = live'.lifecycle
      /\ r \in Seq(Items) /\ r # <<>> /\ Flying(r) = {1} /\ Distinct(r) /\ InFront(r)
      /\ Phased(lifecycle, r) /\ marked \in Records
      /\ lifecycle \in Ending => \A k \in DOMAIN r : r[k].kind \in Barriers
  BY <1>3, <1>4, <1>5 DEF Begins, Sound, Records
<1>7. PICK item \in Items :
        /\ item.state = "queued" /\ r[1] = [item EXCEPT !.state = "in-flight"]
        /\ attempt' = [item |-> item, live |-> marked, snapshot |-> cache']
        /\ request' = item
  BY <1>4 DEF Begins
<1>8. PICK a : a = attempt'
  OBVIOUS
<1>9. a = [item |-> item, live |-> marked, snapshot |-> cache']
  BY <1>7, <1>8
<1>10. /\ a \in Attempts /\ a.item = item /\ a.live = marked /\ a.snapshot = cache'
  BY <1>3, <1>6, <1>9 DEF Attempts
<1>11. 1 \in DOMAIN r /\ item.kind = r[1].kind /\ item.id = r[1].id /\ item.sections = r[1].sections
  BY <1>6, <1>7 DEF Items
<1>12. lifecycle \notin Ending => \A k \in DOMAIN r : r[k].kind \notin Barriers
  BY <1>6 DEF Phased
<1>13. \A i \in DOMAIN r :
         /\ r[i].kind \in Barriers <=> item.kind \in Barriers
         /\ r[i].kind \in Barriers => r[i].sections = NoSections
  BY <1>6, <1>11, <1>12 DEF Phased
<1>14. Began(a)
  BY <1>4, <1>6, <1>7, <1>10, <1>13 DEF Began
<1>15. \A i \in Flying(live'.outbox) : live'.outbox[i].id = item.id
  BY <1>3, <1>6, <1>11
<1>16. KnownFirst(r, live'.outbox)
  BY <1>3, <1>6, KnownAlways
<1>17. lifecycle \notin {"unpublished", "deleted"}
  BY <1>6 DEF Phased
<1>18. item.kind \in Barriers => lifecycle \in Ending
  BY <1>11, <1>12
<1>19. \A i \in DOMAIN r : r[i].kind = "delete" => lifecycle = "deleting"
  BY <1>6 DEF Phased
<1>20. ASSUME lifecycle = "unpublishing" PROVE Len(r) = 1 /\ Newer(r, live'.outbox) = {}
  <2>1. \A i, j \in DOMAIN r : i = j
    BY <1>6, <1>20 DEF Phased, Ending
  <2>2. Len(r) = 1
    <3>1. PICK n \in Nat : n = Len(r) /\ DOMAIN r = 1..n /\ n > 0
      BY <1>6
    <3>2. 1 \in 1..n /\ n \in 1..n
      BY <3>1
    <3> QED
      BY <2>1, <3>1, <3>2
  <2>3. ~Publishes(before)
    BY <1>6, <1>20 DEF Publishes, Projecting
  <2>4. live'.outbox = r
    BY <1>3, <1>6, <2>3
  <2> QED
    BY <1>6, <2>2, <2>4, KnownAlways
<1>21. Awaited(a, live'.lifecycle, live'.outbox)
  BY <1>4, <1>6, <1>10, <1>15, <1>16, <1>17, <1>18, <1>19, <1>20 DEF Awaited
<1> QED
  BY <1>3, <1>7, <1>8, <1>10, <1>14, <1>21

\* Beginning to send keeps the document sound, and what the drain holds is as it was.
LEMMA StartDoc ==
  ASSUME DocInv, StartAttempt
  PROVE  DocInv'
<1>1. PICK marked, before, was : Begins(marked, before, was)
  BY StartIs
<1>2. /\ Sound(live') /\ cache' \in Snapshots \cup {None}
      /\ attempt' \in Attempts /\ request' = attempt'.item
      /\ Began(attempt') /\ Awaited(attempt', live'.lifecycle, live'.outbox)
  BY <1>1, BegunIs
<1>3. attempt = None /\ answer = None /\ UNCHANGED <<content, saved, answer, late, public>>
  BY DEF StartAttempt, DocInv
<1>4. attempt' # None
  BY <1>2, NoneAssumption
<1>5. TypeInv'
  BY <1>2, <1>3, <1>4 DEF DocInv, TypeInv, public
<1> QED
  BY <1>2, <1>3, <1>4, <1>5 DEF DocInv

-----------------------------------------------------------------------------
(* The drain ends.                                                         *)

\* What is left of an outbox whose head was sent: nothing in flight, and all but the head.
Remains(r, old, at) ==
  /\ Selects(r, old, at) /\ Flying(r) = {}
  /\ \A i \in DOMAIN old \ {1} : \E k \in DOMAIN r : Same(r[k], old[i])

\* An outbox without its head.
LEMMA WithoutHead ==
  ASSUME NEW old \in Seq(Items), Distinct(old), InFront(old), old # <<>>
  PROVE  \E at : /\ Remains(Without(old, old[1].id), old, at)
                 /\ \A k \in 1..Len(Without(old, old[1].id)) : at[k] # 1
<1>1. PICK places : places = {i \in DOMAIN old : old[i].id # old[1].id}
  OBVIOUS
<1>2. PICK r : r = Picked(old, places)
  OBVIOUS
<1>3. r = Without(old, old[1].id)
  BY <1>1, <1>2 DEF Without
<1>4. /\ r \in Seq(Items)
      /\ \E at : /\ Rising(at, Len(r), Len(old))
                 /\ \A k \in 1..Len(r) : at[k] \in places /\ r[k] = old[at[k]]
                 /\ \A i \in places \cap (1..Len(old)) : \E k \in 1..Len(r) : at[k] = i
  BY <1>2, PickedIs
<1>5. PICK at : /\ Rising(at, Len(r), Len(old))
                /\ \A k \in 1..Len(r) : at[k] \in places /\ r[k] = old[at[k]]
                /\ \A i \in places \cap (1..Len(old)) : \E k \in 1..Len(r) : at[k] = i
  BY <1>4
<1>6. DOMAIN r = 1..Len(r) /\ DOMAIN old = 1..Len(old) /\ 1 \in DOMAIN old
  BY <1>4
<1>7. \A k \in 1..Len(r) : at[k] # 1 /\ at[k] \in DOMAIN old
  BY <1>1, <1>5
<1>8. Selects(r, old, at)
  BY <1>4, <1>5 DEF Selects, Same
<1>9. Flying(r) = {}
  BY <1>5, <1>6, <1>7 DEF Flying, InFront
<1>10. ASSUME NEW i \in DOMAIN old \ {1} PROVE \E k \in DOMAIN r : Same(r[k], old[i])
  <2>1. i \in places
    BY <1>1, <1>6 DEF Distinct
  <2> QED
    BY <1>5, <1>6, <2>1 DEF Same
<1> QED
  BY <1>3, <1>7, <1>8, <1>9, <1>10 DEF Remains

\* The record as it was, with what came of the request: its head was published and is gone.
Acknowledged(settled, reply, r, at) ==
  /\ reply.kind = "published" /\ \A k \in 1..Len(r) : at[k] # 1
  /\ settled = [attempt.live EXCEPT !.outbox = r, !.ack = reply.revision]

\* The head was refused and is gone, and a snapshot is queued to repair it.
Repaired(settled, reply, r, at) ==
  /\ reply.kind = "conflict" /\ attempt.snapshot # None /\ \A k \in 1..Len(r) : at[k] # 1
  /\ \E x \in Items :
       /\ x.state = "queued" /\ x.kind = "snapshot" /\ x.sections = attempt.snapshot.sections
       /\ x.id \notin Ids(attempt.live.outbox) \cup Ids(live.outbox)
       /\ settled = [attempt.live EXCEPT !.outbox = Append(r, x), !.ack = reply.revision]

\* The head waits to be sent again, or for the Director.
Unchanged(settled, reply, r, at) ==
  /\ reply.kind # "published" /\ settled = [attempt.live EXCEPT !.outbox = r]
  /\ Len(r) = Len(attempt.live.outbox) /\ \A k \in 1..Len(r) : at[k] = k

\* One of the three.
Settled(settled, reply) ==
  \E r, at : /\ Remains(r, attempt.live.outbox, at)
             /\ \/ Acknowledged(settled, reply, r, at)
                \/ Repaired(settled, reply, r, at)
                \/ Unchanged(settled, reply, r, at)

\* What comes of a request.
LEMMA SettledIs ==
  ASSUME DocInv, attempt # None, NEW reply \in Replies
  PROVE  Settled(Outcome(reply), reply)
<1>1. /\ attempt \in Attempts /\ Began(attempt) /\ live \in Records
  BY DEF DocInv, TypeInv, Sound
<1>2. PICK old : old = attempt.live.outbox
  OBVIOUS
<1>3. PICK item : item = attempt.item
  OBVIOUS
<1>4. /\ old \in Seq(Items) /\ old # <<>> /\ Distinct(old) /\ InFront(old)
      /\ item \in Items /\ old[1] = [item EXCEPT !.state = "in-flight"]
      /\ live.outbox \in Seq(Items) /\ attempt.live \in Records
      /\ attempt.snapshot \in Snapshots \cup {None}
  BY <1>1, <1>2, <1>3 DEF Began, Attempts, Records
<1>5. old[1].id = item.id
  BY <1>4 DEF Items
<1>6. PICK rest : rest = Without(old, item.id)
  OBVIOUS
<1>7. PICK at : Remains(rest, old, at) /\ \A k \in 1..Len(rest) : at[k] # 1
  <2>1. \E at : /\ Remains(Without(old, old[1].id), old, at)
                /\ \A k \in 1..Len(Without(old, old[1].id)) : at[k] # 1
    BY <1>4, WithoutHead
  <2> QED
    BY <1>5, <1>6, <2>1
<1>8. PICK settled : settled = Outcome(reply)
  OBVIOUS
<1>9. CASE reply.kind = "published"
  <2>1. settled = [attempt.live EXCEPT !.outbox = rest, !.ack = reply.revision]
    BY <1>2, <1>3, <1>6, <1>8, <1>9 DEF Outcome
  <2> QED
    BY <1>2, <1>7, <1>8, <1>9, <2>1 DEF Settled, Acknowledged
<1>10. CASE reply.kind = "conflict" /\ attempt.snapshot # None
  <2>1. PICK id : id = FreshId(old, live.outbox)
    OBVIOUS
  <2>2. id \in Nat /\ id \notin Ids(old) \cup Ids(live.outbox)
    BY <1>4, <2>1, FreshIdIs
  <2>3. PICK x : x = SnapshotItem(id, attempt.snapshot)
    OBVIOUS
  <2>4. /\ x \in Items /\ x.id = id /\ x.kind = "snapshot" /\ x.state = "queued"
        /\ x.sections = attempt.snapshot.sections
    BY <1>4, <1>10, <2>2, <2>3, SnapshotItemIs
  <2>5. settled = [attempt.live EXCEPT !.outbox = Append(rest, x), !.ack = reply.revision]
    BY <1>2, <1>3, <1>6, <1>8, <1>10, <2>1, <2>3 DEF Outcome
  <2>6. \E y \in Items :
          /\ y.state = "queued" /\ y.kind = "snapshot"
          /\ y.sections = attempt.snapshot.sections
          /\ y.id \notin Ids(old) \cup Ids(live.outbox)
          /\ settled = [attempt.live EXCEPT !.outbox = Append(rest, y), !.ack = reply.revision]
    BY <2>2, <2>4, <2>5
  <2>7. Repaired(settled, reply, rest, at)
    BY <1>2, <1>7, <1>10, <2>6 DEF Repaired
  <2> QED
    BY <1>2, <1>7, <1>8, <2>7 DEF Settled
<1>11. CASE reply.kind # "published" /\ ~(reply.kind = "conflict" /\ attempt.snapshot # None)
  <2>1. PICK state : state = Retried(reply)
    OBVIOUS
  <2>2. state \in {"queued", "stopped"}
    BY <2>1 DEF Retried
  <2>3. PICK r : r = [i \in DOMAIN old |-> IF old[i].id = item.id
                                             THEN [old[i] EXCEPT !.state = state] ELSE old[i]]
    OBVIOUS
  <2>4. PICK n \in Nat : n = Len(old) /\ DOMAIN old = 1..n
    BY <1>4
  <2>5. ASSUME NEW k \in 1..n
        PROVE  r[k] \in Items /\ Same(r[k], old[k]) /\ ~InFlight(r[k])
    <3>1. old[k] \in Items
      BY <1>4, <2>4
    <3>2. CASE old[k].id = item.id
      <4>1. r[k] = [old[k] EXCEPT !.state = state]
        BY <2>3, <2>4, <3>2
      <4> QED
        BY <2>2, <3>1, <4>1, StateIs DEF InFlight
    <3>3. CASE old[k].id # item.id
      <4>1. r[k] = old[k] /\ k # 1
        BY <1>5, <2>3, <2>4, <3>3
      <4> QED
        BY <1>4, <2>4, <3>1, <4>1 DEF Same, InFront, Flying
    <3> QED
      BY <3>2, <3>3
  <2>6. r \in Seq(Items) /\ Len(r) = n /\ DOMAIN r = 1..n
    BY <2>3, <2>4, <2>5
  <2>7. PICK all : all = [k \in 1..n |-> k]
    OBVIOUS
  <2>8. Rising(all, n, n) /\ \A k \in 1..n : all[k] = k
    BY <2>7 DEF Rising
  <2>9. Remains(r, old, all)
    BY <2>4, <2>5, <2>6, <2>8 DEF Remains, Selects, Flying
  <2>10. settled = [attempt.live EXCEPT !.outbox = r]
    BY <1>2, <1>3, <1>8, <1>11, <2>1, <2>3 DEF Outcome
  <2> QED
    BY <1>2, <1>8, <1>11, <2>4, <2>6, <2>8, <2>9, <2>10 DEF Settled, Unchanged
<1> QED
  BY <1>9, <1>10, <1>11

\* Two sequences, one after the other.
LEMMA Concatenated ==
  ASSUME NEW S, NEW a \in Seq(S), NEW b \in Seq(S)
  PROVE  /\ a \o b \in Seq(S)
         /\ \A k \in DOMAIN a : k \in DOMAIN (a \o b) /\ (a \o b)[k] = a[k]
         /\ \A k \in DOMAIN b : Len(a) + k \in DOMAIN (a \o b) /\ (a \o b)[Len(a) + k] = b[k]
         /\ \A k \in DOMAIN (a \o b) :
              k \in DOMAIN a \/ \E m \in DOMAIN b : k = Len(a) + m
<1>1. PICK q : q = a \o b
  OBVIOUS
<1>2. PICK m \in Nat, n \in Nat : m = Len(a) /\ DOMAIN a = 1..m /\ n = Len(b) /\ DOMAIN b = 1..n
  OBVIOUS
<1>3. /\ q \in Seq(S) /\ DOMAIN q = 1..(m + n)
      /\ \A k \in 1..(m + n) : q[k] = IF k <= m THEN a[k] ELSE b[k - m]
  BY <1>1, <1>2
<1>4. \A k \in 1..m : k \in 1..(m + n) /\ q[k] = a[k]
  BY <1>3
<1>5. \A k \in 1..n : m + k \in 1..(m + n) /\ q[m + k] = b[k]
  <2>1. \A k \in 1..n : m + k \in 1..(m + n) /\ ~(m + k <= m) /\ (m + k) - m = k
    OBVIOUS
  <2> QED
    BY <1>3, <2>1
<1>6. \A k \in 1..(m + n) : k \in 1..m \/ (k - m \in 1..n /\ k = m + (k - m))
  OBVIOUS
<1> QED
  BY <1>1, <1>2, <1>3, <1>4, <1>5, <1>6

\* What has come since a request began, which no request is about.
LEMMA NewerIs ==
  ASSUME DocInv, attempt # None
  PROVE  LET old == attempt.live.outbox
             places == Newer(old, live.outbox)
             newer == Picked(live.outbox, places)
         IN /\ newer \in Seq(Items) /\ Flying(newer) = {}
            /\ \E at : /\ Selects(newer, live.outbox, at)
                       /\ \A k \in 1..Len(newer) :
                            at[k] \in places /\ newer[k] = live.outbox[at[k]]
            /\ \A i \in places : \E k \in DOMAIN newer : newer[k] = live.outbox[i]
            /\ \A k \in DOMAIN newer : newer[k].id \notin Ids(old)
<1>1. PICK old : old = attempt.live.outbox
  OBVIOUS
<1>2. PICK places : places = Newer(old, live.outbox)
  OBVIOUS
<1>3. PICK newer : newer = Picked(live.outbox, places)
  OBVIOUS
<1>4. live.outbox \in Seq(Items)
  BY DEF DocInv, Sound, Records
<1>5. /\ newer \in Seq(Items)
      /\ \E at : /\ Rising(at, Len(newer), Len(live.outbox))
                 /\ \A k \in 1..Len(newer) : at[k] \in places /\ newer[k] = live.outbox[at[k]]
                 /\ \A i \in places \cap (1..Len(live.outbox)) :
                      \E k \in 1..Len(newer) : at[k] = i
  BY <1>3, <1>4, PickedIs
<1>6. PICK at : /\ Rising(at, Len(newer), Len(live.outbox))
                /\ \A k \in 1..Len(newer) : at[k] \in places /\ newer[k] = live.outbox[at[k]]
                /\ \A i \in places \cap (1..Len(live.outbox)) :
                     \E k \in 1..Len(newer) : at[k] = i
  BY <1>5
<1>7. Selects(newer, live.outbox, at)
  BY <1>5, <1>6 DEF Selects, Same
<1>8. places \subseteq 1..Len(live.outbox) /\ DOMAIN newer = 1..Len(newer)
  BY <1>2, <1>4, <1>5 DEF Newer
<1>9. \A k \in DOMAIN newer : newer[k].id \notin Ids(old)
  BY <1>2, <1>6, <1>8 DEF Newer
<1>10. attempt.item.id \in Ids(old)
  <2>1. /\ attempt.item \in Items /\ old \in Seq(Items) /\ old # <<>>
        /\ old[1] = [attempt.item EXCEPT !.state = "in-flight"]
    BY <1>1 DEF DocInv, Began, Attempts, Records
  <2>2. 1 \in DOMAIN old /\ old[1].id = attempt.item.id
    BY <2>1 DEF Items
  <2> QED
    BY <2>2 DEF Ids
<1>11. Flying(newer) = {}
  <2>1. \A i \in Flying(live.outbox) : live.outbox[i].id = attempt.item.id
    BY DEF DocInv, Awaited
  <2>2. \A k \in DOMAIN newer : InFlight(newer[k]) => at[k] \in Flying(live.outbox)
    BY <1>2, <1>6, <1>8 DEF Flying, Newer
  <2> QED
    BY <1>6, <1>8, <1>9, <1>10, <2>1, <2>2 DEF Flying
<1>12. \A i \in places : \E k \in DOMAIN newer : newer[k] = live.outbox[i]
  BY <1>6, <1>8
<1> QED
  BY <1>1, <1>2, <1>3, <1>5, <1>6, <1>7, <1>9, <1>11, <1>12

\* One item behind a sequence in which it is new.
LEMMA AppendedApart ==
  ASSUME NEW r \in Seq(Items), NEW x \in Items, Distinct(r), Flying(r) = {},
         x.id \notin Ids(r), ~InFlight(x)
  PROVE  LET q == Append(r, x) IN
         /\ q \in Seq(Items) /\ Distinct(q) /\ Flying(q) = {}
         /\ Len(q) = Len(r) + 1 /\ q[Len(r) + 1] = x /\ Len(r) + 1 \in DOMAIN q
         /\ \A k \in DOMAIN r : k \in DOMAIN q /\ q[k] = r[k]
         /\ \A k \in DOMAIN q : k \in DOMAIN r \/ k = Len(r) + 1
<1>1. PICK q : q = Append(r, x)
  OBVIOUS
<1>2. PICK n \in Nat : n = Len(r) /\ DOMAIN r = 1..n
  OBVIOUS
<1>3. /\ q \in Seq(Items) /\ Len(q) = n + 1 /\ DOMAIN q = 1..(n + 1) /\ q[n + 1] = x
      /\ \A k \in 1..n : k \in 1..(n + 1) /\ q[k] = r[k]
      /\ \A k \in 1..(n + 1) : k \in 1..n \/ k = n + 1
  BY <1>1, <1>2
<1>4. \A k \in 1..n : r[k].id # x.id
  BY <1>2 DEF Ids
<1>5. Distinct(q)
  BY <1>2, <1>3, <1>4 DEF Distinct
<1>6. Flying(q) = {}
  BY <1>2, <1>3 DEF Flying
<1> QED
  BY <1>1, <1>2, <1>3, <1>5, <1>6

\* The outbox of the record with what came of the request.
LEMMA SettledOutbox ==
  ASSUME DocInv, attempt # None, NEW reply \in Replies, NEW settled, Settled(settled, reply)
  PROVE  LET old == attempt.live.outbox IN
         /\ settled \in Records /\ settled.outbox \in Seq(Items)
         /\ Distinct(settled.outbox) /\ Flying(settled.outbox) = {}
         /\ \A k \in DOMAIN settled.outbox :
              \/ \E i \in DOMAIN old : Same(settled.outbox[k], old[i])
              \/ /\ reply.kind = "conflict" /\ settled.outbox[k].kind = "snapshot"
                 /\ settled.outbox[k].id \notin Ids(live.outbox)
         /\ reply.kind = "published" /\ Len(old) = 1 => settled.outbox = <<>>
         /\ reply.kind \in {"transient", "fatal"} /\ Len(old) = 1 => Len(settled.outbox) = 1
<1>1. PICK old : old = attempt.live.outbox
  OBVIOUS
<1>2. /\ old \in Seq(Items) /\ Distinct(old) /\ attempt.live \in Records /\ reply.revision \in Nat
  BY <1>1 DEF DocInv, Began, Attempts, Records, Replies
<1>3. PICK r, at : /\ Remains(r, old, at)
                   /\ \/ Acknowledged(settled, reply, r, at)
                      \/ Repaired(settled, reply, r, at)
                      \/ Unchanged(settled, reply, r, at)
  BY <1>1 DEF Settled
<1>4. /\ r \in Seq(Items) /\ Flying(r) = {} /\ Distinct(r) /\ DOMAIN r = 1..Len(r)
      /\ \A k \in DOMAIN r : at[k] \in DOMAIN old /\ Same(r[k], old[at[k]])
  <2>1. r \in Seq(Items) /\ Flying(r) = {} /\ Selects(r, old, at)
    BY <1>3 DEF Remains, Selects
  <2>2. Distinct(r)
    BY <1>2, <2>1, SelectedIs
  <2>3. \A k \in 1..Len(r) : at[k] \in 1..Len(old) /\ Same(r[k], old[at[k]])
    BY <2>1 DEF Selects, Rising
  <2> QED
    BY <1>2, <2>1, <2>2, <2>3
<1>5. CASE Acknowledged(settled, reply, r, at)
  <2>1. settled \in Records /\ settled.outbox = r
    BY <1>2, <1>4, <1>5 DEF Records, Acknowledged
  <2>2. ASSUME Len(old) = 1 PROVE r = <<>>
    <3>1. \A k \in 1..Len(r) : at[k] = 1
      BY <1>2, <1>4, <2>2
    <3>2. \A k \in 1..Len(r) : FALSE
      BY <1>5, <3>1 DEF Acknowledged
    <3> QED
      BY <1>4, <3>2
  <2> QED
    BY <1>1, <1>4, <1>5, <2>1, <2>2 DEF Acknowledged
<1>6. CASE Repaired(settled, reply, r, at)
  <2>1. PICK x \in Items :
          /\ x.state = "queued" /\ x.kind = "snapshot"
          /\ x.id \notin Ids(old) \cup Ids(live.outbox)
          /\ settled = [attempt.live EXCEPT !.outbox = Append(r, x), !.ack = reply.revision]
    BY <1>1, <1>6 DEF Repaired
  <2>2. PICK q : q = Append(r, x)
    OBVIOUS
  <2>3. x.id \notin Ids(r)
    BY <1>4, <2>1 DEF Same, Ids
  <2>4. ~InFlight(x)
    BY <2>1 DEF InFlight
  <2>5. /\ q \in Seq(Items) /\ Distinct(q) /\ Flying(q) = {}
        /\ q[Len(r) + 1] = x /\ \A k \in DOMAIN r : q[k] = r[k]
        /\ \A k \in DOMAIN q : k \in DOMAIN r \/ k = Len(r) + 1
    BY <1>4, <2>2, <2>3, <2>4, AppendedApart
  <2>6. settled \in Records /\ settled.outbox = q
    BY <1>2, <2>1, <2>2, <2>5 DEF Records
  <2>7. \A k \in DOMAIN q :
          \/ \E i \in DOMAIN old : Same(q[k], old[i])
          \/ q[k].kind = "snapshot" /\ q[k].id \notin Ids(live.outbox)
    BY <1>4, <2>1, <2>5
  <2> QED
    BY <1>1, <1>6, <2>5, <2>6, <2>7 DEF Repaired
<1>7. CASE Unchanged(settled, reply, r, at)
  <2>1. settled \in Records /\ settled.outbox = r
    BY <1>2, <1>4, <1>7 DEF Records, Unchanged
  <2> QED
    BY <1>1, <1>4, <1>7, <2>1 DEF Unchanged
<1> QED
  BY <1>3, <1>5, <1>6, <1>7

\* The record with that outcome merged in is sound.
LEMMA MergedSound ==
  ASSUME DocInv, attempt # None, NEW reply \in Replies,
         attempt.item.kind \in Barriers => reply.kind # "conflict"
  PROVE  Sound(Merged(reply))
<1>1. PICK old : old = attempt.live.outbox
  OBVIOUS
<1>2. PICK item : item = attempt.item
  OBVIOUS
<1>3. PICK settled : settled = Outcome(reply)
  OBVIOUS
<1>4. Settled(settled, reply)
  BY <1>3, SettledIs
<1>5. PICK a : a = settled.outbox
  OBVIOUS
<1>6. /\ settled \in Records /\ a \in Seq(Items) /\ Distinct(a) /\ Flying(a) = {}
      /\ \A k \in DOMAIN a :
           \/ \E i \in DOMAIN old : Same(a[k], old[i])
           \/ /\ reply.kind = "conflict" /\ a[k].kind = "snapshot"
              /\ a[k].id \notin Ids(live.outbox)
      /\ reply.kind = "published" /\ Len(old) = 1 => a = <<>>
      /\ reply.kind \in {"transient", "fatal"} /\ Len(old) = 1 => Len(a) = 1
  <2>1. /\ settled \in Records /\ settled.outbox \in Seq(Items)
        /\ Distinct(settled.outbox) /\ Flying(settled.outbox) = {}
        /\ \A k \in DOMAIN settled.outbox :
             \/ \E i \in DOMAIN attempt.live.outbox :
                  Same(settled.outbox[k], attempt.live.outbox[i])
             \/ /\ reply.kind = "conflict" /\ settled.outbox[k].kind = "snapshot"
                /\ settled.outbox[k].id \notin Ids(live.outbox)
        /\ reply.kind = "published" /\ Len(attempt.live.outbox) = 1 => settled.outbox = <<>>
        /\ reply.kind \in {"transient", "fatal"} /\ Len(attempt.live.outbox) = 1
             => Len(settled.outbox) = 1
    BY <1>4, SettledOutbox
  <2> QED
    BY <1>1, <1>5, <2>1
<1>7. PICK newer : newer = Picked(live.outbox, Newer(old, live.outbox))
  OBVIOUS
<1>8. /\ newer \in Seq(Items) /\ Flying(newer) = {}
      /\ \E at : /\ Selects(newer, live.outbox, at)
                 /\ \A k \in 1..Len(newer) :
                      at[k] \in Newer(old, live.outbox) /\ newer[k] = live.outbox[at[k]]
      /\ \A k \in DOMAIN newer : newer[k].id \notin Ids(old)
  BY <1>1, <1>7, NewerIs
<1>9. PICK lifecycle : lifecycle = Reached(reply)
  OBVIOUS
<1>10. PICK first : first = IF Superseded(item.kind) THEN <<>> ELSE a
  OBVIOUS
<1>11. PICK second : second = IF lifecycle = "unpublished" THEN <<>> ELSE newer
  OBVIOUS
<1>12. PICK q : q = first \o second
  OBVIOUS
<1>13. PICK merged : merged = Merged(reply)
  OBVIOUS
<1>14. merged = [lifecycle |-> lifecycle, outbox |-> q, local |-> settled.local,
                 ack |-> settled.ack]
  BY <1>1, <1>2, <1>3, <1>5, <1>7, <1>9, <1>10, <1>11, <1>12, <1>13 DEF Merged
<1>15. /\ live \in Records /\ live.outbox \in Seq(Items) /\ Distinct(live.outbox)
       /\ Phased(live.lifecycle, live.outbox)
       /\ Began(attempt) /\ Awaited(attempt, live.lifecycle, live.outbox)
  BY DEF DocInv, Sound, Records
<1>16. first \in Seq(Items) /\ second \in Seq(Items)
  BY <1>6, <1>8, <1>10, <1>11
<1>17. /\ q \in Seq(Items)
       /\ \A k \in DOMAIN first : k \in DOMAIN q /\ q[k] = first[k]
       /\ \A k \in DOMAIN second : Len(first) + k \in DOMAIN q /\ q[Len(first) + k] = second[k]
       /\ \A k \in DOMAIN q : k \in DOMAIN first \/ \E m \in DOMAIN second : k = Len(first) + m
  BY <1>12, <1>16, Concatenated
<1>18. /\ first = <<>> \/ first = a
       /\ second = <<>> \/ second = newer
  BY <1>10, <1>11
<1>19. /\ Distinct(first) /\ Flying(first) = {} /\ Distinct(second) /\ Flying(second) = {}
       /\ Distinct(newer)
  <2>1. Distinct(newer)
    BY <1>8, <1>15, SelectedIs
  <2>2. Distinct(<<>>) /\ Flying(<<>>) = {}
    BY DEF Distinct, Flying
  <2> QED
    BY <1>6, <1>8, <1>18, <2>1, <2>2
<1>20. \A k \in DOMAIN newer :
         /\ newer[k].id \notin Ids(old)
         /\ \E i \in DOMAIN live.outbox : newer[k] = live.outbox[i]
  <2>1. DOMAIN newer = 1..Len(newer)
    BY <1>8
  <2> QED
    BY <1>8, <2>1 DEF Newer
<1>21. ASSUME NEW i \in DOMAIN a, NEW j \in DOMAIN newer PROVE a[i].id # newer[j].id
  <2>1. CASE \E m \in DOMAIN old : Same(a[i], old[m])
    <3>1. a[i].id \in Ids(old)
      BY <2>1 DEF Same, Ids
    <3> QED
      BY <1>20, <3>1
  <2>2. CASE a[i].id \notin Ids(live.outbox)
    BY <1>20, <2>2 DEF Ids
  <2> QED
    BY <1>6, <2>1, <2>2
<1>22. \A i \in DOMAIN first, j \in DOMAIN second : first[i].id # second[j].id
  <2>1. DOMAIN <<>> = {}
    OBVIOUS
  <2> QED
    BY <1>18, <1>21, <2>1
<1>23. Distinct(q)
  <2>1. ASSUME NEW i \in DOMAIN q, NEW j \in DOMAIN q, q[i].id = q[j].id PROVE i = j
    <3>1. CASE i \in DOMAIN first /\ j \in DOMAIN first
      BY <1>17, <1>19, <2>1, <3>1 DEF Distinct
    <3>2. CASE i \in DOMAIN first /\ \E m \in DOMAIN second : j = Len(first) + m
      BY <1>17, <1>22, <2>1, <3>2
    <3>3. CASE j \in DOMAIN first /\ \E m \in DOMAIN second : i = Len(first) + m
      BY <1>17, <1>22, <2>1, <3>3
    <3>4. CASE /\ \E m \in DOMAIN second : i = Len(first) + m
               /\ \E m \in DOMAIN second : j = Len(first) + m
      <4>1. PICK m \in DOMAIN second : i = Len(first) + m
        BY <3>4
      <4>2. PICK l \in DOMAIN second : j = Len(first) + l
        BY <3>4
      <4>3. m = l
        BY <1>17, <1>19, <2>1, <4>1, <4>2 DEF Distinct
      <4> QED
        BY <4>1, <4>2, <4>3
    <3> QED
      BY <1>17, <3>1, <3>2, <3>3, <3>4
  <2> QED
    BY <2>1 DEF Distinct
<1>24. Flying(q) = {}
  BY <1>17, <1>19 DEF Flying
<1>25. /\ lifecycle \in Lifecycles
       /\ \/ lifecycle = live.lifecycle
          \/ /\ lifecycle = "unpublished" /\ item.kind = "unpublish"
             /\ reply.kind = "published" /\ live.lifecycle # "deleting"
  BY <1>2, <1>9, <1>15 DEF Reached, Records, Lifecycles
<1>26. /\ merged \in Records /\ merged.lifecycle = lifecycle /\ merged.outbox = q
  BY <1>6, <1>14, <1>17, <1>25 DEF Records
<1>27. /\ live.lifecycle \notin {"unpublished", "deleted"}
       /\ item.kind \in Barriers => live.lifecycle \in Ending
       /\ \A i \in DOMAIN old : old[i].kind = "delete" => live.lifecycle = "deleting"
       /\ live.lifecycle = "unpublishing" /\ item.kind \in Barriers =>
            Len(old) = 1 /\ Newer(old, live.outbox) = {}
       /\ \A i \in DOMAIN old :
            /\ old[i].kind \in Barriers <=> item.kind \in Barriers
            /\ old[i].kind \in Barriers => old[i].sections = NoSections
  BY <1>1, <1>2, <1>15 DEF Awaited, Began
<1>28. Phased(lifecycle, q)
  <2>1. CASE live.lifecycle \notin Ending
    <3>1. item.kind \notin Barriers /\ lifecycle = live.lifecycle
      BY <1>25, <1>27, <2>1 DEF Barriers
    <3>2. \A k \in DOMAIN a : a[k].kind \notin Barriers
      BY <1>6, <1>27, <3>1 DEF Same, Barriers
    <3>3. \A k \in DOMAIN newer : newer[k].kind \notin Barriers
      BY <1>15, <1>20, <2>1 DEF Phased
    <3>4. \A k \in DOMAIN q : q[k].kind \notin Barriers
      BY <1>17, <1>18, <3>2, <3>3
    <3> QED
      BY <1>27, <2>1, <3>1, <3>4 DEF Phased, Ending, Barriers
  <2>2. ASSUME live.lifecycle \in Ending
        PROVE  \A k \in DOMAIN newer :
                 /\ newer[k].kind \in Barriers /\ newer[k].sections = NoSections
                 /\ newer[k].kind = "delete" => live.lifecycle = "deleting"
    BY <1>8, <1>15, <1>20, <2>2 DEF Phased, Flying
  <2>3. CASE live.lifecycle \in Ending /\ item.kind \notin Barriers
    <3>1. first = <<>> /\ lifecycle = live.lifecycle /\ lifecycle # "unpublished"
      BY <1>10, <1>25, <1>27, <2>3 DEF Superseded, Barriers
    <3>2. second = newer
      BY <1>11, <3>1
    <3>3. q = newer
      BY <1>12, <1>16, <3>1, <3>2
    <3>4. ASSUME lifecycle = "unpublishing", NEW i \in DOMAIN newer, NEW j \in DOMAIN newer,
                 newer[i].kind \in Barriers, newer[j].kind \in Barriers
          PROVE  i = j
      <4>1. PICK m \in DOMAIN live.outbox : newer[i] = live.outbox[m]
        BY <1>20
      <4>2. PICK l \in DOMAIN live.outbox : newer[j] = live.outbox[l]
        BY <1>20
      <4>3. m = l
        BY <1>15, <3>1, <3>4, <4>1, <4>2 DEF Phased
      <4> QED
        BY <1>19, <4>1, <4>2, <4>3 DEF Distinct
    <3> QED
      BY <1>27, <2>2, <2>3, <3>1, <3>3, <3>4 DEF Phased
  <2>4. CASE live.lifecycle \in Ending /\ item.kind \in Barriers
    <3>1. \A k \in DOMAIN a :
            /\ a[k].kind \in Barriers /\ a[k].sections = NoSections
            /\ a[k].kind = "delete" => live.lifecycle = "deleting"
      BY <1>2, <1>6, <1>27, <2>4 DEF Same
    <3>2. \A k \in DOMAIN q :
            /\ q[k].kind \in Barriers /\ q[k].sections = NoSections
            /\ q[k].kind = "delete" => live.lifecycle = "deleting"
      BY <1>17, <1>18, <2>2, <2>4, <3>1
    <3>3. CASE live.lifecycle = "deleting"
      <4>1. lifecycle = "deleting"
        BY <1>25, <3>3
      <4> QED
        BY <3>2, <3>3, <4>1 DEF Phased, Ending
    <3>4. CASE live.lifecycle = "unpublishing"
      <4>1. Len(old) = 1 /\ Newer(old, live.outbox) = {}
        BY <1>27, <2>4, <3>4
      <4>2. newer = <<>>
        <5>1. \A k \in DOMAIN newer : FALSE
          BY <1>20, <4>1 DEF Newer
        <5> QED
          BY <1>8, <5>1
      <4>3. q = first /\ (first = <<>> \/ first = a)
        BY <1>11, <1>12, <1>16, <1>18, <4>2
      <4>4. CASE lifecycle = "unpublished"
        <5>1. a = <<>>
          BY <1>6, <1>25, <3>4, <4>1, <4>4
        <5> QED
          BY <4>3, <4>4, <5>1 DEF Phased, Ending
      <4>5. CASE lifecycle = "unpublishing"
        <5>1. item.kind # "delete"
          <6>1. 1 \in DOMAIN old /\ old[1].kind = item.kind
            BY <1>1, <1>2, <1>15 DEF Began, Attempts, Items, Records
          <6> QED
            BY <1>27, <3>4, <6>1
        <5>2. item.kind = "unpublish" /\ reply.kind # "conflict"
          BY <1>2, <2>4, <5>1 DEF Barriers
        <5>3. reply.kind # "published"
          BY <1>2, <1>9, <3>4, <4>5, <5>2 DEF Reached
        <5>4. reply.kind \in {"transient", "fatal"}
          BY <5>2, <5>3 DEF Replies
        <5>5. Len(a) = 1
          BY <1>6, <4>1, <5>4
        <5>6. \A i, j \in DOMAIN q : i = j
          <6>1. DOMAIN a = 1..1 /\ DOMAIN <<>> = {}
            BY <1>6, <5>5
          <6> QED
            BY <4>3, <6>1
        <5> QED
          BY <3>2, <3>4, <4>5, <5>6 DEF Phased, Ending
      <4> QED
        BY <1>25, <3>4, <4>4, <4>5
    <3> QED
      BY <2>4, <3>3, <3>4 DEF Ending
  <2> QED
    BY <2>1, <2>3, <2>4
<1> QED
  BY <1>13, <1>23, <1>24, <1>26, <1>28 DEF Sound, InFront

\* The drain that ends leaves a sound document, whatever becomes of the rest.
LEMMA SettleDoc ==
  ASSUME DocInv, attempt # None, NEW reply \in Replies, Settle(reply),
         attempt.item.kind \in Barriers => reply.kind # "conflict",
         UNCHANGED <<saved, page>>, hurried' \in BOOLEAN,
         late' \subseteq [item : Items, row : Pages \cup {None}]
  PROVE  DocInv'
<1>1. /\ content \in Contents /\ cache \in Snapshots \cup {None} /\ Sound(live)
      /\ Known \in Seq(Items)
  BY KnownIs DEF DocInv, TypeInv
<1>2. attempt' = None /\ request' = None /\ answer' = None
  BY DEF Settle
<1>3. content' \in Contents /\ cache' \in Snapshots \cup {None} /\ Sound(live')
  <2>1. CASE attempt.item.kind = "delete" /\ reply.kind = "published"
    <3>1. content' = content /\ cache' = None
          /\ live' = [live EXCEPT !.lifecycle = "deleted", !.outbox = <<>>]
      BY <2>1 DEF Settle
    <3>2. live' \in Records /\ live'.lifecycle = "deleted" /\ live'.outbox = <<>>
      <4>1. PICK record \in Records : record = live
        BY <1>1 DEF Sound
      <4>2. PICK new : new = [record EXCEPT !.lifecycle = "deleted"]
        OBVIOUS
      <4>3. new \in Records /\ new.lifecycle = "deleted"
        BY <4>2 DEF Records, Lifecycles
      <4>4. live' = [new EXCEPT !.outbox = <<>>]
        BY <3>1, <4>1, <4>2
      <4>5. PICK last : last = [new EXCEPT !.outbox = <<>>]
        OBVIOUS
      <4>6. <<>> \in Seq(Items)
        OBVIOUS
      <4>7. last \in Records /\ last.lifecycle = "deleted" /\ last.outbox = <<>>
        BY <4>3, <4>5, <4>6 DEF Records
      <4> QED
        BY <4>4, <4>5, <4>7
    <3>3. Sound(live')
      BY <3>2 DEF Sound, Distinct, InFront, Flying, Phased, Ending
    <3> QED
      BY <1>1, <3>1, <3>3
  <2>2. CASE ~(attempt.item.kind = "delete" /\ reply.kind = "published")
    <3>1. PICK merged : merged = Merged(reply)
      OBVIOUS
    <3>2. Sound(merged)
      BY <3>1, MergedSound
    <3>3. /\ content' = content /\ live' = Derived(content, merged, cache).live
          /\ cache' = Derived(content, merged, cache).cache
      BY <2>2, <3>1 DEF Settle, Commit
    <3>4. /\ Sound(Derived(content, merged, cache).live)
          /\ Derived(content, merged, cache).cache \in Snapshots \cup {None}
      BY <1>1, <3>2, DerivedSound
    <3> QED
      BY <1>1, <3>3, <3>4
  <2> QED
    BY <2>1, <2>2
<1>4. TypeInv'
  BY <1>2, <1>3 DEF DocInv, TypeInv
<1> QED
  BY <1>2, <1>3, <1>4 DEF DocInv

-----------------------------------------------------------------------------
(* The backend, and what may go wrong.                                     *)

\* What an item in force does to the page.
LEMMA AppliedIs ==
  ASSUME page \in Pages, NEW item \in Items
  PROVE  /\ Applied(item) \in Pages
         /\ item.kind \in Barriers => Applied(item).sections = page.sections
         /\ item.kind \notin Barriers =>
              /\ Applied(item).revision = item.revision
              /\ \A s \in Sections : Applied(item).sections[s] =
                   IF s \in DOMAIN item.sections THEN item.sections[s] ELSE page.sections[s]
<1>1. /\ item.sections \in SectionValues /\ item.revision \in Nat /\ item.final \in BOOLEAN
      /\ page.sections \in Contents
  BY DEF Items, Pages
<1>2. PICK new : new = [s \in Sections |-> IF s \in DOMAIN item.sections
                                           THEN item.sections[s] ELSE page.sections[s]]
  OBVIOUS
<1>3. /\ new \in Contents
      /\ \A s \in Sections :
           new[s] = IF s \in DOMAIN item.sections THEN item.sections[s] ELSE page.sections[s]
  <2>1. \A s \in DOMAIN item.sections : item.sections[s] \in Editions
    BY <1>1 DEF SectionValues
  <2> QED
    BY <1>1, <1>2, <2>1 DEF Contents
<1>4. CASE item.kind = "delete"
  BY <1>4 DEF Applied, Pages, Barriers
<1>5. CASE item.kind = "unpublish"
  BY <1>5 DEF Applied, Pages, Barriers
<1>6. CASE item.kind \notin Barriers
  <2>1. Applied(item) = [lifecycle |-> IF item.final THEN "final" ELSE "live",
                         revision |-> item.revision, sections |-> new]
    BY <1>2, <1>6 DEF Applied, Barriers
  <2> QED
    BY <1>1, <1>3, <1>6, <2>1 DEF Pages
<1> QED
  BY <1>4, <1>5, <1>6 DEF Barriers

\* What the backend does with a request, and what it answers.
LEMMA ServedIs ==
  ASSUME page \in Pages, NEW item \in Items, NEW row \in Pages
  PROVE  /\ Served(item, row) \in Pages /\ Answered(item, row) \in Replies
         /\ Served(item, row) = page \/ Served(item, row) = Applied(item)
         /\ Answered(item, row).kind = "published" => Served(item, row) = Applied(item)
         /\ item.kind \in Barriers => Answered(item, row).kind # "conflict"
<1>1. Applied(item) \in Pages
  BY AppliedIs
<1>2. item.revision \in Nat /\ row.revision \in Nat
  BY DEF Items, Pages
<1>3. item.kind \in Barriers => ~Refused(item, row)
  BY DEF Refused, Barriers
<1>4. /\ Reply("fatal", 0) \in Replies /\ Reply("fatal", 0).kind = "fatal"
      /\ \A kind \in {"conflict", "published"}, n \in Nat :
           Reply(kind, n) \in Replies /\ Reply(kind, n).kind = kind
  BY DEF Reply, Replies
<1>5. CASE row.lifecycle = "gone"
  BY <1>1, <1>4, <1>5 DEF Served, Answered
<1>6. CASE row.lifecycle # "gone" /\ Refused(item, row)
  BY <1>1, <1>2, <1>3, <1>4, <1>6 DEF Served, Answered
<1>7. CASE row.lifecycle # "gone" /\ ~Refused(item, row)
  BY <1>1, <1>2, <1>4, <1>7 DEF Served, Answered
<1> QED
  BY <1>5, <1>6, <1>7

\* A request of a drain is an item.
LEMMA RequestIs ==
  ASSUME DocInv
  PROVE  /\ request # None =>
              attempt # None /\ request = attempt.item /\ attempt.item \in Items
         /\ answer # None => attempt # None /\ answer \in Replies
BY DEF DocInv, TypeInv, Attempts

\* A request that the backend serves leaves the document sound.
LEMMA ServeDoc ==
  ASSUME DocInv, Serve
  PROVE  DocInv'
<1>1. attempt # None /\ request = attempt.item /\ request \in Items /\ page \in Pages
  BY RequestIs DEF Serve, DocInv, TypeInv
<1>2. /\ page' \in Pages /\ answer' \in Replies
      /\ attempt.item.kind \in Barriers => answer'.kind # "conflict"
  BY <1>1, ServedIs DEF Serve
<1>3. TypeInv'
  BY <1>2 DEF DocInv, TypeInv, Serve, document
<1> QED
  BY <1>1, <1>2, <1>3 DEF DocInv, Serve, document

\* An answer that comes leaves the document sound.
LEMMA ReceiveAnswerDoc ==
  ASSUME DocInv, ReceiveAnswer
  PROVE  DocInv'
<1>1. /\ attempt # None /\ answer \in Replies /\ Settle(answer)
      /\ attempt.item.kind \in Barriers => answer.kind # "conflict"
  BY RequestIs DEF ReceiveAnswer, DocInv
<1>2. /\ UNCHANGED <<saved, page>> /\ hurried' \in BOOLEAN
      /\ late' \subseteq [item : Items, row : Pages \cup {None}]
  BY DEF ReceiveAnswer, public, DocInv, TypeInv
<1> QED
  BY <1>1, <1>2, SettleDoc

\* The failure of a request.
LEMMA FailureIs == Failure \in Replies /\ Failure.kind = "transient"
BY DEF Failure, Reply, Replies

\* A request that is lost, or whose answer is, leaves the document sound.
LEMMA LoseDoc ==
  ASSUME DocInv, LoseRequest \/ LoseAnswer
  PROVE  DocInv'
<1>1. attempt # None /\ Settle(Failure)
  BY RequestIs DEF LoseRequest, LoseAnswer
<1>2. /\ UNCHANGED <<saved, page>> /\ hurried' \in BOOLEAN
      /\ late' \subseteq [item : Items, row : Pages \cup {None}]
  BY DEF LoseRequest, LoseAnswer, public, DocInv, TypeInv
<1> QED
  BY <1>1, <1>2, FailureIs, SettleDoc

\* A request that is no longer waited for leaves the document sound.
LEMMA TimeOutDoc ==
  ASSUME DocInv, TimeOut
  PROVE  DocInv'
<1>1. attempt # None /\ Settle(Failure) /\ request \in Items /\ page \in Pages
  BY RequestIs DEF TimeOut, DocInv, TypeInv
<1>2. UNCHANGED <<saved, page>> /\ hurried' \in BOOLEAN
  BY DEF TimeOut
<1>3. late' \subseteq [item : Items, row : Pages \cup {None}]
  <2>1. PICK row \in {None, page} : late' = {[item |-> request, row |-> row]}
    BY DEF TimeOut
  <2> QED
    BY <1>1, <2>1
<1> QED
  BY <1>1, <1>2, <1>3, FailureIs, SettleDoc

\* So does one that is served late, and a restart from what was saved.
LEMMA ServeLateDoc ==
  ASSUME DocInv, NEW r \in late, ServeLate(r)
  PROVE  DocInv'
<1>1. page \in Pages /\ r.item \in Items /\ r.row \in Pages \cup {None}
  BY DEF DocInv, TypeInv
<1>2. page' \in Pages
  <2>1. PICK row \in Pages : page' = Served(r.item, row)
    BY <1>1 DEF ServeLate
  <2> QED
    BY <1>1, <2>1, ServedIs
<1>3. TypeInv'
  BY <1>2 DEF DocInv, TypeInv, ServeLate, document
<1> QED
  BY <1>3 DEF DocInv, ServeLate, document

\* A restart finds a document as sound as the one that was saved, and no drain.
LEMMA CrashDoc ==
  ASSUME DocInv, Crash
  PROVE  DocInv'
<1>1. TypeInv'
  BY DEF DocInv, TypeInv, Crash
<1> QED
  BY <1>1 DEF DocInv, Crash

-----------------------------------------------------------------------------
(* The document is sound, whatever happens.                                *)

\* At first there is the snapshot of the commit that enables publication.
LEMMA InitDoc ==
  ASSUME Init
  PROVE  DocInv
<1>1. PICK all : all = [s \in Sections |-> 1]
  OBVIOUS
<1>2. PICK zero : zero = [s \in Sections |-> 0]
  OBVIOUS
<1>3. PICK first : first = [revision |-> 1, sections |-> all, final |-> FALSE]
  OBVIOUS
<1>4. PICK item : item = SnapshotItem(1, first)
  OBVIOUS
<1>5. MaxEditions \in Nat /\ MaxEditions > 0
  BY LiveAssumption
<1>6. all \in Contents /\ zero \in Contents
  BY <1>1, <1>2, <1>5 DEF Contents, Editions
<1>7. first \in Snapshots
  BY <1>3, <1>6 DEF Snapshots
<1>8. item \in Items /\ item.kind = "snapshot" /\ item.state = "queued"
  BY <1>4, <1>7, SnapshotItemIs
<1>9. PICK outbox : outbox = <<item>>
  OBVIOUS
<1>10. /\ outbox \in Seq(Items) /\ Len(outbox) = 1 /\ DOMAIN outbox = {1} /\ outbox[1] = item
  BY <1>8, <1>9
<1>11. PICK empty : empty = <<>>
  OBVIOUS
<1>12. empty \in Seq(Items)
  BY <1>11
<1>13. PICK record : record = [lifecycle |-> "live", outbox |-> outbox, local |-> 1, ack |-> 0]
  OBVIOUS
<1>14. /\ record \in Records /\ record.outbox = outbox /\ record.lifecycle = "live"
  BY <1>10, <1>13 DEF Records, Lifecycles, Projecting
<1>15. live = record
  <2>1. PICK new : new = [lifecycle |-> "live", outbox |-> empty, local |-> 0, ack |-> 0]
    OBVIOUS
  <2>2. live = [new EXCEPT !.outbox = outbox, !.local = 1]
    BY <1>1, <1>3, <1>4, <1>9, <1>11, <2>1 DEF Init
  <2>3. PICK next : next = [new EXCEPT !.outbox = outbox]
    OBVIOUS
  <2>4. next = [lifecycle |-> "live", outbox |-> outbox, local |-> 0, ack |-> 0]
    BY <2>1, <2>3
  <2>5. live = [next EXCEPT !.local = 1]
    BY <2>2, <2>3
  <2> QED
    BY <1>13, <2>4, <2>5
<1>16. Flying(outbox) = {} /\ Distinct(outbox)
  BY <1>8, <1>10 DEF Flying, InFlight, Distinct
<1>17. Sound(record)
  BY <1>8, <1>10, <1>14, <1>16 DEF Sound, InFront, Phased, Ending, Barriers
<1>18. content = all /\ cache = first /\ saved = [content |-> all, live |-> record]
  BY <1>1, <1>3, <1>15 DEF Init
<1>19. /\ attempt = None /\ request = None /\ answer = None /\ late = {} /\ hurried = FALSE
       /\ page = [lifecycle |-> "live", revision |-> 0, sections |-> zero]
  BY <1>2 DEF Init
<1>20. page \in Pages
  BY <1>6, <1>19 DEF Pages
<1>21. TypeInv
  BY <1>6, <1>7, <1>14, <1>18, <1>19, <1>20 DEF TypeInv
<1> QED
  BY <1>15, <1>17, <1>18, <1>19, <1>21 DEF DocInv

\* No step leaves the document unsound.
LEMMA StepDoc ==
  ASSUME DocInv, [Next]_vars
  PROVE  DocInv'
<1>1. CASE UNCHANGED vars
  <2>1. UNCHANGED <<content, live, cache, saved, attempt, request, answer, late, page, hurried>>
    BY <1>1 DEF vars, document, network, public
  <2>2. TypeInv'
    BY <2>1 DEF DocInv, TypeInv
  <2> QED
    BY <2>1, <2>2 DEF DocInv
<1>2. CASE Direct
  BY <1>2, EditDoc, FinalizeDoc, UnpublishDoc, DeleteDoc, DisableDoc DEF Direct
<1>3. CASE Save
  BY <1>3, SaveDoc
<1>4. CASE StartAttempt
  BY <1>4, StartDoc
<1>5. CASE Serve
  BY <1>5, ServeDoc
<1>6. CASE ReceiveAnswer
  BY <1>6, ReceiveAnswerDoc
<1>7. ASSUME NEW r \in late, ServeLate(r) PROVE DocInv'
  BY <1>7, ServeLateDoc
<1>8. CASE Fault
  BY <1>8, LoseDoc, TimeOutDoc, CrashDoc DEF Fault
<1> QED
  BY <1>1, <1>2, <1>3, <1>4, <1>5, <1>6, <1>7, <1>8 DEF Next

\* The document is sound in every state.
LEMMA Documents == Spec => []DocInv
<1>1. Init => DocInv
  BY InitDoc
<1>2. DocInv /\ [Next]_vars => DocInv'
  BY StepDoc
<1> QED
  BY <1>1, <1>2, PTL DEF Spec

\* Every variable has its type, no two items of the outbox have one id, and none is in
\* flight but the one the drain waits for, whatever is lost, late or unsaved
\* (markOutboxItemInFlight, mergeDrainOutcome, recoverStaleInFlight).
THEOREM Types == Spec => []TypeOK
<1>1. DocInv => TypeOK
  BY DEF DocInv, TypeInv, Sound, Awaited, TypeOK
<1> QED
  BY <1>1, Documents, PTL

\* Behind a barrier nothing but the barrier is sent, whatever is lost, late or unsaved, and
\* once the publication is taken down nothing at all (enqueueUnpublish, enqueueDelete,
\* recoverStaleInFlight).
THEOREM BarriersOnly == Spec => OnlyBarriersSent
<1> DEFINE Step == live.lifecycle \in Ending \cup {"unpublished"} /\ attempt = None =>
                     attempt' = None \/ attempt'.item.kind \in Barriers
<1>1. ASSUME DocInv, StartAttempt, live.lifecycle \in Ending \cup {"unpublished"}
      PROVE  attempt'.item.kind \in Barriers
  <2>1. PICK marked, before, was : Begins(marked, before, was)
    BY <1>1, StartIs
  <2>2. Sound(marked) /\ marked.outbox # <<>> /\ marked.lifecycle = live.lifecycle
    BY <2>1 DEF Begins
  <2>3. live.lifecycle \in Ending
    BY <1>1, <2>2 DEF Sound, Phased
  <2>4. \A k \in DOMAIN marked.outbox : marked.outbox[k].kind \in Barriers
    BY <2>1, <2>3 DEF Begins
  <2>5. PICK item \in Items : /\ marked.outbox[1] = [item EXCEPT !.state = "in-flight"]
                              /\ attempt' = [item |-> item, live |-> marked, snapshot |-> cache']
    BY <2>1 DEF Begins
  <2>6. 1 \in DOMAIN marked.outbox /\ marked.outbox[1].kind = item.kind
    BY <2>2, <2>5 DEF Sound, Records, Items
  <2> QED
    BY <2>4, <2>5, <2>6
<1>2. ASSUME DocInv, [Next]_vars PROVE Step
  <2>1. CASE StartAttempt
    BY <1>1, <1>2, <2>1
  <2>2. CASE ~StartAttempt
    <3>1. attempt' = attempt \/ attempt' = None
      <4>1. CASE UNCHANGED vars
        BY <4>1 DEF vars, network
      <4>2. CASE Direct
        BY <4>2 DEF Direct, Edit, Finalize, Unpublish, Delete, Disable, network
      <4>3. CASE Save \/ Serve
        BY <4>3 DEF Save, Serve, network
      <4>4. CASE ReceiveAnswer \/ LoseRequest \/ LoseAnswer \/ TimeOut
        BY <4>4 DEF ReceiveAnswer, LoseRequest, LoseAnswer, TimeOut, Settle
      <4>5. CASE \E r \in late : ServeLate(r)
        BY <4>5 DEF ServeLate
      <4>6. CASE Crash
        BY <4>6 DEF Crash
      <4> QED
        BY <1>2, <2>2, <4>1, <4>2, <4>3, <4>4, <4>5, <4>6 DEF Next, Fault
    <3> QED
      BY <3>1
  <2> QED
    BY <2>1, <2>2
<1> HIDE DEF Step
<1> QED
  BY <1>2, Documents, PTL DEF Spec, OnlyBarriersSent, Step

-----------------------------------------------------------------------------
(* A network that is late with nothing, and a Director that saves.         *)

\* Nothing is served that the Director no longer waits for, and a restart finds the
\* document as it was: findings 8, 10, 12 and 31 of the README are what happens otherwise.
Calm == Faults \cap {"late request", "overlapping requests", "unsaved crash"} = {}

\* What a step does then: each of these is one action's effect.
LEMMA CalmSteps ==
  ASSUME Calm, DocInv, late = {}, [Next]_vars
  PROVE  /\ late' = {}
         /\ \/ UNCHANGED vars
            \/ \E changed \in SUBSET Sections : Edit(changed)
            \/ Finalize \/ Unpublish \/ Delete \/ Disable \/ Save \/ StartAttempt \/ Serve
            \/ /\ attempt # None /\ UNCHANGED <<saved, page>>
               /\ \/ answer # None /\ Settle(answer) /\ hurried' = hurried
                  \/ Settle(Failure) /\ (hurried' = hurried \/ hurried' = TRUE)
            \/ /\ content' = content /\ live' = live /\ cache' = None
               /\ attempt' = None /\ answer' = None /\ hurried' = TRUE
               /\ UNCHANGED <<saved, page>>
<1>1. ~TimeOut
  BY DEF Calm, TimeOut
<1>2. ASSUME NEW r \in late, ServeLate(r) PROVE FALSE
  BY <1>2
<1>3. CASE UNCHANGED vars
  BY <1>3 DEF vars, network
<1>4. CASE Direct
  BY <1>4 DEF Direct, Edit, Finalize, Unpublish, Delete, Disable, network
<1>5. CASE Save \/ StartAttempt \/ Serve
  BY <1>5 DEF Save, StartAttempt, Serve, network
<1>6. CASE ReceiveAnswer
  BY <1>6, RequestIs DEF ReceiveAnswer, public
<1>7. CASE LoseRequest \/ LoseAnswer
  BY <1>7, RequestIs DEF LoseRequest, LoseAnswer, public
<1>8. CASE Crash
  <2>1. saved = [content |-> content, live |-> live]
    BY <1>8 DEF Crash, Calm
  <2> QED
    BY <1>8, <2>1 DEF Crash
<1> QED
  BY <1>1, <1>2, <1>3, <1>4, <1>5, <1>6, <1>7, <1>8 DEF Next, Fault

\* A commit does not change the lifecycle.
LEMMA CommitLifecycle ==
  ASSUME DocInv, NEW c \in Contents, NEW record, Sound(record), Commit(c, record)
  PROVE  live'.lifecycle = record.lifecycle
BY KnownIs, DerivedSound DEF DocInv, TypeInv, Commit

\* The barriers hold: what the backend answers of one is so, and stays so.
LEMMA BarrierStep ==
  ASSUME Calm, DocInv, DocInv', late = {}, BarrierInv, [Next]_vars
  PROVE  BarrierInv'
<1>1. /\ attempt # None => live.lifecycle \notin {"unpublished", "deleted"}
      /\ attempt' # None => live'.lifecycle \notin {"unpublished", "deleted"}
      /\ answer # None => attempt # None
      /\ content \in Contents /\ Sound(live)
  BY DEF DocInv, TypeInv, Awaited
<1>2. CASE UNCHANGED vars
  BY <1>2 DEF vars, document, network, public, BarrierInv, BarrierHolds
<1>3. ASSUME live'.lifecycle \notin {"unpublished", "deleted"} \/ live'.lifecycle = live.lifecycle,
             UNCHANGED <<attempt, answer, page>>
      PROVE  BarrierInv'
  BY <1>3 DEF BarrierInv, BarrierHolds
<1>4. ASSUME NEW changed \in SUBSET Sections, Edit(changed) PROVE BarrierInv'
  <2>1. Commit(Edited(changed), live) /\ Edited(changed) \in Contents
    BY <1>1, <1>4, EditedIs DEF Edit, Edited
  <2>2. live'.lifecycle = live.lifecycle
    BY <1>1, <2>1, CommitLifecycle
  <2> QED
    BY <1>3, <1>4, <2>2 DEF Edit, network
<1>5. CASE Finalize
  <2>1. PICK record : record = [live EXCEPT !.lifecycle = "final"]
    OBVIOUS
  <2>2. /\ record \in Records /\ record.lifecycle = "final" /\ record.outbox = live.outbox
        /\ live.lifecycle = "live"
    BY <1>1, <1>5, <2>1 DEF Finalize, Sound, Records, Lifecycles, Projecting
  <2>3. Sound(record)
    BY <1>1, <2>2, Projected DEF Sound, Publishes, Projecting
  <2>4. live'.lifecycle = "final"
    BY <1>1, <1>5, <2>1, <2>2, <2>3, CommitLifecycle DEF Finalize
  <2> QED
    BY <1>3, <1>5, <2>4 DEF Finalize, network, public
<1>6. CASE Unpublish
  <2>1. live'.lifecycle = "unpublishing"
    BY <1>1, <1>6, BarrierIs, CommitLifecycle DEF Unpublish, Barriers, Ending
  <2> QED
    BY <1>3, <1>6, <2>1 DEF Unpublish, network, public
<1>7. CASE Delete
  <2>1. live'.lifecycle = "deleting"
    BY <1>1, <1>7, BarrierIs, CommitLifecycle DEF Delete, Barriers, Ending
  <2> QED
    BY <1>3, <1>7, <2>1 DEF Delete, network, public
<1>8. CASE Disable
  <2>1. live'.lifecycle = "disabled"
    BY <1>1, <1>8 DEF Disable, Sound, Records
  <2> QED
    BY <1>3, <1>8, <2>1 DEF Disable, network, public
<1>9. CASE Save
  BY <1>3, <1>9 DEF Save, document, network, public
<1>10. CASE StartAttempt
  <2>1. PICK marked, before, was : Begins(marked, before, was)
    BY <1>10, StartIs
  <2>2. attempt' \in Attempts
    BY <1>10, <2>1, BegunIs
  <2>3. attempt' # None /\ answer' = None
    BY <1>1, <1>10, <2>2, NoneAssumption DEF StartAttempt
  <2> QED
    BY <1>1, <2>3 DEF BarrierInv, BarrierHolds
<1>11. CASE Serve
  <2>1. attempt # None /\ request = attempt.item /\ attempt' = attempt /\ live' = live
    BY <1>11, RequestIs DEF Serve, document
  <2>2. PICK item : item = attempt.item
    OBVIOUS
  <2>3. item \in Items /\ page \in Pages
    BY <2>1, <2>2, RequestIs, <1>11 DEF Serve, DocInv, TypeInv
  <2>4. page' = Served(item, page) /\ answer' = Answered(item, page)
    BY <1>11, <2>1, <2>2 DEF Serve
  <2>5. ASSUME Answered(item, page).kind = "published", item.kind \in Barriers
        PROVE  /\ item.kind = "unpublish" => Served(item, page).lifecycle = "unpublished"
               /\ item.kind = "delete" => Served(item, page).lifecycle = "gone"
    <3>1. page.lifecycle # "gone"
      BY <2>5 DEF Answered, Reply
    <3>2. Served(item, page) = Applied(item)
      BY <2>3, <2>5, ServedIs
    <3> QED
      BY <2>3, <3>1, <3>2 DEF Applied, Pages
  <2> QED
    BY <1>1, <2>1, <2>2, <2>4, <2>5 DEF BarrierInv, BarrierHolds, Barriers
<1>12. ASSUME attempt # None, page' = page, NEW reply \in Replies, Settle(reply),
              reply.kind = "published" => reply = answer /\ answer # None,
              attempt.item.kind \in Barriers => reply.kind # "conflict"
       PROVE  BarrierInv'
  <2>1. answer' = None
    BY <1>12 DEF Settle
  <2>2. CASE attempt.item.kind = "delete" /\ reply.kind = "published"
    <3>1. live'.lifecycle = "deleted"
      <4>1. live' = [live EXCEPT !.lifecycle = "deleted", !.outbox = <<>>]
        BY <1>12, <2>2 DEF Settle
      <4>2. PICK record \in Records : record = live
        BY <1>1 DEF Sound
      <4>3. PICK new : new = [record EXCEPT !.lifecycle = "deleted"]
        OBVIOUS
      <4>4. new \in Records /\ new.lifecycle = "deleted"
        BY <4>3 DEF Records, Lifecycles
      <4>5. live' = [new EXCEPT !.outbox = <<>>]
        BY <4>1, <4>2, <4>3
      <4> QED
        BY <4>4, <4>5 DEF Records
    <3>2. page.lifecycle = "gone"
      BY <1>12, <2>2 DEF BarrierInv
    <3> QED
      BY <1>12, <2>1, <3>1, <3>2 DEF BarrierInv, BarrierHolds
  <2>3. CASE ~(attempt.item.kind = "delete" /\ reply.kind = "published")
    <3>1. live'.lifecycle = Merged(reply).lifecycle
      <4>1. Sound(Merged(reply))
        BY <1>12, MergedSound
      <4>2. Commit(content, Merged(reply))
        BY <1>12, <2>3 DEF Settle
      <4> QED
        BY <1>1, <4>1, <4>2, CommitLifecycle
    <3>2. live'.lifecycle = Reached(reply)
      BY <3>1 DEF Merged
    <3>3. \/ live'.lifecycle = live.lifecycle
          \/ /\ live'.lifecycle = "unpublished" /\ attempt.item.kind = "unpublish"
             /\ reply.kind = "published"
      BY <3>2 DEF Reached
    <3> QED
      BY <1>1, <1>12, <2>1, <3>3 DEF BarrierInv, BarrierHolds
  <2> QED
    BY <2>2, <2>3
<1>13. ASSUME attempt # None, page' = page, (answer # None /\ Settle(answer)) \/ Settle(Failure)
       PROVE  BarrierInv'
  <2>1. CASE answer # None /\ Settle(answer)
    <3>1. answer \in Replies /\ (attempt.item.kind \in Barriers => answer.kind # "conflict")
      BY <2>1, RequestIs DEF DocInv
    <3> QED
      BY <1>12, <1>13, <2>1, <3>1
  <2>2. CASE Settle(Failure)
    BY <1>12, <1>13, <2>2, FailureIs
  <2> QED
    BY <1>13, <2>1, <2>2
<1>14. ASSUME live' = live, answer' = None, page' = page PROVE BarrierInv'
  BY <1>14 DEF BarrierInv, BarrierHolds
<1> QED
  BY <1>2, <1>4, <1>5, <1>6, <1>7, <1>8, <1>9, <1>10, <1>11, <1>13, <1>14, CalmSteps

\* Once the Director shows the publication as taken down or deleted, the page is, if
\* nothing is served late and every restart finds the document as it was
\* (enqueueUnpublish, enqueueDelete: nothing can appear behind the barrier).
THEOREM BarriersHold ==
  ASSUME Calm
  PROVE  Spec => []BarrierHolds
<1>1. Init => late = {} /\ BarrierInv
  BY DEF Init, BarrierInv, BarrierHolds
<1>2. late = {} /\ BarrierInv /\ DocInv /\ DocInv' /\ [Next]_vars => (late = {} /\ BarrierInv)'
  BY Calm, CalmSteps, BarrierStep
<1>3. BarrierInv => BarrierHolds
  BY DEF BarrierInv
<1> QED
  BY <1>1, <1>2, <1>3, Documents, PTL DEF Spec

-----------------------------------------------------------------------------
(* The page is never shown anything older.                                 *)

\* What is no older than a snapshot is no older than what precedes it.
LEMMA Transitive ==
  ASSUME NEW a \in SectionValues, NEW b \in Contents, NEW c \in SectionValues,
         Precedes(a, b), Precedes(b, c)
  PROVE  Precedes(a, c)
<1>1. /\ DOMAIN a \subseteq Sections /\ \A s \in DOMAIN a : a[s] \in Nat
      /\ DOMAIN c \subseteq Sections /\ \A s \in DOMAIN c : c[s] \in Nat
  BY DEF SectionValues, Editions
<1>2. DOMAIN b = Sections /\ \A s \in Sections : b[s] \in Nat
  BY DEF Contents, Editions
<1>3. ASSUME NEW s \in DOMAIN a \cap DOMAIN c PROVE a[s] <= c[s]
  <2>1. a[s] <= b[s] /\ b[s] <= c[s]
    BY <1>1, <1>2 DEF Precedes
  <2> QED
    BY <1>1, <1>2, <2>1
<1> QED
  BY <1>3 DEF Precedes

\* Nothing is newer than itself.
LEMMA Reflexive ==
  ASSUME NEW a \in SectionValues
  PROVE  Precedes(a, a)
<1>1. \A s \in DOMAIN a : a[s] \in Nat
  BY DEF SectionValues, Editions
<1> QED
  BY <1>1 DEF Precedes

\* All sections are some of them.
LEMMA AllSections == Contents \subseteq SectionValues
BY DEF Contents, SectionValues

\* What is at most one document is at most a newer one.
LEMMA EndsHigher ==
  ASSUME NEW outbox \in Seq(Items), NEW to \in Contents, NEW higher \in Contents,
         Precedes(to, higher), Ends(outbox, to)
  PROVE  Ends(outbox, higher)
<1>1. \A i \in DOMAIN outbox : outbox[i].sections \in SectionValues
  <2>1. \A i \in DOMAIN outbox : outbox[i] \in Items
    OBVIOUS
  <2> QED
    BY <2>1 DEF Items
<1>2. higher \in SectionValues
  BY AllSections
<1> QED
  BY <1>1, <1>2, Transitive DEF Ends

\* A commit, with the request under way or at its end, keeps the page behind the outbox.
LEMMA CommitOrder ==
  ASSUME DocInv, OrderInv, NEW c \in Contents, Precedes(content, c),
         NEW record, Sound(record), Commit(c, record),
         Ends(record.outbox, c), Ordered(record.outbox),
         Follows(page.sections, <<>>, record.outbox),
         cache # None => Ends(record.outbox, cache.sections),
         \/ attempt' = None
         \/ /\ attempt' = attempt
            /\ attempt # None => /\ KnownFirst(attempt.live.outbox, record.outbox)
                                 /\ Since(attempt, record.outbox),
         UNCHANGED <<late, page>>
  PROVE  OrderInv'
<1>1. /\ TypeInv /\ Known \in Seq(Items) /\ cache \in Snapshots \cup {None}
      /\ attempt # None => attempt \in Attempts /\ Known = attempt.live.outbox
      /\ content \in Contents /\ page.sections \in Contents
  BY KnownIs DEF DocInv, TypeInv, Pages
<1>2. PICK d : d = Derived(c, record, cache)
  OBVIOUS
<1>3. content' = c /\ live' = d.live /\ cache' = d.cache
  BY <1>2 DEF Commit
<1>4. PICK shown : shown = page.sections
  OBVIOUS
<1>5. shown \in SectionValues /\ c \in SectionValues /\ shown \in Contents
  BY <1>1, <1>4, AllSections
<1>6. /\ Ends(d.live.outbox, c) /\ Ordered(d.live.outbox)
      /\ \A v : \A known \in {<<>>, Known, record.outbox} :
           /\ Precedes(v, c) /\ KnownFirst(known, record.outbox)
           /\ Follows(v, known, record.outbox)
           => Follows(v, known, d.live.outbox)
      /\ \/ d.live = record /\ d.cache = cache
         \/ d.cache \in Snapshots /\ d.cache.sections = c
  BY <1>1, <1>2, DerivedOrder
<1>7. KnownFirst(<<>>, record.outbox)
  BY KnownAlways DEF Sound, Records
<1>8. Precedes(shown, c)
  BY <1>1, <1>4, <1>5, Transitive DEF OrderInv, AtMost
<1>9. Follows(shown, <<>>, d.live.outbox)
  BY <1>4, <1>6, <1>7, <1>8
<1>10. Precedes(c, c)
  BY <1>5, Reflexive
<1>11. ASSUME d.cache # None
       PROVE  /\ Precedes(d.cache.sections, c)
              /\ AtMost(shown, d.live.outbox, d.cache.sections)
  <2>1. CASE d.live = record /\ d.cache = cache
    <3>1. cache \in Snapshots /\ cache.sections \in Contents /\ cache.sections \in SectionValues
      BY <1>1, <1>11, <2>1, AllSections DEF Snapshots
    <3>2. Precedes(cache.sections, content) /\ Precedes(shown, cache.sections)
      BY <1>4, <1>11, <2>1 DEF OrderInv, AtMost
    <3>3. Precedes(cache.sections, c)
      BY <1>1, <1>5, <3>1, <3>2, Transitive
    <3> QED
      BY <1>11, <2>1, <3>2, <3>3 DEF AtMost
  <2>2. CASE d.cache \in Snapshots /\ d.cache.sections = c
    BY <1>6, <1>8, <1>10, <2>2 DEF AtMost
  <2> QED
    BY <1>6, <2>1, <2>2
<1>12. ASSUME attempt' # None
       PROVE  /\ Leads(shown, attempt.live.outbox) /\ Ends(attempt.live.outbox, c)
              /\ d.cache # None => Ends(attempt.live.outbox, d.cache.sections)
              /\ attempt.snapshot # None =>
                   /\ Precedes(attempt.snapshot.sections, c)
                   /\ d.cache # None => Precedes(attempt.snapshot.sections, d.cache.sections)
                   /\ AtMost(shown, attempt.live.outbox, attempt.snapshot.sections)
              /\ Since(attempt, d.live.outbox)
  <2>1. /\ attempt # None /\ attempt' = attempt /\ attempt \in Attempts
        /\ Known = attempt.live.outbox
        /\ KnownFirst(Known, record.outbox) /\ Since(attempt, record.outbox)
    BY <1>1, <1>12
  <2>2. PICK old : old = attempt.live.outbox
    OBVIOUS
  <2>3. /\ Leads(shown, old) /\ Ends(old, content)
        /\ cache # None => Ends(old, cache.sections)
        /\ attempt.snapshot # None =>
             /\ Precedes(attempt.snapshot.sections, content)
             /\ cache # None => Precedes(attempt.snapshot.sections, cache.sections)
             /\ AtMost(shown, old, attempt.snapshot.sections)
    BY <1>4, <2>1, <2>2 DEF OrderInv
  <2>4. old \in Seq(Items) /\ attempt.item \in Items /\ old # <<>>
        /\ old[1].sections = attempt.item.sections
    BY <2>1, <2>2 DEF DocInv, Began, Attempts, Records, Items
  <2>5. Ends(old, c)
    BY <1>1, <2>3, <2>4, EndsHigher
  <2>6. d.cache # None => Ends(old, d.cache.sections)
    BY <1>6, <2>3, <2>5
  <2>7. ASSUME attempt.snapshot # None
        PROVE  /\ Precedes(attempt.snapshot.sections, c)
               /\ d.cache # None => Precedes(attempt.snapshot.sections, d.cache.sections)
    <3>1. attempt.snapshot.sections \in SectionValues
      BY <2>1, <2>7, AllSections DEF Attempts, Snapshots
    <3>2. Precedes(attempt.snapshot.sections, c)
      BY <1>1, <1>5, <2>3, <2>7, <3>1, Transitive
    <3> QED
      BY <1>6, <2>3, <2>7, <3>2
  <2>8. Since(attempt, d.live.outbox)
    <3>1. 1 \in DOMAIN old /\ Precedes(attempt.item.sections, c)
      BY <2>4, <2>5 DEF Ends
    <3>2. Follows(attempt.item.sections, <<>>, d.live.outbox)
      BY <1>6, <1>7, <2>1, <3>1 DEF Since
    <3>3. ASSUME NEW i \in DOMAIN old PROVE Follows(old[i].sections, old, d.live.outbox)
      <4>1. Precedes(old[i].sections, c)
        BY <2>5 DEF Ends
      <4>2. Follows(old[i].sections, old, record.outbox)
        BY <2>1, <2>2 DEF Since
      <4> QED
        BY <1>6, <2>1, <2>2, <4>1, <4>2
    <3>4. ASSUME attempt.snapshot # None
          PROVE  Follows(attempt.snapshot.sections, old, d.live.outbox)
      <4>1. Follows(attempt.snapshot.sections, old, record.outbox)
        BY <2>1, <2>2, <3>4 DEF Since
      <4> QED
        BY <1>6, <2>1, <2>2, <2>7, <3>4, <4>1
    <3> QED
      BY <2>2, <3>2, <3>3, <3>4 DEF Since
  <2> QED
    BY <2>2, <2>3, <2>5, <2>6, <2>7, <2>8
<1>13. /\ late' = {} /\ page'.sections = shown
       /\ AtMost(shown, live'.outbox, content') /\ Leads(shown, live'.outbox)
  BY <1>3, <1>4, <1>6, <1>8, <1>9 DEF OrderInv, AtMost, Leads
<1>14. attempt' # None => attempt' = attempt
  OBVIOUS
<1>15. attempt' # None =>
         /\ Leads(shown, attempt'.live.outbox) /\ Ends(attempt'.live.outbox, content')
         /\ cache' # None => Ends(attempt'.live.outbox, cache'.sections)
         /\ attempt'.snapshot # None =>
              /\ Precedes(attempt'.snapshot.sections, content')
              /\ cache' # None => Precedes(attempt'.snapshot.sections, cache'.sections)
              /\ AtMost(shown, attempt'.live.outbox, attempt'.snapshot.sections)
         /\ Since(attempt', live'.outbox)
  BY <1>3, <1>12, <1>14
<1> QED
  BY <1>3, <1>11, <1>13, <1>15 DEF OrderInv

\* A step that changes neither the document nor the page, and forgets at most the last
\* snapshot and the request.
LEMMA QuietOrder ==
  ASSUME OrderInv, UNCHANGED <<content, page>>, late' = {}, live'.outbox = live.outbox,
         cache' = cache \/ cache' = None, attempt' = attempt \/ attempt' = None
  PROVE  OrderInv'
<1>1. CASE attempt' = None
  BY <1>1 DEF OrderInv
<1>2. CASE attempt' = attempt /\ cache' = cache
  BY <1>2 DEF OrderInv
<1>3. CASE attempt' = attempt /\ cache' = None
  BY <1>3 DEF OrderInv
<1> QED
  BY <1>1, <1>2, <1>3

\* Editing makes sections newer, and no older one is sent.
LEMMA EditOrder ==
  ASSUME DocInv, OrderInv, NEW changed \in SUBSET Sections, Edit(changed)
  PROVE  OrderInv'
<1>1. PICK c : c = Edited(changed)
  OBVIOUS
<1>2. /\ content \in Contents /\ Sound(live) /\ live.outbox \in Seq(Items)
      /\ Commit(c, live) /\ UNCHANGED <<attempt, late, page>>
  BY <1>1 DEF Edit, Edited, DocInv, TypeInv, Sound, Records, network
<1>3. c \in Contents /\ \A s \in Sections : content[s] <= c[s]
  BY <1>1, <1>2, EditedIs DEF Edit
<1>4. Precedes(content, c)
  BY <1>2, <1>3 DEF Precedes, Contents
<1>5. /\ Ends(live.outbox, content) /\ Ordered(live.outbox)
      /\ Follows(page.sections, <<>>, live.outbox)
      /\ cache # None => Ends(live.outbox, cache.sections)
  BY DEF OrderInv, AtMost, Leads
<1>6. Ends(live.outbox, c)
  BY <1>2, <1>3, <1>4, <1>5, EndsHigher
<1>7. attempt # None => /\ KnownFirst(attempt.live.outbox, live.outbox)
                        /\ Since(attempt, live.outbox)
  BY DEF DocInv, Awaited, OrderInv
<1> QED
  BY <1>2, <1>3, <1>4, <1>5, <1>6, <1>7, CommitOrder

\* So does a commit of the same document with an outbox of items it had, and of barriers.
LEMMA RecordOrder ==
  ASSUME DocInv, OrderInv, NEW record, Sound(record), Commit(content, record),
         \A k \in DOMAIN record.outbox :
           \/ record.outbox[k].sections = NoSections
           \/ k = 1 /\ 1 \in DOMAIN live.outbox /\ record.outbox[k] = live.outbox[1],
         attempt # None => Awaited(attempt, record.lifecycle, record.outbox),
         UNCHANGED <<attempt, late, page>>
  PROVE  OrderInv'
<1>1. PICK r : r = record.outbox
  OBVIOUS
<1>2. /\ content \in Contents /\ content \in SectionValues
      /\ r \in Seq(Items) /\ live.outbox \in Seq(Items)
  BY <1>1, AllSections DEF DocInv, TypeInv, Sound, Records
<1>3. \A k \in DOMAIN r :
        \/ r[k].sections = NoSections
        \/ k = 1 /\ 1 \in DOMAIN live.outbox /\ r[k] = live.outbox[1]
  BY <1>1
<1>4. \A v : Precedes(v, NoSections) /\ Precedes(NoSections, v)
  BY DEF NoSections, Precedes
<1>5. \A v : Ends(live.outbox, v) => Ends(r, v)
  BY <1>3, <1>4 DEF Ends
<1>6. Ordered(r)
  <2>1. ASSUME NEW i \in DOMAIN r, NEW j \in DOMAIN r, i < j
        PROVE  Precedes(r[i].sections, r[j].sections)
    <3>1. i \in Nat /\ i >= 1
      BY <1>2
    <3>2. j # 1
      BY <2>1, <3>1
    <3> QED
      BY <1>3, <1>4, <3>2
  <2> QED
    BY <2>1 DEF Ordered
<1>7. \A v, known : Follows(v, known, live.outbox) => Follows(v, known, r)
  BY <1>3, <1>4 DEF Follows, Newer
<1>8. /\ Ends(r, content) /\ Follows(page.sections, <<>>, r)
      /\ cache # None => Ends(r, cache.sections)
  BY <1>5, <1>7 DEF OrderInv, AtMost, Leads
<1>9. attempt # None => KnownFirst(attempt.live.outbox, r) /\ Since(attempt, r)
  BY <1>1, <1>7 DEF Awaited, OrderInv, Since
<1>10. Precedes(content, content)
  BY <1>2, Reflexive
<1> QED
  BY <1>1, <1>2, <1>6, <1>8, <1>9, <1>10, CommitOrder

\* Finishing the tournament, and barriers.
LEMMA DirectOrder ==
  ASSUME DocInv, OrderInv, Finalize \/ Unpublish \/ Delete
  PROVE  OrderInv'
<1>1. UNCHANGED <<attempt, late, page>>
  BY DEF Finalize, Unpublish, Delete, network, public
<1>2. CASE Finalize
  <2>1. PICK record : record = [live EXCEPT !.lifecycle = "final"]
    OBVIOUS
  <2>2. live \in Records /\ live.lifecycle = "live" /\ Commit(content, record)
    BY <1>2, <2>1 DEF Finalize, DocInv, Sound
  <2>3. record \in Records /\ record.lifecycle = "final" /\ record.outbox = live.outbox
    BY <2>1, <2>2 DEF Records, Lifecycles, Projecting
  <2>4. Sound(record)
    BY <2>2, <2>3, Projected DEF DocInv, Sound, Publishes, Projecting
  <2>5. /\ Ends(record.outbox, content) /\ Ordered(record.outbox)
        /\ Follows(page.sections, <<>>, record.outbox)
        /\ cache # None => Ends(record.outbox, cache.sections)
    BY <2>3 DEF OrderInv, AtMost, Leads
  <2>6. attempt # None => /\ KnownFirst(attempt.live.outbox, record.outbox)
                          /\ Since(attempt, record.outbox)
    BY <2>3 DEF DocInv, Awaited, OrderInv
  <2>7. content \in Contents /\ Precedes(content, content)
    BY Reflexive, AllSections DEF DocInv, TypeInv
  <2> QED
    BY <1>1, <2>2, <2>4, <2>5, <2>6, <2>7, CommitOrder
<1>3. CASE Unpublish
  <2>1. PICK record : record = Barrier("unpublish", "unpublishing")
    OBVIOUS
  <2>2. /\ Sound(record) /\ record.lifecycle = "unpublishing"
        /\ \A k \in DOMAIN record.outbox :
             \/ record.outbox[k].sections = NoSections
             \/ k = 1 /\ 1 \in DOMAIN live.outbox /\ record.outbox[k] = live.outbox[1]
        /\ attempt # None => Awaited(attempt, record.lifecycle, record.outbox)
    BY <1>3, <2>1, BarrierIs DEF Unpublish, Barriers, Ending
  <2>3. Commit(content, record)
    BY <1>3, <2>1 DEF Unpublish
  <2> QED
    BY <1>1, <2>2, <2>3, RecordOrder
<1>4. CASE Delete
  <2>1. PICK record : record = Barrier("delete", "deleting")
    OBVIOUS
  <2>2. /\ Sound(record) /\ record.lifecycle = "deleting"
        /\ \A k \in DOMAIN record.outbox :
             \/ record.outbox[k].sections = NoSections
             \/ k = 1 /\ 1 \in DOMAIN live.outbox /\ record.outbox[k] = live.outbox[1]
        /\ attempt # None => Awaited(attempt, record.lifecycle, record.outbox)
    BY <1>4, <2>1, BarrierIs DEF Delete, Barriers, Ending
  <2>3. Commit(content, record)
    BY <1>4, <2>1 DEF Delete
  <2> QED
    BY <1>1, <2>2, <2>3, RecordOrder
<1> QED
  BY <1>2, <1>3, <1>4

\* What the backend shows of a request is no older than the page was, and no newer than
\* what came since.
LEMMA ServeOrder ==
  ASSUME DocInv, OrderInv, Serve
  PROVE  OrderInv' /\ (page' = page \/ (page.lifecycle # "gone" /\ page' = Applied(request)
                                        /\ ~Refused(request, page)
                                        /\ Precedes(page.sections, request.sections)))
<1>1. /\ attempt # None /\ request = attempt.item /\ request \in Items /\ page \in Pages
      /\ UNCHANGED <<content, live, cache, attempt, late>> /\ page' = Served(request, page)
  BY RequestIs DEF Serve, DocInv, TypeInv, document
<1>2. PICK item : item = request
  OBVIOUS
<1>3. PICK old : old = attempt.live.outbox
  OBVIOUS
<1>4. /\ old \in Seq(Items) /\ old # <<>> /\ item \in Items /\ 1 \in DOMAIN old
      /\ old[1].sections = item.sections /\ live.outbox \in Seq(Items)
  BY <1>1, <1>2, <1>3 DEF DocInv, Began, Attempts, Records, Sound, Items
<1>5. /\ Follows(page.sections, <<>>, old) /\ Ordered(old)
      /\ Follows(item.sections, <<>>, live.outbox)
  BY <1>1, <1>2, <1>3 DEF OrderInv, Leads, Since
<1>6. \A v : Ends(old, v) => Precedes(item.sections, v)
  BY <1>4 DEF Ends
<1>7. Follows(item.sections, <<>>, old)
  <2>1. ASSUME NEW j \in DOMAIN old PROVE Precedes(item.sections, old[j].sections)
    <3>1. CASE j = 1
      <4>1. item.sections \in SectionValues
        BY <1>4 DEF Items
      <4> QED
        BY <1>4, <3>1, <4>1, Reflexive
    <3>2. CASE j # 1
      <4>1. j \in Nat /\ 1 < j
        BY <1>4, <3>2
      <4> QED
        BY <1>4, <1>5, <4>1 DEF Ordered
    <3> QED
      BY <3>1, <3>2
  <2> QED
    BY <2>1 DEF Follows, Newer
<1>8. Precedes(page.sections, item.sections)
  <2>1. 1 \in Newer(<<>>, old)
    BY <1>4, KnownAlways
  <2> QED
    BY <1>4, <1>5, <2>1 DEF Follows
<1>9. \A v : Precedes(page.sections, v) /\ Precedes(item.sections, v)
              => Precedes(page'.sections, v)
  <2>1. page' = page \/ page' = Applied(item)
    BY <1>1, <1>2, ServedIs
  <2>2. /\ item.kind \in Barriers => Applied(item).sections = page.sections
        /\ item.kind \notin Barriers =>
             \A s \in Sections : Applied(item).sections[s] =
               IF s \in DOMAIN item.sections THEN item.sections[s] ELSE page.sections[s]
        /\ DOMAIN Applied(item).sections = Sections /\ DOMAIN page.sections = Sections
    BY <1>1, <1>4, AppliedIs DEF Pages, Contents
  <2>3. CASE page' = page \/ Applied(item).sections = page.sections
    BY <2>1, <2>3
  <2>4. CASE /\ page' = Applied(item)
             /\ \A s \in Sections : Applied(item).sections[s] =
                  IF s \in DOMAIN item.sections THEN item.sections[s] ELSE page.sections[s]
    BY <2>2, <2>4 DEF Precedes
  <2> QED
    BY <2>1, <2>2, <2>3, <2>4
<1>10. \A outbox : Follows(page.sections, <<>>, outbox) /\ Follows(item.sections, <<>>, outbox)
                    => Follows(page'.sections, <<>>, outbox)
  BY <1>9 DEF Follows
<1>11. \A v : Precedes(page.sections, v) /\ Ends(old, v) => Precedes(page'.sections, v)
  BY <1>6, <1>9
<1>12. OrderInv'
  <2>1. /\ Leads(page'.sections, live.outbox) /\ Leads(page'.sections, old)
    BY <1>1, <1>3, <1>5, <1>7, <1>10 DEF OrderInv, Leads
  <2>2. AtMost(page'.sections, live.outbox, content)
    BY <1>1, <1>3, <1>11 DEF OrderInv, AtMost
  <2>3. cache # None => AtMost(page'.sections, live.outbox, cache.sections)
    BY <1>1, <1>3, <1>11 DEF OrderInv, AtMost
  <2>4. attempt.snapshot # None => AtMost(page'.sections, old, attempt.snapshot.sections)
    BY <1>1, <1>3, <1>11 DEF OrderInv, AtMost
  <2> QED
    BY <1>1, <1>3, <2>1, <2>2, <2>3, <2>4 DEF OrderInv
<1>13. page' = page \/ (page.lifecycle # "gone" /\ page' = Applied(item) /\ ~Refused(item, page))
  BY <1>1, <1>2 DEF Served
<1> QED
  BY <1>2, <1>8, <1>12, <1>13

\* What came of the request keeps the order, a repair last.
LEMMA SettledOrder ==
  ASSUME DocInv, OrderInv, attempt # None, NEW reply \in Replies,
         NEW settled, Settled(settled, reply)
  PROVE  /\ Ordered(settled.outbox)
         /\ \A k \in DOMAIN settled.outbox :
              \/ \E i \in DOMAIN attempt.live.outbox :
                   settled.outbox[k].sections = attempt.live.outbox[i].sections
              \/ /\ attempt.snapshot # None
                 /\ settled.outbox[k].sections = attempt.snapshot.sections
<1>1. PICK old : old = attempt.live.outbox
  OBVIOUS
<1>2. PICK a : a = settled.outbox
  OBVIOUS
<1>3. /\ old \in Seq(Items) /\ Ordered(old) /\ attempt.live \in Records /\ reply.revision \in Nat
      /\ attempt.snapshot # None => Ends(old, attempt.snapshot.sections)
  BY <1>1 DEF DocInv, Began, Attempts, Records, Replies, OrderInv, Leads, AtMost
<1>4. PICK r, at : /\ Remains(r, old, at)
                   /\ \/ Acknowledged(settled, reply, r, at)
                      \/ Repaired(settled, reply, r, at)
                      \/ Unchanged(settled, reply, r, at)
  BY <1>1 DEF Settled
<1>5. /\ r \in Seq(Items) /\ DOMAIN r = 1..Len(r) /\ Ordered(r)
      /\ \A v : Ends(old, v) => Ends(r, v)
      /\ \A k \in DOMAIN r : \E i \in DOMAIN old : r[k].sections = old[i].sections
  <2>1. Selects(r, old, at)
    BY <1>4 DEF Remains
  <2>2. r \in Seq(Items) /\ DOMAIN r = 1..Len(r)
    BY <2>1 DEF Selects
  <2>3. Ordered(r) /\ \A v : Ends(old, v) => Ends(r, v)
    BY <1>3, <2>1, SelectedIs
  <2>4. \A k \in 1..Len(r) : at[k] \in DOMAIN old /\ r[k].sections = old[at[k]].sections
    BY <1>3, <2>1 DEF Selects, Rising, Same
  <2> QED
    BY <2>2, <2>3, <2>4
<1>6. CASE Acknowledged(settled, reply, r, at) \/ Unchanged(settled, reply, r, at)
  <2>1. a = r
    BY <1>2, <1>3, <1>6 DEF Acknowledged, Unchanged, Records
  <2> QED
    BY <1>1, <1>2, <1>5, <2>1
<1>7. CASE Repaired(settled, reply, r, at)
  <2>1. PICK x \in Items :
          /\ attempt.snapshot # None /\ x.sections = attempt.snapshot.sections
          /\ settled = [attempt.live EXCEPT !.outbox = Append(r, x), !.ack = reply.revision]
    BY <1>7 DEF Repaired
  <2>2. PICK q : q = Append(r, x)
    OBVIOUS
  <2>3. PICK n \in Nat : n = Len(r) /\ DOMAIN r = 1..n
    <3>1. Len(r) \in Nat
      BY <1>5
    <3> QED
      BY <1>5, <3>1
  <2>4. /\ q \in Seq(Items) /\ DOMAIN q = 1..(n + 1) /\ q[n + 1] = x
        /\ \A k \in 1..n : q[k] = r[k]
    BY <1>5, <2>2, <2>3
  <2>5. a = q
    BY <1>2, <1>3, <2>1, <2>2, <2>4 DEF Records
  <2>6. Ends(r, x.sections)
    BY <1>3, <1>5, <2>1
  <2>7. Ordered(q)
    <3>1. ASSUME NEW i \in 1..(n + 1), NEW j \in 1..(n + 1), i < j
          PROVE  Precedes(q[i].sections, q[j].sections)
      <4>1. i \in 1..n
        BY <3>1
      <4>2. CASE j \in 1..n
        BY <1>5, <2>3, <2>4, <3>1, <4>1, <4>2 DEF Ordered
      <4>3. CASE j = n + 1
        BY <2>3, <2>4, <2>6, <4>1, <4>3 DEF Ends
      <4> QED
        BY <4>2, <4>3
    <3> QED
      BY <2>4, <3>1 DEF Ordered
  <2>8. \A k \in 1..(n + 1) :
          (k \in 1..n /\ q[k] = r[k]) \/ q[k].sections = attempt.snapshot.sections
    <3>1. \A k \in 1..(n + 1) : k \in 1..n \/ k = n + 1
      OBVIOUS
    <3> QED
      BY <2>1, <2>4, <3>1
  <2>9. \A k \in DOMAIN q :
          \/ \E i \in DOMAIN old : q[k].sections = old[i].sections
          \/ attempt.snapshot # None /\ q[k].sections = attempt.snapshot.sections
    BY <1>5, <2>1, <2>3, <2>4, <2>8
  <2> QED
    BY <1>1, <1>2, <2>5, <2>7, <2>9
<1> QED
  BY <1>4, <1>6, <1>7

\* The end of a drain keeps the page behind the outbox.
LEMMA SettleOrder ==
  ASSUME DocInv, OrderInv, attempt # None, NEW reply \in Replies, Settle(reply),
         attempt.item.kind \in Barriers => reply.kind # "conflict", UNCHANGED <<late, page>>
  PROVE  OrderInv'
<1>1. attempt' = None
  BY DEF Settle
<1>2. CASE attempt.item.kind = "delete" /\ reply.kind = "published"
  <2>1. content' = content /\ cache' = None
        /\ live' = [live EXCEPT !.lifecycle = "deleted", !.outbox = <<>>]
    BY <1>2 DEF Settle
  <2>2. live'.outbox = <<>>
    BY <2>1 DEF DocInv, Sound, Records
  <2>3. \A v : Ends(<<>>, v) /\ Follows(v, <<>>, <<>>) /\ Ordered(<<>>)
    BY DEF Ends, Follows, Newer, Ordered
  <2> QED
    BY <1>1, <2>1, <2>2, <2>3 DEF OrderInv, AtMost, Leads
<1>3. CASE ~(attempt.item.kind = "delete" /\ reply.kind = "published")
  <2>1. PICK merged : merged = Merged(reply)
    OBVIOUS
  <2>2. Sound(merged) /\ Commit(content, merged)
    BY <1>3, <2>1, MergedSound DEF Settle
  <2>3. PICK settled : settled = Outcome(reply)
    OBVIOUS
  <2>4. Settled(settled, reply)
    BY <2>3, SettledIs
  <2>5. PICK old : old = attempt.live.outbox
    OBVIOUS
  <2>6. PICK a : a = settled.outbox
    OBVIOUS
  <2>7. PICK newer : newer = Picked(live.outbox, Newer(old, live.outbox))
    OBVIOUS
  <2>8. PICK first : first = IF Superseded(attempt.item.kind) THEN <<>> ELSE a
    OBVIOUS
  <2>9. PICK second : second = IF Reached(reply) = "unpublished" THEN <<>> ELSE newer
    OBVIOUS
  <2>10. PICK q : q = first \o second
    OBVIOUS
  <2>11. merged.outbox = q
    BY <2>1, <2>3, <2>5, <2>6, <2>7, <2>8, <2>9, <2>10 DEF Merged
  <2>12. a \in Seq(Items)
    BY <2>4, <2>6, SettledOutbox
  <2>13. /\ Ordered(a)
         /\ \A k \in DOMAIN a :
              \/ \E i \in DOMAIN old : a[k].sections = old[i].sections
              \/ attempt.snapshot # None /\ a[k].sections = attempt.snapshot.sections
    BY <2>4, <2>5, <2>6, SettledOrder
  <2>14. /\ newer \in Seq(Items)
         /\ \E at : /\ Selects(newer, live.outbox, at)
                    /\ \A k \in 1..Len(newer) :
                         at[k] \in Newer(old, live.outbox) /\ newer[k] = live.outbox[at[k]]
    BY <2>5, <2>7, NewerIs
  <2>15. live.outbox \in Seq(Items) /\ old \in Seq(Items)
    BY <2>5 DEF DocInv, Sound, Began, Attempts, Records
  <2>16. /\ Ordered(newer) /\ DOMAIN newer = 1..Len(newer)
         /\ \A k \in DOMAIN newer : \E i \in Newer(old, live.outbox) : newer[k] = live.outbox[i]
    <3>1. Ordered(live.outbox)
      BY DEF OrderInv, Leads
    <3> QED
      BY <2>14, <2>15, <3>1, SelectedIs
  <2>17. /\ Follows(page.sections, <<>>, old) /\ Follows(page.sections, <<>>, live.outbox)
         /\ \A i \in DOMAIN old : Follows(old[i].sections, old, live.outbox)
         /\ attempt.snapshot # None =>
              /\ Follows(attempt.snapshot.sections, old, live.outbox)
              /\ Precedes(page.sections, attempt.snapshot.sections)
    BY <2>5 DEF OrderInv, Leads, Since, AtMost
  <2>18. \A i \in DOMAIN a, j \in DOMAIN newer : Precedes(a[i].sections, newer[j].sections)
    BY <2>13, <2>16, <2>17 DEF Follows
  <2>19. \A k \in DOMAIN a : Precedes(page.sections, a[k].sections)
    <3>1. \A i \in DOMAIN old : i \in Newer(<<>>, old)
      BY <2>15, KnownAlways
    <3> QED
      BY <2>13, <2>17, <3>1 DEF Follows
  <2>20. \A k \in DOMAIN newer : Precedes(page.sections, newer[k].sections)
    <3>1. \A i \in Newer(old, live.outbox) : i \in Newer(<<>>, live.outbox)
      BY <2>15, KnownAlways DEF Newer
    <3> QED
      BY <2>16, <2>17, <3>1 DEF Follows
  <2>21. ASSUME NEW v, Ends(live.outbox, v), Ends(old, v),
                attempt.snapshot # None => Precedes(attempt.snapshot.sections, v)
         PROVE  /\ \A k \in DOMAIN a : Precedes(a[k].sections, v)
                /\ \A k \in DOMAIN newer : Precedes(newer[k].sections, v)
    BY <2>13, <2>16, <2>21 DEF Ends, Newer
  <2>22. /\ first \in Seq(Items) /\ second \in Seq(Items)
         /\ first = a \/ first = <<>>
         /\ second = newer \/ second = <<>>
    BY <2>8, <2>9, <2>12, <2>14
  <2>23. PICK m \in Nat : m = Len(first) /\ DOMAIN first = 1..m
    BY <2>22
  <2>24. /\ q \in Seq(Items)
         /\ \A k \in DOMAIN first : k \in DOMAIN q /\ q[k] = first[k]
         /\ \A k \in DOMAIN second : Len(first) + k \in DOMAIN q /\ q[Len(first) + k] = second[k]
         /\ \A k \in DOMAIN q : k \in DOMAIN first \/ \E l \in DOMAIN second : k = Len(first) + l
    BY <2>10, <2>22, Concatenated
  <2>25. \A k \in DOMAIN q :
           \/ k \in 1..m /\ k \in DOMAIN a /\ q[k] = a[k]
           \/ \E l \in DOMAIN newer : k = m + l /\ q[k] = newer[l]
    <3>1. DOMAIN <<>> = {}
      OBVIOUS
    <3> QED
      BY <2>22, <2>23, <2>24, <3>1
  <2>26. Ordered(q)
    <3>1. ASSUME NEW i \in DOMAIN q, NEW j \in DOMAIN q, i < j
          PROVE  Precedes(q[i].sections, q[j].sections)
      <4>1. CASE /\ i \in 1..m /\ i \in DOMAIN a /\ q[i] = a[i]
                 /\ j \in 1..m /\ j \in DOMAIN a /\ q[j] = a[j]
        BY <2>13, <3>1, <4>1 DEF Ordered
      <4>2. CASE /\ i \in 1..m /\ i \in DOMAIN a /\ q[i] = a[i]
                 /\ \E l \in DOMAIN newer : j = m + l /\ q[j] = newer[l]
        BY <2>18, <4>2
      <4>3. CASE \E l \in DOMAIN newer : i = m + l /\ q[i] = newer[l]
        <5>1. PICK k \in DOMAIN newer : i = m + k /\ q[i] = newer[k]
          BY <4>3
        <5>2. ~(j \in 1..m)
          BY <2>16, <3>1, <5>1
        <5>3. PICK l \in DOMAIN newer : j = m + l /\ q[j] = newer[l]
          BY <2>25, <5>2
        <5>4. k < l
          BY <2>16, <3>1, <5>1, <5>3
        <5> QED
          BY <2>16, <5>1, <5>3, <5>4 DEF Ordered
      <4> QED
        BY <2>25, <4>1, <4>2, <4>3
    <3> QED
      BY <3>1 DEF Ordered
  <2>27. Follows(page.sections, <<>>, q)
    BY <2>19, <2>20, <2>25 DEF Follows, Newer
  <2>28. \A v : /\ Ends(live.outbox, v) /\ Ends(old, v)
                /\ attempt.snapshot # None => Precedes(attempt.snapshot.sections, v)
                => Ends(q, v)
    BY <2>21, <2>25 DEF Ends
  <2>29. Ends(q, content) /\ (cache # None => Ends(q, cache.sections))
    BY <2>5, <2>28 DEF OrderInv, AtMost
  <2>30. content \in Contents /\ Precedes(content, content)
    BY Reflexive, AllSections DEF DocInv, TypeInv
  <2> QED
    BY <1>1, <2>2, <2>11, <2>26, <2>27, <2>29, <2>30, CommitOrder
<1> QED
  BY <1>2, <1>3

\* Beginning to send keeps the page behind the outbox, and what the drain holds with it.
LEMMA StartOrder ==
  ASSUME DocInv, OrderInv, StartAttempt
  PROVE  OrderInv'
<1>1. PICK marked, before, was : Begins(marked, before, was)
  BY StartIs
<1>2. /\ Sound(live') /\ cache' \in Snapshots \cup {None} /\ attempt' \in Attempts
      /\ attempt'.live = marked /\ attempt'.snapshot = cache'
      /\ Began(attempt')
  BY <1>1, BegunIs
<1>3. /\ content' = content /\ late' = late /\ page' = page /\ Known \in Seq(Items)
      /\ content \in Contents /\ content \in SectionValues /\ page.sections \in Contents
  BY AllSections DEF StartAttempt, public, Known, DocInv, TypeInv, Pages
<1>4. PICK shown : shown = page.sections
  OBVIOUS
<1>5. PICK r : r = marked.outbox
  OBVIOUS
<1>6. PICK d : d = Derived(content, before, was)
  OBVIOUS
<1>7. /\ Sound(before) /\ r = before.outbox /\ was \in Snapshots \cup {None}
      /\ was = cache \/ was.sections = content
      /\ live' = d.live /\ cache' = d.cache
  BY <1>1, <1>5, <1>6 DEF Begins
<1>8. /\ Ends(live.outbox, content) /\ Ordered(live.outbox)
      /\ Follows(shown, <<>>, live.outbox) /\ Precedes(shown, content)
      /\ cache # None => /\ Precedes(cache.sections, content) /\ Precedes(shown, cache.sections)
                         /\ Ends(live.outbox, cache.sections)
  BY <1>4 DEF OrderInv, AtMost, Leads
<1>9. /\ r \in Seq(Items) /\ Ordered(r) /\ Follows(shown, <<>>, r)
      /\ \A v : Ends(live.outbox, v) => Ends(r, v)
  <2>1. PICK at : Selects(r, live.outbox, at)
    BY <1>1, <1>5 DEF Begins
  <2>2. live.outbox \in Seq(Items) /\ r \in Seq(Items)
    BY <2>1 DEF DocInv, Sound, Records, Selects
  <2> QED
    BY <1>8, <2>1, <2>2, SelectedIs
<1>10. Ends(r, content)
  BY <1>8, <1>9
<1>11. /\ Ends(d.live.outbox, content) /\ Ordered(d.live.outbox)
       /\ \A v : \A known \in {<<>>, Known, r} :
            /\ Precedes(v, content) /\ KnownFirst(known, r) /\ Follows(v, known, r)
            => Follows(v, known, d.live.outbox)
       /\ \/ d.live = before /\ d.cache = was
          \/ d.cache \in Snapshots /\ d.cache.sections = content
  BY <1>3, <1>6, <1>7, <1>9, <1>10, DerivedOrder
<1>12. Precedes(content, content)
  BY <1>3, Reflexive
<1>13. KnownFirst(<<>>, r) /\ KnownFirst(r, r) /\ Newer(r, r) = {} /\ Newer(<<>>, r) = DOMAIN r
  BY <1>9, KnownAlways
<1>14. ASSUME d.cache # None
       PROVE  /\ Precedes(d.cache.sections, content) /\ Precedes(shown, d.cache.sections)
              /\ Ends(d.live.outbox, d.cache.sections) /\ Ends(r, d.cache.sections)
  <2>1. CASE d.cache.sections = content
    BY <1>8, <1>10, <1>11, <1>12, <2>1
  <2>2. CASE d.live = before /\ d.cache = was /\ was = cache
    BY <1>7, <1>8, <1>9, <1>14, <2>2
  <2> QED
    BY <1>7, <1>11, <2>1, <2>2
<1>15. Leads(shown, d.live.outbox)
  BY <1>8, <1>9, <1>11, <1>13 DEF Leads
<1>16. \A v : Precedes(v, content) => Follows(v, r, d.live.outbox)
  <2>1. \A v : Follows(v, r, r)
    BY <1>13 DEF Follows
  <2> QED
    BY <1>11, <1>13, <2>1
<1>17. PICK values : values = attempt'.item.sections
  OBVIOUS
<1>18. /\ 1 \in DOMAIN r /\ r[1].sections = values /\ r # <<>>
  <2>1. attempt'.item \in Items /\ r # <<>> /\ r[1] = [attempt'.item EXCEPT !.state = "in-flight"]
    BY <1>2, <1>5 DEF Began, Attempts
  <2> QED
    BY <1>9, <1>17, <2>1 DEF Items
<1>19. Follows(values, <<>>, d.live.outbox)
  <2>1. Precedes(values, content)
    BY <1>10, <1>18 DEF Ends
  <2>2. ASSUME NEW j \in DOMAIN r PROVE Precedes(values, r[j].sections)
    <3>1. CASE j = 1
      <4>1. values \in SectionValues
        <5>1. r[1] \in Items
          BY <1>9, <1>18
        <5> QED
          BY <1>18, <5>1 DEF Items
      <4> QED
        BY <1>18, <3>1, <4>1, Reflexive
    <3>2. CASE j # 1
      <4>1. j \in Nat /\ 1 < j
        BY <1>9, <3>2
      <4> QED
        BY <1>9, <1>18, <4>1 DEF Ordered
    <3> QED
      BY <3>1, <3>2
  <2>3. Follows(values, <<>>, r)
    BY <1>13, <2>2 DEF Follows
  <2> QED
    BY <1>11, <1>13, <2>1, <2>3
<1>20. /\ \A i \in DOMAIN r : Follows(r[i].sections, r, d.live.outbox)
       /\ d.cache # None => Follows(d.cache.sections, r, d.live.outbox)
  BY <1>10, <1>14, <1>16 DEF Ends
<1>21. PICK a : a = attempt'
  OBVIOUS
<1>22. a.live.outbox = r /\ a.snapshot = d.cache /\ a.item.sections = values
  BY <1>2, <1>5, <1>7, <1>17, <1>21
<1>23. Since(a, d.live.outbox)
  BY <1>19, <1>20, <1>22 DEF Since
<1>24. /\ late' = {} /\ page'.sections = shown /\ content' = content
       /\ AtMost(shown, d.live.outbox, content) /\ Leads(shown, d.live.outbox)
       /\ d.cache # None => /\ Precedes(d.cache.sections, content)
                            /\ AtMost(shown, d.live.outbox, d.cache.sections)
  BY <1>3, <1>4, <1>8, <1>11, <1>14, <1>15 DEF OrderInv, AtMost
<1>25. /\ Leads(shown, a.live.outbox) /\ Ends(a.live.outbox, content)
       /\ d.cache # None => Ends(a.live.outbox, d.cache.sections)
       /\ a.snapshot # None =>
            /\ Precedes(a.snapshot.sections, content)
            /\ d.cache # None => Precedes(a.snapshot.sections, d.cache.sections)
            /\ AtMost(shown, a.live.outbox, a.snapshot.sections)
  <2>1. Leads(shown, r) /\ Ends(r, content)
    BY <1>8, <1>9, <1>10 DEF Leads
  <2>2. d.cache # None => Precedes(d.cache.sections, d.cache.sections)
    <3>1. d.cache \in Snapshots \cup {None}
      BY <1>2, <1>7
    <3> QED
      BY <3>1, Reflexive, AllSections DEF Snapshots
  <2> QED
    BY <1>14, <1>22, <2>1, <2>2 DEF AtMost
<1> QED
  BY <1>7, <1>21, <1>23, <1>24, <1>25 DEF OrderInv

\* No step shows anything older, or sets the outbox out of order.
LEMMA OrderStep ==
  ASSUME Calm, DocInv, OrderInv, [Next]_vars
  PROVE  OrderInv'
<1>1. late = {} /\ late' = {}
  BY CalmSteps DEF OrderInv
<1>2. CASE UNCHANGED vars
  <2>1. /\ UNCHANGED <<content, page>> /\ live' = live /\ cache' = cache /\ attempt' = attempt
    BY <1>2 DEF vars, document, network, public
  <2> QED
    BY <1>1, <2>1, QuietOrder
<1>3. ASSUME NEW changed \in SUBSET Sections, Edit(changed) PROVE OrderInv'
  BY <1>3, EditOrder
<1>4. CASE Finalize \/ Unpublish \/ Delete
  BY <1>4, DirectOrder
<1>5. CASE Disable
  <2>1. live'.outbox = live.outbox
    BY <1>5 DEF Disable, DocInv, Sound, Records
  <2>2. UNCHANGED <<content, page>> /\ cache' = None /\ attempt' = attempt
    BY <1>5 DEF Disable, network, public
  <2> QED
    BY <1>1, <2>1, <2>2, QuietOrder
<1>6. CASE Save
  <2>1. /\ UNCHANGED <<content, page>> /\ live' = live /\ cache' = cache /\ attempt' = attempt
    BY <1>6 DEF Save, document, network, public
  <2> QED
    BY <1>1, <2>1, QuietOrder
<1>7. CASE StartAttempt
  BY <1>7, StartOrder
<1>8. CASE Serve
  BY <1>8, ServeOrder
<1>9. ASSUME attempt # None, page' = page, (answer # None /\ Settle(answer)) \/ Settle(Failure)
      PROVE  OrderInv'
  <2>1. CASE answer # None /\ Settle(answer)
    <3>1. answer \in Replies /\ (attempt.item.kind \in Barriers => answer.kind # "conflict")
      BY <2>1, RequestIs DEF DocInv
    <3> QED
      BY <1>1, <1>9, <2>1, <3>1, SettleOrder
  <2>2. CASE Settle(Failure)
    BY <1>1, <1>9, <2>2, FailureIs, SettleOrder
  <2> QED
    BY <1>9, <2>1, <2>2
<1>10. ASSUME content' = content, live' = live, cache' = None, attempt' = None, page' = page
       PROVE  OrderInv'
  BY <1>1, <1>10, QuietOrder
<1> QED
  BY <1>1, <1>2, <1>3, <1>4, <1>5, <1>6, <1>7, <1>8, <1>9, <1>10, CalmSteps

\* At first the page shows nothing.
LEMMA InitOrder ==
  ASSUME Init
  PROVE  OrderInv
<1>1. PICK all : all = [s \in Sections |-> 1]
  OBVIOUS
<1>2. PICK zero : zero = [s \in Sections |-> 0]
  OBVIOUS
<1>3. DocInv /\ live.outbox \in Seq(Items)
  BY InitDoc DEF DocInv, Sound, Records
<1>4. /\ content = all /\ page.sections = zero /\ cache.sections = all
      /\ attempt = None /\ late = {}
  BY <1>1, <1>2 DEF Init
<1>5. Precedes(zero, all) /\ Precedes(all, all)
  BY <1>1, <1>2 DEF Precedes
<1>6. PICK first : first = [revision |-> 1, sections |-> all, final |-> FALSE]
  OBVIOUS
<1>7. PICK item : item = SnapshotItem(1, first)
  OBVIOUS
<1>8. item.sections = all
  BY <1>6, <1>7 DEF SnapshotItem, Item
<1>9. Len(live.outbox) = 1 /\ live.outbox[1] = item
  <2>1. PICK outbox : outbox = <<item>>
    OBVIOUS
  <2>2. outbox = live.outbox
    BY <1>1, <1>6, <1>7, <2>1 DEF Init
  <2> QED
    BY <2>1, <2>2
<1>10. \A i \in DOMAIN live.outbox : i = 1 /\ live.outbox[i].sections = all
  BY <1>3, <1>8, <1>9
<1>11. AtMost(zero, live.outbox, all) /\ Leads(zero, live.outbox)
  BY <1>5, <1>10 DEF AtMost, Ends, Leads, Follows, Newer, Ordered
<1> QED
  BY <1>4, <1>5, <1>11 DEF OrderInv

\* What an item does to the page is what spectators rely on.
LEMMA ServeImplements ==
  ASSUME DocInv, OrderInv, Serve
  PROVE  page' = page \/ Promise!Next
<1>1. page \in Pages /\ request \in Items
  BY RequestIs DEF Serve, DocInv, TypeInv
<1>2. PICK item \in Items : item = request
  BY <1>1
<1>3. CASE /\ page.lifecycle # "gone" /\ page' = Applied(item) /\ ~Refused(item, page)
           /\ Precedes(page.sections, item.sections)
  <2>1. CASE item.kind = "delete"
    <3>1. page' = [page EXCEPT !.lifecycle = "gone"]
      BY <1>3, <2>1 DEF Applied
    <3> QED
      BY <3>1 DEF Promise!Next, Promise!Delete
  <2>2. CASE item.kind = "unpublish"
    <3>1. page' = [page EXCEPT !.lifecycle = "unpublished"]
      BY <1>3, <2>2 DEF Applied
    <3> QED
      BY <1>3, <3>1 DEF Promise!Next, Promise!TakeDown
  <2>3. CASE item.kind \notin Barriers
    <3>1. PICK new : new = Applied(item)
      OBVIOUS
    <3>2. /\ new.revision = item.revision
          /\ \A s \in Sections : new.sections[s] =
               IF s \in DOMAIN item.sections THEN item.sections[s] ELSE page.sections[s]
      BY <1>1, <2>3, <3>1, AppliedIs
    <3>3. new.lifecycle \in {"live", "final"}
      BY <2>3, <3>1 DEF Applied, Barriers
    <3>4. new.revision > page.revision
      <4>1. item.kind \in {"snapshot", "sections"}
        BY <2>3 DEF Items
      <4>2. ~(item.revision <= page.revision)
        BY <1>3, <4>1 DEF Refused
      <4>3. item.revision \in Nat /\ page.revision \in Nat
        BY <1>1 DEF Items, Pages
      <4> QED
        BY <3>2, <4>2, <4>3
    <3>5. \A s \in Sections : new.sections[s] >= page.sections[s]
      <4>1. /\ DOMAIN page.sections = Sections /\ \A s \in Sections : page.sections[s] \in Nat
            /\ \A s \in DOMAIN item.sections : item.sections[s] \in Nat
        BY <1>1 DEF Items, Pages, Contents, SectionValues, Editions
      <4>2. \A s \in Sections \cap DOMAIN item.sections : page.sections[s] <= item.sections[s]
        BY <1>3, <4>1 DEF Precedes
      <4> QED
        BY <3>2, <4>1, <4>2
    <3>6. page' = new
      BY <1>3, <3>1
    <3> QED
      BY <1>3, <3>3, <3>4, <3>5, <3>6 DEF Promise!Next, Promise!Publish, Promise!Shown
  <2> QED
    BY <2>1, <2>2, <2>3 DEF Barriers
<1> QED
  BY <1>2, <1>3, ServeOrder

\* What spectators rely on of the page holds, if nothing is served late and every restart
\* finds the document as it was: its revision only grows, and no section is replaced by an
\* older one (the order of the outbox, and the backend's revision rules).
THEOREM PageImplements ==
  ASSUME Calm
  PROVE  Spec => ImplementsPublicPage
<1>1. Init => OrderInv
  BY InitOrder
<1>2. DocInv /\ OrderInv /\ [Next]_vars => OrderInv'
  BY Calm, OrderStep
<1>3. Init => Promise!Init
  BY DEF Init, Promise!Init
<1>4. DocInv /\ OrderInv /\ [Next]_vars => [Promise!Next]_page
  <2>1. ASSUME DocInv, OrderInv, [Next]_vars PROVE page' = page \/ Promise!Next
    <3>1. CASE Serve
      BY <2>1, <3>1, ServeImplements
    <3>2. CASE ~Serve
      <4>1. late = {}
        BY <2>1 DEF OrderInv
      <4>2. page' = page
        BY Calm, <2>1, <3>2, <4>1, CalmSteps DEF vars, public, network, Edit, Finalize,
             Unpublish, Delete, Disable, Save, StartAttempt
      <4> QED
        BY <4>2
    <3> QED
      BY <3>1, <3>2
  <2> QED
    BY <2>1
<1> QED
  BY <1>1, <1>2, <1>3, <1>4, Documents, PTL DEF Spec, ImplementsPublicPage, Promise!Spec

-----------------------------------------------------------------------------
(* No result is forgotten.                                                 *)

\* A commit carries every durable section, with the request under way or at its end.
LEMMA CommitCover ==
  ASSUME DocInv, NEW c \in Contents, NEW record, Sound(record), Commit(c, record),
         Publishes(record) /\ cache # None =>
           \A s \in Sections \ Transient : cache.sections[s] = c[s] =>
             /\ OnItsWay(s, record.outbox, page.sections, c)
             /\ attempt' # None =>
                  Underway(s, attempt.live.outbox, record.outbox, page.sections, c),
         page' = page,
         (attempt' = None /\ answer' = None) \/ (UNCHANGED <<attempt, answer>> /\ CoverInv)
  PROVE  CoverInv'
<1>1. /\ Known \in Seq(Items) /\ cache \in Snapshots \cup {None}
      /\ attempt # None => Known = attempt.live.outbox
  BY KnownIs DEF DocInv, TypeInv
<1>2. PICK d : d = Derived(c, record, cache)
  OBVIOUS
<1>3. content' = c /\ live' = d.live /\ cache' = d.cache
  BY <1>2 DEF Commit
<1>4. d.live.lifecycle = record.lifecycle
  BY <1>1, <1>2, DerivedSound
<1>5. PICK p : p = page.sections
  OBVIOUS
<1>6. ASSUME Publishes(record)
      PROVE  /\ d.cache # None => d.cache.sections = c
             /\ \A s \in Sections \ Transient :
                  /\ OnItsWay(s, d.live.outbox, p, c)
                  /\ attempt' # None => Underway(s, Known, d.live.outbox, p, c)
  <2>1. /\ Carries(d.live.outbox, record.outbox, Known, cache, c)
        /\ d.cache # None => d.cache.sections = c
    BY <1>1, <1>2, <1>6, DerivedCover
  <2>2. attempt' # None => attempt' = attempt
    OBVIOUS
  <2>3. ASSUME NEW s \in Sections \ Transient
        PROVE  /\ OnItsWay(s, d.live.outbox, p, c)
               /\ attempt' # None => Underway(s, Known, d.live.outbox, p, c)
    <3>1. cache # None /\ cache.sections[s] = c[s] =>
            /\ OnItsWay(s, record.outbox, p, c)
            /\ attempt' # None => Underway(s, Known, record.outbox, p, c)
      BY <1>1, <1>5, <1>6, <2>2
    <3> QED
      BY <2>1, <3>1, CarriedOn
  <2> QED
    BY <2>1, <2>3
<1>7. live'.lifecycle \in Projecting => Publishes(record)
  BY <1>3, <1>4 DEF Publishes
<1>8. attempt' # None => attempt'.live.outbox = Known
  BY <1>1
<1>9. answer' # None /\ answer'.kind = "published" /\ attempt'.item.kind \notin Barriers =>
        \A s \in DOMAIN attempt'.item.sections : page'.sections[s] = attempt'.item.sections[s]
  BY DEF CoverInv
<1> QED
  BY <1>3, <1>5, <1>6, <1>7, <1>8, <1>9 DEF CoverInv

\* What the Director does carries every durable section.
LEMMA DirectCover ==
  ASSUME DocInv, CoverInv,
         \/ \E changed \in SUBSET Sections : Edit(changed)
         \/ Finalize \/ Unpublish \/ Delete \/ Disable
  PROVE  CoverInv'
<1>1. UNCHANGED <<attempt, answer, page>>
  BY DEF Edit, Finalize, Unpublish, Delete, Disable, network, public
<1>2. content \in Contents /\ Sound(live)
  BY DEF DocInv, TypeInv
<1>3. ASSUME NEW c \in Contents, NEW record, Sound(record), Commit(c, record),
             record.outbox = live.outbox,
             record.lifecycle \in Projecting => live.lifecycle \in Projecting
      PROVE  CoverInv'
  <2>1. ASSUME Publishes(record), cache # None, NEW s \in Sections \ Transient,
               cache.sections[s] = c[s]
        PROVE  /\ OnItsWay(s, live.outbox, page.sections, c)
               /\ attempt # None =>
                    Underway(s, attempt.live.outbox, live.outbox, page.sections, c)
    <3>1. live.lifecycle \in Projecting
      BY <1>3, <2>1 DEF Publishes
    <3>2. cache.sections = content /\ content[s] = c[s]
      BY <2>1, <3>1 DEF CoverInv
    <3>3. /\ OnItsWay(s, live.outbox, page.sections, content)
          /\ attempt # None =>
               Underway(s, attempt.live.outbox, live.outbox, page.sections, content)
      BY <3>1 DEF CoverInv
    <3> QED
      BY <3>2, <3>3 DEF OnItsWay, Underway, Brings
  <2> QED
    BY <1>1, <1>3, <2>1, CommitCover
<1>4. ASSUME live'.lifecycle \notin Projecting PROVE CoverInv'
  BY <1>1, <1>4 DEF CoverInv
<1>5. ASSUME NEW changed \in SUBSET Sections, Edit(changed) PROVE CoverInv'
  <2>1. Commit(Edited(changed), live) /\ Edited(changed) \in Contents
    BY <1>2, <1>5, EditedIs DEF Edit, Edited
  <2> QED
    BY <1>2, <1>3, <2>1
<1>6. CASE Finalize
  <2>1. PICK record : record = [live EXCEPT !.lifecycle = "final"]
    OBVIOUS
  <2>2. live \in Records /\ live.lifecycle = "live" /\ Commit(content, record)
    BY <1>2, <1>6, <2>1 DEF Finalize, Sound
  <2>3. record \in Records /\ record.lifecycle = "final" /\ record.outbox = live.outbox
    BY <2>1, <2>2 DEF Records, Lifecycles, Projecting
  <2>4. Sound(record)
    BY <1>2, <2>2, <2>3, Projected DEF Sound, Publishes, Projecting
  <2> QED
    BY <1>2, <1>3, <2>2, <2>3, <2>4 DEF Projecting
<1>7. CASE Unpublish
  <2>1. live'.lifecycle = "unpublishing"
    BY <1>2, <1>7, BarrierIs, CommitLifecycle DEF Unpublish, Barriers, Ending
  <2> QED
    BY <1>4, <2>1 DEF Projecting
<1>8. CASE Delete
  <2>1. live'.lifecycle = "deleting"
    BY <1>2, <1>8, BarrierIs, CommitLifecycle DEF Delete, Barriers, Ending
  <2> QED
    BY <1>4, <2>1 DEF Projecting
<1>9. CASE Disable
  <2>1. live'.lifecycle = "disabled"
    BY <1>2, <1>9 DEF Disable, Sound, Records
  <2> QED
    BY <1>4, <2>1 DEF Projecting
<1> QED
  BY <1>5, <1>6, <1>7, <1>8, <1>9

\* So does beginning to send.
LEMMA StartCover ==
  ASSUME DocInv, CoverInv, StartAttempt
  PROVE  CoverInv'
<1>1. PICK marked, before, was : Begins(marked, before, was)
  BY StartIs
<1>2. attempt'.live = marked /\ content' = content /\ page' = page /\ answer' = None
  BY <1>1, BegunIs DEF StartAttempt, public, DocInv
<1>3. Known = <<>> /\ Known \in Seq(Items) /\ content \in Contents
  BY DEF StartAttempt, Known, DocInv, TypeInv
<1>4. PICK d : d = Derived(content, before, was)
  OBVIOUS
<1>5. PICK r : r = marked.outbox
  OBVIOUS
<1>6. /\ Sound(before) /\ r = before.outbox /\ was \in Snapshots \cup {None}
      /\ before.lifecycle = live.lifecycle /\ live' = d.live /\ cache' = d.cache
  BY <1>1, <1>4, <1>5 DEF Begins
<1>7. d.live.lifecycle = live.lifecycle
  BY <1>3, <1>4, <1>6, DerivedSound
<1>8. PICK p : p = page.sections
  OBVIOUS
<1>9. ASSUME live.lifecycle \in Projecting
      PROVE  /\ d.cache # None => d.cache.sections = content
             /\ \A s \in Sections \ Transient :
                  /\ OnItsWay(s, d.live.outbox, p, content)
                  /\ Underway(s, r, d.live.outbox, p, content)
  <2>1. Publishes(before)
    BY <1>6, <1>9 DEF Publishes
  <2>2. /\ Carries(d.live.outbox, r, Known, was, content)
        /\ d.cache # None => d.cache.sections = content
    BY <1>3, <1>4, <1>6, <2>1, DerivedCover
  <2>3. \A i \in DOMAIN live.outbox : \E k \in DOMAIN r : Same(r[k], live.outbox[i])
    BY <1>1, <1>5, <1>9 DEF Begins, Projecting, Ending
  <2>4. ASSUME NEW s \in Sections \ Transient
        PROVE  /\ OnItsWay(s, d.live.outbox, p, content)
               /\ Underway(s, r, d.live.outbox, p, content)
    <3>1. OnItsWay(s, live.outbox, p, content)
      BY <1>8, <1>9 DEF CoverInv
    <3>2. OnItsWay(s, r, p, content)
      BY <2>3, <3>1 DEF OnItsWay, Brings, Same
    <3>3. Underway(s, r, r, p, content)
      BY <3>2 DEF OnItsWay, Underway
    <3> QED
      BY <2>2, <3>2, <3>3, CarriedOn
  <2> QED
    BY <2>2, <2>4
<1> QED
  BY <1>2, <1>5, <1>6, <1>7, <1>8, <1>9 DEF CoverInv

\* What the backend shows of an item it has taken is the item, and what was on the page as
\* the document has it stays so.
LEMMA ServeCover ==
  ASSUME DocInv, OrderInv, CoverInv, Serve
  PROVE  CoverInv'
<1>1. /\ attempt # None /\ request = attempt.item /\ request \in Items /\ page \in Pages
      /\ UNCHANGED <<content, live, cache, attempt>>
      /\ page' = Served(request, page) /\ answer' = Answered(request, page)
      /\ content \in Contents
  BY RequestIs DEF Serve, DocInv, TypeInv, document
<1>2. PICK item \in Items : item = request
  BY <1>1
<1>3. /\ item.kind \in Barriers => Applied(item).sections = page.sections
      /\ item.kind \notin Barriers =>
           \A s \in Sections : Applied(item).sections[s] =
             IF s \in DOMAIN item.sections THEN item.sections[s] ELSE page.sections[s]
  BY <1>1, AppliedIs
<1>4. Precedes(item.sections, content)
  <2>1. PICK old : old = attempt.live.outbox
    OBVIOUS
  <2>2. /\ old \in Seq(Items) /\ old # <<>> /\ old[1].sections = item.sections
        /\ Ends(old, content)
    BY <1>1, <1>2, <2>1 DEF DocInv, Began, Attempts, Records, Items, OrderInv
  <2>3. 1 \in DOMAIN old
    BY <2>2
  <2> QED
    BY <2>2, <2>3 DEF Ends
<1>5. page' = page \/ (page' = Applied(item) /\ Precedes(page.sections, item.sections))
  BY <1>2, ServeOrder
<1>6. ASSUME NEW s \in Sections, page.sections[s] = content[s]
      PROVE  page'.sections[s] = content[s]
  <2>1. CASE page' = page
    BY <1>6, <2>1
  <2>2. CASE page' = Applied(item) /\ Precedes(page.sections, item.sections)
    <3>1. CASE item.kind \notin Barriers /\ s \in DOMAIN item.sections
      <4>1. page'.sections[s] = item.sections[s]
        BY <1>3, <2>2, <3>1
      <4>2. DOMAIN page.sections = Sections /\ DOMAIN content = Sections
        BY <1>1 DEF Pages, Contents
      <4>3. page.sections[s] <= item.sections[s] /\ item.sections[s] <= content[s]
        BY <1>4, <2>2, <3>1, <4>2 DEF Precedes
      <4>4. item.sections[s] \in Nat /\ content[s] \in Nat
        BY <1>1, <3>1 DEF Items, SectionValues, Contents, Editions
      <4> QED
        BY <1>6, <4>1, <4>3, <4>4
    <3>2. CASE item.kind \in Barriers \/ s \notin DOMAIN item.sections
      BY <1>3, <1>6, <2>2, <3>2
    <3> QED
      BY <3>1, <3>2
  <2> QED
    BY <1>5, <2>1, <2>2
<1>7. answer'.kind = "published" /\ item.kind \notin Barriers =>
        \A s \in DOMAIN item.sections : page'.sections[s] = item.sections[s]
  <2>1. answer'.kind = "published" => page' = Applied(item)
    BY <1>1, <1>2, ServedIs
  <2>2. DOMAIN item.sections \subseteq Sections
    BY DEF Items, SectionValues
  <2> QED
    BY <1>3, <2>1, <2>2
<1>8. \A s \in Sections \ Transient :
        /\ OnItsWay(s, live.outbox, page.sections, content) =>
             OnItsWay(s, live.outbox, page'.sections, content)
        /\ Underway(s, attempt.live.outbox, live.outbox, page.sections, content) =>
             Underway(s, attempt.live.outbox, live.outbox, page'.sections, content)
  BY <1>6 DEF OnItsWay, Underway
<1> QED
  BY <1>1, <1>2, <1>7, <1>8 DEF CoverInv

\* What was under way when a drain ends is on the page, in what remains, or in its repair.
LEMMA SettledCover ==
  ASSUME DocInv, OrderInv, CoverInv, attempt # None, NEW reply \in Replies,
         reply.kind = "published" => answer # None /\ reply = answer,
         attempt.item.kind \notin Barriers,
         NEW settled, Settled(settled, reply), NEW s \in Sections,
         NEW i \in DOMAIN attempt.live.outbox, Brings(attempt.live.outbox[i], s, content)
  PROVE  OnItsWay(s, settled.outbox, page.sections, content)
<1>1. PICK old : old = attempt.live.outbox
  OBVIOUS
<1>2. /\ old \in Seq(Items) /\ old # <<>> /\ attempt.item \in Items
      /\ old[1].sections = attempt.item.sections /\ attempt.live \in Records
      /\ attempt.snapshot \in Snapshots \cup {None} /\ reply.revision \in Nat
      /\ content \in Contents
  BY <1>1 DEF DocInv, TypeInv, Began, Attempts, Records, Items, Replies
<1>3. PICK r, at : /\ Remains(r, old, at)
                   /\ \/ Acknowledged(settled, reply, r, at)
                      \/ Repaired(settled, reply, r, at)
                      \/ Unchanged(settled, reply, r, at)
  BY <1>1 DEF Settled
<1>4. r \in Seq(Items)
  BY <1>3 DEF Remains, Selects
<1>5. i # 1 => \E k \in DOMAIN r : Brings(r[k], s, content)
  BY <1>1, <1>3 DEF Remains, Same, Brings
<1>6. CASE Acknowledged(settled, reply, r, at)
  <2>1. settled.outbox = r
    BY <1>2, <1>4, <1>6 DEF Acknowledged, Records
  <2>2. CASE i = 1
    <3>1. answer # None /\ answer.kind = "published"
      BY <1>6 DEF Acknowledged
    <3>2. s \in DOMAIN attempt.item.sections /\ attempt.item.sections[s] = content[s]
      BY <1>1, <1>2, <2>2 DEF Brings
    <3>3. page.sections[s] = attempt.item.sections[s]
      BY <3>1, <3>2 DEF CoverInv
    <3> QED
      BY <3>2, <3>3 DEF OnItsWay
  <2> QED
    BY <1>5, <2>1, <2>2 DEF OnItsWay
<1>7. CASE Repaired(settled, reply, r, at)
  <2>1. PICK x \in Items :
          /\ attempt.snapshot # None /\ x.sections = attempt.snapshot.sections
          /\ settled = [attempt.live EXCEPT !.outbox = Append(r, x), !.ack = reply.revision]
    BY <1>7 DEF Repaired
  <2>2. PICK q : q = Append(r, x)
    OBVIOUS
  <2>3. PICK n \in Nat : n = Len(r)
    BY <1>4
  <2>4. q \in Seq(Items) /\ n + 1 \in DOMAIN q /\ q[n + 1] = x
    BY <1>4, <2>2, <2>3
  <2>5. settled.outbox = q
    BY <1>2, <2>1, <2>2, <2>4 DEF Records
  <2>6. /\ Precedes(old[i].sections, x.sections) /\ Precedes(x.sections, content)
        /\ x.sections \in Contents
    BY <1>1, <1>2, <2>1 DEF OrderInv, AtMost, Ends, Snapshots
  <2>7. s \in DOMAIN old[i].sections /\ old[i].sections[s] = content[s]
    BY <1>1 DEF Brings
  <2>8. s \in DOMAIN x.sections /\ DOMAIN content = Sections
    BY <1>2, <2>6 DEF Contents
  <2>9. content[s] <= x.sections[s] /\ x.sections[s] <= content[s]
    BY <2>6, <2>7, <2>8 DEF Precedes
  <2>10. x.sections[s] \in Nat /\ content[s] \in Nat
    BY <1>2, <2>6 DEF Contents, Editions
  <2>11. Brings(x, s, content)
    BY <2>8, <2>9, <2>10 DEF Brings
  <2> QED
    BY <2>4, <2>5, <2>11 DEF OnItsWay
<1>8. CASE Unchanged(settled, reply, r, at)
  <2>1. settled.outbox = r
    BY <1>2, <1>4, <1>8 DEF Unchanged, Records
  <2>2. i \in 1..Len(r) /\ at[i] = i
    BY <1>1, <1>2, <1>8 DEF Unchanged
  <2>3. Same(r[i], old[i])
    BY <1>3, <2>2 DEF Remains, Selects
  <2>4. Brings(r[i], s, content)
    BY <1>1, <2>3 DEF Same, Brings
  <2> QED
    BY <1>4, <2>1, <2>2, <2>4 DEF OnItsWay
<1> QED
  BY <1>3, <1>6, <1>7, <1>8

\* The end of a drain forgets no durable section.
LEMMA SettleCover ==
  ASSUME DocInv, OrderInv, CoverInv, attempt # None, NEW reply \in Replies, Settle(reply),
         reply.kind = "published" => answer # None /\ reply = answer,
         attempt.item.kind \in Barriers => reply.kind # "conflict", page' = page
  PROVE  CoverInv'
<1>1. attempt' = None /\ answer' = None
  BY DEF Settle
<1>2. CASE attempt.item.kind = "delete" /\ reply.kind = "published"
  <2>1. live' = [live EXCEPT !.lifecycle = "deleted", !.outbox = <<>>]
    BY <1>2 DEF Settle
  <2>2. live'.lifecycle = "deleted"
    <3>1. PICK record \in Records : record = live
      BY DEF DocInv, Sound
    <3>2. PICK new : new = [record EXCEPT !.lifecycle = "deleted"]
      OBVIOUS
    <3>3. new \in Records /\ new.lifecycle = "deleted"
      BY <3>2 DEF Records, Lifecycles
    <3>4. live' = [new EXCEPT !.outbox = <<>>]
      BY <2>1, <3>1, <3>2
    <3> QED
      BY <3>3, <3>4 DEF Records
  <2> QED
    BY <1>1, <2>2 DEF CoverInv, Projecting
<1>3. CASE ~(attempt.item.kind = "delete" /\ reply.kind = "published")
  <2>1. PICK merged : merged = Merged(reply)
    OBVIOUS
  <2>2. Sound(merged) /\ Commit(content, merged) /\ content \in Contents
    BY <1>3, <2>1, MergedSound DEF Settle, DocInv, TypeInv
  <2>3. PICK settled : settled = Outcome(reply)
    OBVIOUS
  <2>4. Settled(settled, reply)
    BY <2>3, SettledIs
  <2>5. PICK old : old = attempt.live.outbox
    OBVIOUS
  <2>6. PICK a : a = settled.outbox
    OBVIOUS
  <2>7. PICK newer : newer = Picked(live.outbox, Newer(old, live.outbox))
    OBVIOUS
  <2>8. merged.lifecycle = Reached(reply)
    BY <2>1 DEF Merged
  <2>9. ASSUME Publishes(merged), NEW s \in Sections \ Transient
        PROVE  OnItsWay(s, merged.outbox, page.sections, content)
    <3>1. live.lifecycle \in Projecting /\ Reached(reply) # "unpublished"
      BY <2>8, <2>9 DEF Publishes, Reached, Projecting
    <3>2. attempt.item.kind \notin Barriers
      BY <3>1 DEF DocInv, Awaited, Projecting, Ending
    <3>3. ~Superseded(attempt.item.kind)
      BY <3>1 DEF Superseded, Projecting, Ending
    <3>4. PICK q : q = a \o newer
      OBVIOUS
    <3>5. merged.outbox = q
      BY <2>1, <2>3, <2>5, <2>6, <2>7, <3>1, <3>3, <3>4 DEF Merged
    <3>6. a \in Seq(Items)
      BY <2>4, <2>6, SettledOutbox
    <3>7. /\ newer \in Seq(Items)
          /\ \A i \in Newer(old, live.outbox) : \E k \in DOMAIN newer : newer[k] = live.outbox[i]
      BY <2>5, <2>7, NewerIs
    <3>8. /\ \A k \in DOMAIN a : k \in DOMAIN q /\ q[k] = a[k]
          /\ \A k \in DOMAIN newer : Len(a) + k \in DOMAIN q /\ q[Len(a) + k] = newer[k]
      BY <3>4, <3>6, <3>7, Concatenated
    <3>9. Underway(s, old, live.outbox, page.sections, content)
      BY <2>5, <3>1 DEF CoverInv
    <3>10. CASE page.sections[s] = content[s]
      BY <3>10 DEF OnItsWay
    <3>11. CASE \E i \in DOMAIN old : Brings(old[i], s, content)
      <4>1. OnItsWay(s, a, page.sections, content)
        BY <2>4, <2>5, <2>6, <3>2, <3>11, SettledCover
      <4> QED
        BY <3>5, <3>8, <4>1 DEF OnItsWay
    <3>12. CASE \E j \in Newer(old, live.outbox) : Brings(live.outbox[j], s, content)
      BY <3>5, <3>7, <3>8, <3>12 DEF OnItsWay
    <3> QED
      BY <3>9, <3>10, <3>11, <3>12 DEF Underway
  <2> QED
    BY <1>1, <2>2, <2>9, CommitCover
<1> QED
  BY <1>2, <1>3

\* No step forgets a durable section.
LEMMA CoverStep ==
  ASSUME Calm, DocInv, OrderInv, CoverInv, [Next]_vars
  PROVE  CoverInv'
<1>1. CASE UNCHANGED vars
  BY <1>1 DEF vars, document, network, public, CoverInv
<1>2. CASE Save
  BY <1>2 DEF Save, document, network, public, CoverInv
<1>3. CASE \/ \E changed \in SUBSET Sections : Edit(changed)
           \/ Finalize \/ Unpublish \/ Delete \/ Disable
  BY <1>3, DirectCover
<1>4. CASE StartAttempt
  BY <1>4, StartCover
<1>5. CASE Serve
  BY <1>5, ServeCover
<1>6. ASSUME attempt # None, page' = page, (answer # None /\ Settle(answer)) \/ Settle(Failure)
      PROVE  CoverInv'
  <2>1. CASE answer # None /\ Settle(answer)
    <3>1. answer \in Replies /\ (attempt.item.kind \in Barriers => answer.kind # "conflict")
      BY <2>1, RequestIs DEF DocInv
    <3> QED
      BY <1>6, <2>1, <3>1, SettleCover
  <2>2. CASE Settle(Failure)
    BY <1>6, <2>2, FailureIs, SettleCover
  <2> QED
    BY <1>6, <2>1, <2>2
<1>7. ASSUME content' = content, live' = live, cache' = None, attempt' = None, answer' = None,
             page' = page
      PROVE  CoverInv'
  BY <1>7 DEF CoverInv
<1> QED
  BY <1>1, <1>2, <1>3, <1>4, <1>5, <1>6, <1>7, CalmSteps DEF OrderInv

\* At first everything is on its way.
LEMMA InitCover ==
  ASSUME Init
  PROVE  CoverInv
<1>1. PICK all : all = [s \in Sections |-> 1]
  OBVIOUS
<1>2. PICK first : first = [revision |-> 1, sections |-> all, final |-> FALSE]
  OBVIOUS
<1>3. PICK item : item = SnapshotItem(1, first)
  OBVIOUS
<1>4. item.sections = all
  BY <1>2, <1>3 DEF SnapshotItem, Item
<1>5. PICK outbox : outbox = <<item>>
  OBVIOUS
<1>6. live.outbox = outbox /\ content = all /\ cache = first /\ attempt = None /\ answer = None
  BY <1>1, <1>2, <1>3, <1>5 DEF Init
<1>7. 1 \in DOMAIN outbox /\ outbox[1] = item
  BY <1>5
<1>8. \A s \in Sections : Brings(item, s, all)
  BY <1>1, <1>4 DEF Brings
<1> QED
  BY <1>2, <1>6, <1>7, <1>8 DEF CoverInv, OnItsWay

\* An empty outbox means that the page shows the document's durable sections, if nothing is
\* served late and every restart finds the document as it was: no result is forgotten on its
\* way through derivation, coalescing, repair, merging and restarting (docs/QBLIVE.md, 6.1
\* and 8).
THEOREM DurablePublished ==
  ASSUME Calm
  PROVE  Spec => []DurableMeansPublished
<1>1. Init => OrderInv /\ CoverInv
  BY InitOrder, InitCover
<1>2. DocInv /\ OrderInv /\ CoverInv /\ [Next]_vars => OrderInv' /\ CoverInv'
  BY Calm, OrderStep, CoverStep
<1>3. CoverInv => DurableMeansPublished
  <2>1. DOMAIN <<>> = {}
    OBVIOUS
  <2> QED
    BY <2>1 DEF CoverInv, OnItsWay, DurableMeansPublished
<1> QED
  BY <1>1, <1>2, <1>3, Documents, PTL DEF Spec

\* An item that the backend compares with the publication as it is does not set it back.
LEMMA ServedGrows ==
  ASSUME page \in Pages, NEW item \in Items
  PROVE  Served(item, page) = page \/ Served(item, page).revision >= page.revision
<1>1. Served(item, page) = page \/ (Served(item, page) = Applied(item) /\ ~Refused(item, page))
  BY DEF Served
<1>2. PICK m \in Nat, n \in Nat : m = item.revision /\ n = page.revision
  BY DEF Items, Pages
<1>3. CASE item.kind \notin Barriers /\ ~Refused(item, page)
  <2>1. Applied(item).revision = m
    BY <1>2, <1>3, AppliedIs
  <2>2. item.kind \in {"snapshot", "sections"}
    BY <1>3 DEF Items
  <2>3. ~(m <= n)
    BY <1>2, <1>3, <2>2 DEF Refused
  <2>4. m >= n
    BY <2>3
  <2> QED
    BY <1>1, <1>2, <2>1, <2>4
<1>4. CASE item.kind \in Barriers
  <2>1. Applied(item).revision = n
    BY <1>2, <1>4 DEF Applied, Pages, Barriers
  <2>2. n >= n
    OBVIOUS
  <2> QED
    BY <1>1, <1>2, <2>1, <2>2
<1> QED
  BY <1>1, <1>3, <1>4

\* The backend's revision never decreases, whatever is lost, late or unsaved, if no two of
\* its handlers overlap (docs/QBLIVE.md, 5).
THEOREM RevisionGrows ==
  ASSUME "overlapping requests" \notin Faults
  PROVE  Spec => RevisionNeverDecreases
<1> DEFINE Read == \A r \in late : r.row = None
           Grows == page' = page \/ page'.revision >= page.revision
<1>1. Init => Read
  BY DEF Init
<1>2. Read /\ [Next]_vars => Read'
  <2>1. ASSUME Read, [Next]_vars PROVE Read'
    <3>1. CASE TimeOut
      <4>1. PICK r : r = [item |-> request, row |-> None]
        OBVIOUS
      <4>2. late' = {r} /\ r.row = None
        BY <3>1, <4>1 DEF TimeOut
      <4> QED
        BY <4>2
    <3>2. CASE ~TimeOut
      <4>1. late' \subseteq late
        BY <2>1, <3>2 DEF Next, Direct, Fault, vars, network, Edit, Finalize, Unpublish, Delete,
             Disable, Save, StartAttempt, Serve, ReceiveAnswer, LoseRequest, LoseAnswer, Crash,
             ServeLate
      <4> QED
        BY <2>1, <4>1
    <3> QED
      BY <3>1, <3>2
  <2> QED
    BY <2>1
<1>3. Read /\ DocInv /\ [Next]_vars => Grows
  <2>1. ASSUME Read, DocInv, [Next]_vars PROVE Grows
    <3>1. page \in Pages
      BY <2>1 DEF DocInv, TypeInv
    <3>2. CASE Serve
      <4>1. request \in Items /\ page' = Served(request, page)
        BY <2>1, <3>2, RequestIs DEF Serve
      <4> QED
        BY <3>1, <4>1, ServedGrows
    <3>3. CASE \E r \in late : ServeLate(r)
      <4>1. PICK r \in late : ServeLate(r)
        BY <3>3
      <4>2. r.item \in Items /\ page' = Served(r.item, page)
        BY <2>1, <4>1 DEF ServeLate, DocInv, TypeInv
      <4> QED
        BY <3>1, <4>2, ServedGrows
    <3>4. CASE ~Serve /\ ~\E r \in late : ServeLate(r)
      <4>1. page' = page
        BY <2>1, <3>4 DEF Next, Direct, Fault, vars, public, Edit, Finalize, Unpublish, Delete,
             Disable, Save, StartAttempt, ReceiveAnswer, LoseRequest, LoseAnswer, TimeOut, Crash
      <4> QED
        BY <4>1
    <3> QED
      BY <3>2, <3>3, <3>4
  <2> QED
    BY <2>1
<1> HIDE DEF Read, Grows
<1>4. Grows => [page'.revision >= page.revision]_page
  BY DEF Grows
<1> QED
  BY <1>1, <1>2, <1>3, <1>4, Documents, PTL DEF Spec, RevisionNeverDecreases
=============================================================================
