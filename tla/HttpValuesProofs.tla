--------------------------- MODULE HttpValuesProofs ---------------------------
(*****************************************************************************)
(* Proofs about what httplib makes of the values of a request, for values of *)
(* every length: which bytes a range request is answered with and what       *)
(* length is declared (HttpRanges), which files a target opens (HttpFiles),  *)
(* and that decoding gives back what was encoded (HttpCodec).                *)
(*****************************************************************************)
EXTENDS HttpRanges, HttpFiles, HttpCodec, FiniteSetTheorems, SequenceTheorems,
        WellFoundedInduction, TLAPS

------------------------------------------------------------------------------
(*****************************************************************************)
(* Byte ranges                                                               *)
(*****************************************************************************)
Pair == Position \X Position
Span == Int \X Int

InSome(rs, b) == \E k \in 1 .. Len(rs) : rs[k][1] <= b /\ b <= rs[k][2]

------------------------------------------------------------------------------
(* A range that range_error has normalised and found within the content    *)
(* has the bytes that were asked for.                                      *)
LEMMA ResolvedAsks ==
  ASSUME NEW i \in Pair, ValidItem(i), NEW n \in Nat, Within(Resolved(i, n), n)
  PROVE  /\ Resolved(i, n) \in Span
         /\ \A b \in Int : b \in Asked(i, n) <=> Resolved(i, n)[1] <= b /\ b <= Resolved(i, n)[2]
<1>1. PICK x \in Position, y \in Position : i = <<x, y>>
  BY DEF Pair
<1>2. x \in Int /\ y \in Int /\ x >= -1 /\ y >= -1
  BY DEF Position, Open
<1>3. ~ (x = -1 /\ y = -1)
  BY <1>1 DEF ValidItem, Open
<1>4. CASE x = -1
  <2>1. Resolved(i, n) = IF n - 1 = -1 \/ n - 1 >= n THEN <<n - y, n - 1>> ELSE <<n - y, n - 1>>
    BY <1>1, <1>2, <1>3, <1>4 DEF Resolved, Open
  <2>2. Resolved(i, n) = <<n - y, n - 1>>
    BY <2>1
  <2>3. Asked(i, n) = {b \in 0 .. n - 1 : b >= n - y}
    BY <1>1, <1>4 DEF Asked, Open
  <2> QED
    BY <1>2, <2>2, <2>3 DEF Within, Span
<1>5. CASE x # -1
  <2>1. Resolved(i, n) = IF y = -1 \/ y >= n THEN <<x, n - 1>> ELSE <<x, y>>
    BY <1>1, <1>2, <1>3, <1>5 DEF Resolved, Open
  <2>2. Asked(i, n) = {b \in 0 .. n - 1 : b >= x /\ (y = -1 \/ b <= y)}
    BY <1>1, <1>5 DEF Asked, Open
  <2> QED
    BY <1>2, <1>5, <2>1, <2>2 DEF Within, Span
<1> QED
  BY <1>4, <1>5

------------------------------------------------------------------------------
(* What one turn of the loop of coalesce_ranges does to the list. *)
LEMMA Merged ==
  ASSUME NEW done \in Seq(Span), NEW r \in Span
  PROVE  /\ Merge(done, r) \in Seq(Span)
         /\ \/ /\ done = <<>> \/ r[1] > done[Len(done)][2] + 1 \/ r = done[Len(done)]
               /\ Len(Merge(done, r)) = Len(done) + 1
               /\ \A k \in 1 .. Len(done) : Merge(done, r)[k] = done[k]
               /\ Merge(done, r)[Len(done) + 1] = r
            \/ /\ done # <<>> /\ r[1] <= done[Len(done)][2] + 1
               /\ Len(Merge(done, r)) = Len(done)
               /\ \A k \in 1 .. Len(done) - 1 : Merge(done, r)[k] = done[k]
               /\ Merge(done, r)[Len(done)][1] = done[Len(done)][1]
               /\ \/ Merge(done, r)[Len(done)][2] = r[2] /\ r[2] > done[Len(done)][2]
                  \/ Merge(done, r)[Len(done)][2] = done[Len(done)][2] /\ r[2] <= done[Len(done)][2]
<1>1. Len(done) \in Nat /\ (done # <<>> => Len(done) >= 1)
  BY EmptySeq, LenProperties
<1>2. Last(done) = done[Len(done)]
  BY DEF Last
<1>3. CASE done # <<>> /\ r[1] <= Last(done)[2] + 1 /\ r # Last(done)
  <2> DEFINE end == IF r[2] > Last(done)[2] THEN r[2] ELSE Last(done)[2]
             last == <<Last(done)[1], end>>
  <2>1. Last(done) \in Span
    BY <1>1, <1>2, <1>3, ElementOfSeq
  <2>2. last \in Span /\ <<last>> \in Seq(Span) /\ Len(<<last>>) = 1 /\ <<last>>[1] = last
    BY <2>1 DEF Span
  <2>3. /\ Front(done) \in Seq(Span) /\ Len(Front(done)) = Len(done) - 1
        /\ \A k \in 1 .. Len(done) - 1 : Front(done)[k] = done[k]
    <3>1. \A k \in 1 .. Len(done) - 1 : done[k] \in Span
      BY <1>1, ElementOfSeq
    <3> DEFINE m == Len(done) - 1
               f == SubSeq(done, 1, m)
    <3>2. m \in Nat
      BY <1>1, <1>3
    <3> HIDE DEF m
    <3>3. f \in Seq(Span) /\ Len(f) = m /\ \A k \in 1 .. m : f[k] = done[k]
      <4>1. \A k \in 1 .. m : done[k] \in Span
        BY <3>1 DEF m
      <4> QED
        BY <3>2, <4>1, SubSeqProperties
    <3>4. Front(done) = f
      BY DEF Front, m
    <3> QED
      BY <3>3, <3>4 DEF m
  <2>4. Merge(done, r) = Front(done) \o <<last>>
    BY <1>3 DEF Merge
  <2> HIDE DEF last
  <2>5. /\ Merge(done, r) \in Seq(Span) /\ Len(Merge(done, r)) = Len(done)
        /\ \A k \in 1 .. Len(done) - 1 : Merge(done, r)[k] = done[k]
        /\ Merge(done, r)[Len(done)] = last
    BY <1>1, <1>3, <2>2, <2>3, <2>4, ConcatProperties
  <2> QED
    BY <1>2, <1>3, <2>1, <2>5 DEF last, Span
<1>4. CASE ~ (done # <<>> /\ r[1] <= Last(done)[2] + 1 /\ r # Last(done))
  <2>1. Merge(done, r) = Append(done, r)
    BY <1>4 DEF Merge
  <2>2. done # <<>> => Last(done) \in Span
    BY <1>1, <1>2, ElementOfSeq
  <2>3. done = <<>> \/ r[1] > done[Len(done)][2] + 1 \/ r = done[Len(done)]
    BY <1>2, <1>4, <2>2 DEF Span
  <2> QED
    BY <1>1, <2>1, <2>3
<1> QED
  BY <1>3, <1>4
------------------------------------------------------------------------------
(* The loop of coalesce_ranges.  The ranges are those of a content of n    *)
(* bytes; those yet to come begin no earlier than the ones in the list,    *)
(* whose members overlap only where they began with the same byte; and     *)
(* each member goes back to a range of its own that began with its byte,   *)
(* of a request with two overlaps at most.                                 *)
Proper(rs, n) == rs \in Seq(Span) /\ \A k \in 1 .. Len(rs) : Within(rs[k], n)

Runs(done) ==
  \A j, k \in 1 .. Len(done) : j < k =>
    /\ done[j][1] = done[k][1] \/ done[j][2] < done[k][1]
    /\ done[j][2] <= done[k][2]

Ascending(done, todo) ==
  /\ \A k \in 1 .. Len(todo) - 1 : todo[k][1] <= todo[k + 1][1]
  /\ Len(done) > 0 /\ Len(todo) > 0 => done[Len(done)][1] <= todo[1][1]

Fits(p, n) == p[1] \in Int /\ p[2] \in Int /\ Within(p, n)

Injective(f, m) == \A j, k \in 1 .. m : f[j] = f[k] => j = k

Begins(f, rs, done, todo) ==
  /\ f \in [1 .. Len(done) + Len(todo) -> 1 .. Len(rs)]
  /\ Injective(f, Len(done) + Len(todo))
  /\ \A k \in 1 .. Len(done) : rs[f[k]][1] = done[k][1]
  /\ \A k \in 1 .. Len(todo) : rs[f[Len(done) + k]][1] = todo[k][1]

Begun(done, todo, n) ==
  \E rs \in Seq(Span) :
    /\ Proper(rs, n) /\ Cardinality(Overlaps(rs)) <= 2
    /\ \E f \in [1 .. Len(done) + Len(todo) -> 1 .. Len(rs)] : Begins(f, rs, done, todo)

Coalescing(done, todo, n) ==
  /\ Proper(done, n) /\ Proper(todo, n) /\ Len(done) + Len(todo) > 0
  /\ Runs(done) /\ Ascending(done, todo) /\ Begun(done, todo, n)

LEMMA CoalesceTurn ==
  ASSUME NEW n \in Nat, NEW done, NEW todo, Coalescing(done, todo, n), todo # <<>>
  PROVE  /\ Coalescing(Merge(done, Head(todo)), Tail(todo), n)
         /\ \A b \in Int : InSome(done, b) \/ InSome(todo, b)
                         <=> InSome(Merge(done, Head(todo)), b) \/ InSome(Tail(todo), b)
<1> DEFINE r == Head(todo)  t == Tail(todo)  d == Merge(done, r)  l == Len(done)  m == Len(t)
<1>1. done \in Seq(Span) /\ todo \in Seq(Span) /\ l \in Nat /\ Len(todo) \in Nat \ {0}
  BY EmptySeq, LenProperties DEF Coalescing, Proper
<1>2. /\ r \in Span /\ r = todo[1] /\ t \in Seq(Span) /\ Len(todo) = m + 1 /\ m \in Nat
      /\ \A k \in 1 .. m : t[k] = todo[k + 1]
  <2>1. r = todo[1]
    BY <1>1
  <2> QED
    BY <1>1, <2>1, HeadTailProperties, LenProperties
<1>3. /\ d \in Seq(Span) /\ Len(d) \in Nat
      /\ \/ /\ done = <<>> \/ r[1] > done[l][2] + 1 \/ r = done[l]
            /\ Len(d) = l + 1
            /\ \A k \in 1 .. l : d[k] = done[k]
            /\ d[l + 1] = r
         \/ /\ done # <<>> /\ r[1] <= done[l][2] + 1
            /\ Len(d) = l
            /\ \A k \in 1 .. l - 1 : d[k] = done[k]
            /\ d[l][1] = done[l][1]
            /\ \/ d[l][2] = r[2] /\ r[2] > done[l][2]
               \/ d[l][2] = done[l][2] /\ r[2] <= done[l][2]
  BY <1>1, <1>2, Merged, LenProperties
<1>4. /\ \A k \in 1 .. l : Fits(done[k], n)
      /\ \A k \in 1 .. m + 1 : Fits(todo[k], n)
      /\ l > 0 => done[l][1] <= r[1]
      /\ \A k \in 1 .. m : todo[k][1] <= todo[k + 1][1]
  <2>1. \A k \in 1 .. l : Within(done[k], n) /\ done[k] \in Span
    BY <1>1, ElementOfSeq DEF Coalescing, Proper
  <2>2. \A k \in 1 .. m + 1 : Within(todo[k], n) /\ todo[k] \in Span
    BY <1>1, <1>2, ElementOfSeq DEF Coalescing, Proper
  <2>3. /\ l > 0 => done[l][1] <= r[1]
        /\ \A k \in 1 .. m : todo[k][1] <= todo[k + 1][1]
    BY <1>1, <1>2 DEF Coalescing, Ascending
  <2> QED
    BY <2>1, <2>2, <2>3 DEF Fits, Within, Span
<1>5. done = <<>> <=> l = 0
  BY <1>1, EmptySeq
<1>6. Begun(done, todo, n)
  BY DEF Coalescing
<1>7. \A j, k \in 1 .. l : j < k =>
        /\ done[j][1] = done[k][1] \/ done[j][2] < done[k][1]
        /\ done[j][2] <= done[k][2]
  BY DEF Coalescing, Runs
<1> DEFINE e == Len(d)
<1> HIDE DEF r, t, d, l, m, e
<1>a. /\ l \in Nat /\ m \in Nat /\ e \in Nat
      /\ Fits(r, n) /\ r = todo[1]
      /\ \/ /\ l = 0 \/ r[1] > done[l][2] + 1 \/ r = done[l]
            /\ e = l + 1
            /\ \A k \in 1 .. l : d[k] = done[k]
            /\ d[l + 1] = r
         \/ /\ l # 0 /\ r[1] <= done[l][2] + 1
            /\ e = l
            /\ \A k \in 1 .. l - 1 : d[k] = done[k]
            /\ d[l][1] = done[l][1]
            /\ \/ d[l][2] = r[2] /\ r[2] > done[l][2]
               \/ d[l][2] = done[l][2] /\ r[2] <= done[l][2]
  <2>1. Fits(todo[1], n)
    BY <1>2, <1>4
  <2> QED
    BY <1>1, <1>2, <1>3, <1>5, <2>1 DEF e
<1>b. \A k \in 1 .. e : Fits(d[k], n)
  <2> SUFFICES ASSUME NEW k \in 1 .. e PROVE Fits(d[k], n)
    OBVIOUS
  <2>1. CASE e = l + 1
    BY <1>4, <1>a, <2>1
  <2>2. CASE e = l /\ k # l
    BY <1>4, <1>a, <2>2
  <2>3. CASE e = l /\ k = l
    BY <1>4, <1>a, <2>3 DEF Fits, Within
  <2> QED
    BY <1>a, <2>1, <2>2, <2>3
<1>8. Proper(d, n) /\ Proper(t, n)
  <2>1. \A k \in 1 .. m : Fits(t[k], n)
    BY <1>2, <1>4
  <2> QED
    BY <1>2, <1>3, <1>b, <2>1 DEF Proper, Fits, Within, m, e
<1>9. Runs(d)
  <2> SUFFICES ASSUME NEW j \in 1 .. e, NEW k \in 1 .. e, j < k
               PROVE  /\ d[j][1] = d[k][1] \/ d[j][2] < d[k][1]
                      /\ d[j][2] <= d[k][2]
    BY DEF Runs, e
  <2>1. CASE k # e
    <3>1. j \in 1 .. l /\ k \in 1 .. l /\ d[j] = done[j] /\ d[k] = done[k]
      BY <1>a, <2>1
    <3> QED
      BY <1>7, <3>1
  <2>2. CASE k = e
    <3>1. j \in 1 .. l /\ d[j] = done[j] /\ Fits(done[j], n) /\ l # 0 /\ Fits(done[l], n)
      BY <1>4, <1>a, <2>2
    <3>3. l \in 1 .. l /\ (j = l \/ j < l)
      BY <1>a, <3>1
    <3>2. j < l => (/\ done[j][1] = done[l][1] \/ done[j][2] < done[l][1]
                    /\ done[j][2] <= done[l][2])
      BY <1>7, <3>1, <3>3
    <3>4. /\ done[j][1] \in Int /\ done[j][2] \in Int /\ done[l][1] \in Int /\ done[l][2] \in Int
          /\ r[1] \in Int /\ r[2] \in Int /\ r[1] <= r[2] /\ done[l][1] <= done[l][2]
      BY <1>a, <3>1 DEF Fits, Within
    <3>5. CASE e = l + 1
      <4>1. d[k] = r /\ (r[1] > done[l][2] + 1 \/ r = done[l])
        BY <1>a, <2>2, <3>1, <3>5
      <4> QED
        <5>1. CASE r = done[l]
          BY <3>1, <3>2, <3>3, <3>4, <4>1, <5>1
        <5>2. CASE r[1] > done[l][2] + 1
          <6>1. done[j][2] <= done[l][2]
            BY <3>2, <3>3, <3>4
          <6> QED
            BY <3>1, <3>4, <4>1, <5>2, <6>1
        <5> QED
          BY <4>1, <5>1, <5>2
    <3>6. CASE e = l
      <4>1. d[k][1] = done[l][1] /\ ((d[k][2] = r[2] /\ r[2] > done[l][2]) \/ d[k][2] = done[l][2])
        BY <1>a, <2>2, <3>6
      <4>2. j # l
        BY <1>a, <2>2, <3>6
      <4> QED
        BY <3>1, <3>2, <3>3, <3>4, <4>1, <4>2
    <3> QED
      BY <1>a, <3>5, <3>6
  <2> QED
    BY <2>1, <2>2
<1>10. Ascending(d, t)
  <2>1. \A k \in 1 .. m - 1 : t[k][1] <= t[k + 1][1]
    <3> SUFFICES ASSUME NEW k \in 1 .. m - 1 PROVE t[k][1] <= t[k + 1][1]
      OBVIOUS
    <3>1. k + 1 \in 1 .. m /\ k \in 1 .. m
      BY <1>a
    <3>2. t[k] = todo[k + 1] /\ t[k + 1] = todo[(k + 1) + 1]
      BY <1>2, <3>1
    <3> QED
      BY <1>4, <3>1, <3>2
  <2>2. ASSUME m > 0 PROVE d[e][1] <= t[1][1]
    <3>1. t[1] = todo[2] /\ todo[1][1] <= todo[2][1] /\ Fits(todo[2], n)
      <4>1. 1 \in 1 .. m /\ 2 \in 1 .. m + 1 /\ 1 + 1 = 2
        BY <1>a, <2>2
      <4> QED
        BY <1>2, <1>4, <4>1
    <3>2. d[e][1] <= r[1] /\ d[e][1] \in Int
      <4>1. CASE e = l + 1
        BY <1>a, <4>1 DEF Fits
      <4>2. CASE e = l
        BY <1>4, <1>a, <4>2 DEF Fits
      <4> QED
        BY <1>a, <4>1, <4>2
    <3> QED
      BY <1>a, <3>1, <3>2 DEF Fits
  <2> QED
    BY <2>1, <2>2 DEF Ascending, m, e
<1>11. ASSUME NEW b \in Int
       PROVE  InSome(done, b) \/ InSome(todo, b) <=> InSome(d, b) \/ InSome(t, b)
  <2> DEFINE Has(p) == p[1] <= b /\ b <= p[2]
  <2>1. (\E k \in 1 .. m + 1 : Has(todo[k])) <=> Has(r) \/ \E k \in 1 .. m : Has(t[k])
    <3>1. ASSUME NEW k \in 1 .. m + 1, Has(todo[k])
          PROVE  Has(r) \/ \E i \in 1 .. m : Has(t[i])
      <4>1. CASE k = 1
        BY <1>a, <3>1, <4>1
      <4>2. CASE k # 1
        <5>1. k - 1 \in 1 .. m /\ todo[(k - 1) + 1] = todo[k]
          BY <1>a, <4>2
        <5>2. t[k - 1] = todo[k]
          BY <1>2, <5>1
        <5> QED
          BY <3>1, <5>1, <5>2
      <4> QED
        BY <4>1, <4>2
    <3>2. ASSUME NEW k \in 1 .. m, Has(t[k]) PROVE \E i \in 1 .. m + 1 : Has(todo[i])
      <4>1. k + 1 \in 1 .. m + 1 /\ t[k] = todo[k + 1]
        BY <1>2, <1>a
      <4> QED
        BY <3>2, <4>1
    <3>3. 1 \in 1 .. m + 1
      BY <1>a
    <3> HIDE DEF Has
    <3> QED
      BY <1>a, <3>1, <3>2, <3>3
  <2>2. (\E k \in 1 .. e : Has(d[k])) <=> (\E k \in 1 .. l : Has(done[k])) \/ Has(r)
    <3>1. CASE e = l + 1
      <4>1. 1 .. e = 1 .. l \cup {l + 1} /\ l + 1 \notin 1 .. l
        BY <1>a, <3>1
      <4>2. (\A k \in 1 .. l : d[k] = done[k]) /\ d[l + 1] = r
        BY <1>a, <3>1
      <4> HIDE DEF Has
      <4> QED
        BY <4>1, <4>2
    <3>2. CASE e = l
      <4>1. 1 .. l = 1 .. l - 1 \cup {l} /\ l \notin 1 .. l - 1
        BY <1>a, <3>2
      <4>2. \A k \in 1 .. l - 1 : d[k] = done[k]
        BY <1>a, <3>2
      <4>3. Has(d[l]) <=> Has(done[l]) \/ Has(r)
        <5>1. Fits(done[l], n)
          BY <1>4, <1>a, <3>2
        <5>2. /\ done[l][1] \in Int /\ done[l][2] \in Int /\ done[l][1] <= done[l][2]
              /\ r[1] \in Int /\ r[2] \in Int /\ r[1] <= r[2]
          BY <1>a, <5>1 DEF Fits, Within
        <5>3. /\ done[l][1] <= r[1] /\ r[1] <= done[l][2] + 1 /\ d[l][1] = done[l][1]
              /\ \/ d[l][2] = r[2] /\ r[2] > done[l][2]
                 \/ d[l][2] = done[l][2] /\ r[2] <= done[l][2]
          BY <1>4, <1>a, <3>2
        <5> QED
          BY <5>2, <5>3
      <4> HIDE DEF Has
      <4> QED
        BY <3>2, <4>1, <4>2, <4>3
    <3> QED
      BY <1>a, <3>1, <3>2
  <2> QED
    BY <1>1, <1>2, <2>1, <2>2 DEF InSome, l, m, e
<1>12. Begun(d, t, n)
  <2>1. PICK rs \in Seq(Span) :
          /\ Proper(rs, n) /\ Cardinality(Overlaps(rs)) <= 2
          /\ \E f \in [1 .. Len(done) + Len(todo) -> 1 .. Len(rs)] : Begins(f, rs, done, todo)
    BY <1>6 DEF Begun
  <2>2. PICK f \in [1 .. l + (m + 1) -> 1 .. Len(rs)] : Begins(f, rs, done, todo)
    BY <1>2, <2>1 DEF l
  <2>3. /\ Injective(f, l + (m + 1))
        /\ \A k \in 1 .. l : rs[f[k]][1] = done[k][1]
        /\ \A k \in 1 .. m + 1 : rs[f[l + k]][1] = todo[k][1]
    BY <1>2, <2>2 DEF Begins, l
  <2> DEFINE g == [k \in 1 .. e + m |-> IF e = l /\ k > l THEN f[k + 1] ELSE f[k]]
  <2>4. g \in [1 .. e + m -> 1 .. Len(rs)] /\ Injective(g, e + m)
    <3>1. g \in [1 .. e + m -> 1 .. Len(rs)]
      BY <1>a, <2>2
    <3>2. ASSUME NEW j \in 1 .. e + m, NEW k \in 1 .. e + m, g[j] = g[k]
          PROVE  j = k
      BY <1>a, <2>3, <3>2 DEF Injective
    <3> QED
      BY <3>1, <3>2 DEF Injective
  <2>5. ASSUME NEW k \in 1 .. e PROVE rs[g[k]][1] = d[k][1]
    <3>1. CASE e = l + 1
      <4>1. g[k] = f[k]
        BY <1>a, <3>1
      <4>2. k \in 1 .. l \/ k = l + 1
        BY <1>a, <3>1
      <4>3. rs[f[l + 1]][1] = todo[1][1]
        BY <1>2, <2>3
      <4>4. k \in 1 .. l => rs[f[k]][1] = done[k][1] /\ d[k] = done[k]
        BY <1>a, <2>3, <3>1
      <4>5. k = l + 1 => rs[f[k]][1] = todo[1][1] /\ d[k] = todo[1]
        BY <1>a, <3>1, <4>3
      <4> HIDE DEF g
      <4> QED
        <5>1. rs[f[k]][1] = d[k][1]
          BY <4>2, <4>4, <4>5
        <5> QED
          BY <4>1, <5>1, Zenon
    <3>2. CASE e = l
      <4>1. g[k] = f[k]
        BY <1>a, <3>2
      <4>2. k \in 1 .. l - 1 \/ k = l
        BY <1>a, <3>2
      <4>3. k \in 1 .. l /\ rs[f[k]][1] = done[k][1]
        BY <1>a, <2>3, <3>2
      <4>4. k \in 1 .. l - 1 => d[k] = done[k]
        BY <1>a, <3>2
      <4>5. d[l][1] = done[l][1]
        BY <1>a, <3>2
      <4> HIDE DEF g
      <4> QED
        BY <4>1, <4>2, <4>3, <4>4, <4>5, Zenon
    <3> QED
      BY <1>a, <3>1, <3>2
  <2>6. ASSUME NEW k \in 1 .. m PROVE rs[g[e + k]][1] = t[k][1]
    <3>1. g[e + k] = f[l + (k + 1)]
      <4>1. e + k \in 1 .. e + m /\ (e = l \/ e = l + 1)
        BY <1>a
      <4>2. CASE e = l
        <5>1. e + k > l /\ e + k + 1 = l + (k + 1)
          BY <1>a, <4>2
        <5> QED
          BY <4>1, <4>2, <5>1
      <4>3. CASE e = l + 1
        <5>1. e + k = l + (k + 1) /\ e # l
          BY <1>a, <4>3
        <5> QED
          BY <4>1, <5>1
      <4> QED
        BY <4>1, <4>2, <4>3
    <3>2. rs[f[l + (k + 1)]][1] = todo[k + 1][1]
      BY <1>2, <2>3
    <3> QED
      BY <1>2, <3>1, <3>2
  <2> HIDE DEF g
  <2>7. Begins(g, rs, d, t)
    BY <2>4, <2>5, <2>6 DEF Begins, m, e
  <2> QED
    BY <2>1, <2>4, <2>7 DEF Begun, m, e
<1>13. Len(d) + Len(t) > 0
  BY <1>a DEF m, e
<1> QED
  BY <1>8, <1>9, <1>10, <1>11, <1>12, <1>13 DEF Coalescing, r, t, d

------------------------------------------------------------------------------
(* The lengths of an empty body and of one in a piece. *)
LEMMA LengthUnfolds ==
  \A s : LengthOf(s) =
    (CHOOSE g : g = [S \in SUBSET DOMAIN s |->
                      IF S = {} THEN 0 ELSE g[S \ {Max(S)}] + s[Max(S)].length])[DOMAIN s]
BY Zenon DEF LengthOf, FoldLeft, MapThenFoldSet
LEMMA LengthOfNone == LengthOf(<<>>) = 0
<1> DEFINE turn(g) == [S \in SUBSET DOMAIN <<>> |->
                        IF S = {} THEN 0 ELSE g[S \ {Max(S)}] + <<>>[Max(S)].length]
           sum == CHOOSE g : g = turn(g)
           zero == [S \in SUBSET DOMAIN <<>> |-> 0]
<1>1. DOMAIN <<>> = {}
  OBVIOUS
<1>2. zero = turn(zero)
  BY <1>1
<1>3. sum = turn(sum)
  <2> HIDE DEF turn, zero
  <2> QED
    BY <1>2, Zenon
<1>4. LengthOf(<<>>) = sum[DOMAIN <<>>]
  BY LengthUnfolds
<1> HIDE DEF sum
<1> QED
  BY <1>1, <1>3, <1>4

LEMMA LengthOfOne ==
  ASSUME NEW p, p.length \in Int
  PROVE  LengthOf(<<p>>) = p.length
<1> DEFINE s == <<p>>
           turn(g) == [S \in SUBSET DOMAIN s |->
                        IF S = {} THEN 0 ELSE g[S \ {Max(S)}] + s[Max(S)].length]
           sum == CHOOSE g : g = turn(g)
           alone == [S \in SUBSET DOMAIN s |-> IF S = {} THEN 0 ELSE p.length]
<1>1. DOMAIN s = {1} /\ s[1] = p
  OBVIOUS
<1>2. Max({1}) = 1
  BY DEF Max
<1> HIDE DEF s
<1>3. SUBSET DOMAIN s = {{}, {1}} /\ {1} # {} /\ {1} \ {1} = {}
  BY <1>1
<1>4. alone = turn(alone)
  <2>1. alone[{}] = 0
    BY <1>3
  <2>2. alone[{1}] = p.length /\ alone[{1} \ {Max({1})}] + s[Max({1})].length = p.length
    BY <1>1, <1>2, <1>3, <2>1
  <2>3. turn(alone)[{}] = 0 /\ turn(alone)[{1}] = p.length
    BY <1>3, <2>2
  <2>4. \A S \in SUBSET DOMAIN s : alone[S] = turn(alone)[S]
    BY <1>3, <2>1, <2>2, <2>3, Zenon
  <2> QED
    BY <2>4
<1>5. sum = turn(sum)
  <2> HIDE DEF turn, alone
  <2> QED
    BY <1>4, Zenon
<1>6. LengthOf(<<p>>) = sum[DOMAIN s]
  BY LengthUnfolds DEF s
<1> HIDE DEF sum
<1>7. sum[{}] = 0
  BY <1>3, <1>5
<1>8. sum[{1}] = sum[{}] + p.length
  BY <1>1, <1>2, <1>3, <1>5
<1> QED
  BY <1>1, <1>6, <1>7, <1>8

------------------------------------------------------------------------------
(* Each range has a piece, and each piece of content is one of a range. *)
SpanOf(r) == r[1] .. r[2]

LEMMA PartHolds ==
  ASSUME NEW r \in Span
  PROVE  Holds(OffsetAndLength(r)) = SpanOf(r)
BY DEF Holds, OffsetAndLength, Bytes, SpanOf, Span

LEMMA FrameHolds == Holds(Frame) = {}
BY DEF Holds, Frame

LEMMA PiecesHold ==
  ASSUME NEW rs \in Seq(Span), rs # <<>>, NEW n
  PROVE  /\ \A k \in 1 .. Len(rs) : \E j \in DOMAIN Pieces(rs, n) :
              Holds(Pieces(rs, n)[j]) = SpanOf(rs[k])
         /\ \E part \in [DOMAIN Pieces(rs, n) -> Int] :
              \A j \in DOMAIN Pieces(rs, n) : Holds(Pieces(rs, n)[j]) # {} =>
                /\ part[j] \in 1 .. Len(rs)
                /\ Holds(Pieces(rs, n)[j]) = SpanOf(rs[part[j]])
                /\ \A i \in DOMAIN Pieces(rs, n) :
                     Holds(Pieces(rs, n)[i]) # {} /\ part[i] = part[j] => i = j
<1> DEFINE P == Pieces(rs, n)  l == Len(rs)
<1>1. l \in Nat \ {0} /\ \A k \in 1 .. l : rs[k] \in Span
  BY EmptySeq, ElementOfSeq
<1>2. CASE l = 1
  <2>1. P = <<OffsetAndLength(rs[1])>>
    BY <1>2 DEF Pieces
  <2>2. DOMAIN P = {1} /\ P[1] = OffsetAndLength(rs[1]) /\ 1 .. l = {1}
    BY <1>2, <2>1
  <2>3. Holds(P[1]) = SpanOf(rs[1])
    BY <1>1, <2>2, PartHolds
  <2> DEFINE part == [j \in DOMAIN P |-> 1]
  <2>4. part \in [DOMAIN P -> Int] /\ part[1] = 1
    BY <2>2
  <2> HIDE DEF P, l, part
  <2> QED
    BY <2>2, <2>3, <2>4 DEF P, l
<1>3. CASE l # 1
  <2>1. P = Multipart(rs)
    BY <1>3 DEF Pieces
  <2>2. /\ DOMAIN P = 1 .. 2 * l + 1
        /\ \A j \in 1 .. 2 * l + 1 :
             P[j] = IF j % 2 = 1 THEN Frame ELSE OffsetAndLength(rs[j \div 2])
    BY <2>1 DEF Multipart
  <2> HIDE DEF P, l
  <2>3. \A j \in 1 .. 2 * l + 1 : j % 2 # 1 => j \div 2 \in 1 .. l /\ j = 2 * (j \div 2)
    BY <1>1
  <2>4. \A k \in 1 .. l : 2 * k \in 1 .. 2 * l + 1 /\ (2 * k) % 2 # 1 /\ (2 * k) \div 2 = k
    BY <1>1
  <2>5. \A j \in DOMAIN P : IF j % 2 = 1 THEN Holds(P[j]) = {}
                                       ELSE Holds(P[j]) = SpanOf(rs[j \div 2])
    <3> SUFFICES ASSUME NEW j \in 1 .. 2 * l + 1
                 PROVE  IF j % 2 = 1 THEN Holds(P[j]) = {}
                                     ELSE Holds(P[j]) = SpanOf(rs[j \div 2])
      BY <2>2
    <3>1. CASE j % 2 = 1
      BY <2>2, <3>1, FrameHolds
    <3>2. CASE j % 2 # 1
      <4>1. P[j] = OffsetAndLength(rs[j \div 2]) /\ rs[j \div 2] \in Span
        BY <1>1, <2>2, <2>3, <3>2
      <4> QED
        BY <3>2, <4>1, PartHolds
    <3> QED
      BY <3>1, <3>2
  <2> DEFINE part == [j \in DOMAIN P |-> j \div 2]
  <2>6. part \in [DOMAIN P -> Int]
    BY <1>1, <2>2
  <2>7. \A k \in 1 .. l : \E j \in DOMAIN P : Holds(P[j]) = SpanOf(rs[k])
    <3> SUFFICES ASSUME NEW k \in 1 .. l PROVE Holds(P[2 * k]) = SpanOf(rs[k]) /\ 2 * k \in DOMAIN P
      OBVIOUS
    <3> QED
      BY <2>2, <2>4, <2>5
  <2>8. ASSUME NEW j \in DOMAIN P, Holds(P[j]) # {}
        PROVE  /\ part[j] \in 1 .. l
               /\ Holds(P[j]) = SpanOf(rs[part[j]])
               /\ \A i \in DOMAIN P : Holds(P[i]) # {} /\ part[i] = part[j] => i = j
    <3>1. j % 2 # 1 /\ \A i \in DOMAIN P : Holds(P[i]) # {} => i % 2 # 1
      BY <2>5, <2>8
    <3> QED
      BY <2>2, <2>3, <2>5, <3>1
  <2> HIDE DEF part
  <2> QED
    BY <2>6, <2>7, <2>8 DEF P, l
<1> QED
  BY <1>2, <1>3

(* No more than three ranges with two overlaps begin with the same byte. *)
BeginningWith(rs, a) == {k \in 1 .. Len(rs) : rs[k][1] = a}

LEMMA FewBeginTogether ==
  ASSUME NEW n \in Nat, NEW rs, Proper(rs, n), Cardinality(Overlaps(rs)) <= 2, NEW a
  PROVE  IsFiniteSet(BeginningWith(rs, a)) /\ Cardinality(BeginningWith(rs, a)) <= 3
<1> DEFINE T == BeginningWith(rs, a)  O == Overlaps(rs)
<1>1. Len(rs) \in Nat /\ DOMAIN rs = 1 .. Len(rs)
  BY LenProperties DEF Proper
<1>2. IsFiniteSet(1 .. Len(rs))
  BY <1>1, FS_Interval
<1>3. O \subseteq 1 .. Len(rs) /\ T \subseteq 1 .. Len(rs)
  BY <1>1 DEF Overlaps, BeginningWith
<1>4. IsFiniteSet(O) /\ IsFiniteSet(T) /\ Cardinality(O) \in Nat /\ Cardinality(T) \in Nat
  BY <1>2, <1>3, FS_Subset, FS_CardinalityType
<1>5. ASSUME NEW j \in T, NEW k \in T, j < k PROVE k \in O
  <2>1. /\ rs[j] \in Span /\ rs[k] \in Span /\ Within(rs[j], n) /\ Within(rs[k], n)
        /\ rs[j][1] = rs[k][1]
    BY <1>1, ElementOfSeq DEF Proper, BeginningWith
  <2>2. Meet(rs[k], rs[j])
    BY <2>1 DEF Meet, Within, Span
  <2>3. j \in 1 .. k - 1
    BY <1>1, <1>5 DEF BeginningWith
  <2> QED
    BY <1>1, <2>2, <2>3 DEF Overlaps, BeginningWith
<1> HIDE DEF T, O
<1>6. CASE T \subseteq O
  BY <1>4, <1>6, FS_Subset DEF O, T
<1>7. CASE ~ (T \subseteq O)
  <2>1. PICK x \in T : x \notin O
    BY <1>7
  <2>2. \A k \in T : k \in O \/ k = x
    <3> SUFFICES ASSUME NEW k \in T, k # x, k \notin O PROVE FALSE
      OBVIOUS
    <3>1. k \in Int /\ x \in Int
      BY <1>3
    <3>2. k < x \/ x < k
      BY <3>1
    <3> QED
      BY <1>5, <2>1, <3>2
  <2>3. T \subseteq O \cup {x}
    BY <2>2
  <2>4. IsFiniteSet(O \cup {x}) /\ Cardinality(O \cup {x}) = Cardinality(O) + 1
    BY <1>4, <2>1, FS_AddElement
  <2>5. Cardinality(T) <= Cardinality(O \cup {x})
    BY <2>3, <2>4, FS_Subset
  <2> QED
    BY <1>4, <2>4, <2>5 DEF O, T
<1> QED
  BY <1>6, <1>7

------------------------------------------------------------------------------
(* What is sent of coalesced ranges. *)
LEMMA SentIs ==
  ASSUME NEW rs \in Seq(Span), rs # <<>>, NEW n, NEW b
  PROVE  b \in Sent(Pieces(rs, n)) <=> b \in Int /\ InSome(rs, b)
<1> DEFINE P == Pieces(rs, n)
<1>1. \A k \in 1 .. Len(rs) : b \in SpanOf(rs[k]) <=> b \in Int /\ rs[k][1] <= b /\ b <= rs[k][2]
  BY ElementOfSeq DEF SpanOf, Span
<1>2. \A k \in 1 .. Len(rs) : \E j \in DOMAIN P : Holds(P[j]) = SpanOf(rs[k])
  BY PiecesHold
<1>3. \A j \in DOMAIN P : Holds(P[j]) # {} => \E k \in 1 .. Len(rs) : Holds(P[j]) = SpanOf(rs[k])
  BY PiecesHold
<1>4. b \in Sent(P) <=> \E j \in DOMAIN P : b \in Holds(P[j])
  BY DEF Sent
<1> HIDE DEF P
<1>5. b \in Sent(P) <=> \E k \in 1 .. Len(rs) : b \in SpanOf(rs[k])
  BY <1>2, <1>3, <1>4
<1> QED
  BY <1>1, <1>5 DEF InSome, P

LEMMA FewTimes ==
  ASSUME NEW n \in Nat, NEW rs, Coalescing(rs, <<>>, n), rs # <<>>, NEW b
  PROVE  TimesSent(Pieces(rs, n), b) <= 3
<1> DEFINE P == Pieces(rs, n)  J == {j \in DOMAIN P : b \in Holds(P[j])}
<1>1. /\ rs \in Seq(Span) /\ Len(rs) \in Nat
      /\ \A k \in 1 .. Len(rs) : rs[k][1] \in Int /\ rs[k][2] \in Int /\ rs[k][1] <= rs[k][2]
  BY ElementOfSeq, LenProperties DEF Coalescing, Proper, Within, Span
<1>2. PICK part \in [DOMAIN P -> Int] :
        \A j \in DOMAIN P : Holds(P[j]) # {} =>
          /\ part[j] \in 1 .. Len(rs)
          /\ Holds(P[j]) = SpanOf(rs[part[j]])
          /\ \A i \in DOMAIN P : Holds(P[i]) # {} /\ part[i] = part[j] => i = j
  BY <1>1, PiecesHold
<1>3. PICK orig \in Seq(Span) :
        /\ Proper(orig, n) /\ Cardinality(Overlaps(orig)) <= 2
        /\ \E f \in [1 .. Len(rs) + Len(<<>>) -> 1 .. Len(orig)] : Begins(f, orig, rs, <<>>)
  BY DEF Coalescing, Begun
<1>4. PICK f \in [1 .. Len(rs) -> 1 .. Len(orig)] :
        /\ Injective(f, Len(rs))
        /\ \A k \in 1 .. Len(rs) : orig[f[k]][1] = rs[k][1]
  <2>1. Len(rs) + Len(<<>>) = Len(rs)
    BY <1>1
  <2> QED
    BY <1>3, <2>1 DEF Begins
<1>5. TimesSent(P, b) = Cardinality(J)
  BY DEF TimesSent
<1> HIDE DEF P
<1>6. \A j \in J : /\ j \in DOMAIN P /\ part[j] \in 1 .. Len(rs)
                   /\ rs[part[j]][1] <= b /\ b <= rs[part[j]][2] /\ b \in Int
  BY <1>1, <1>2 DEF SpanOf
<1>7. \A i, j \in J : part[i] = part[j] => i = j
  BY <1>2
<1> HIDE DEF J
<1>8. CASE J = {}
  BY <1>5, <1>8, FS_EmptySet DEF P
<1>9. CASE J # {}
  <2>1. PICK x \in J : TRUE
    BY <1>9
  <2> DEFINE a == rs[part[x]][1]
             T == BeginningWith(orig, a)
             h == [j \in J |-> f[part[j]]]
  <2>2. \A j \in J : rs[part[j]][1] = a
    <3> SUFFICES ASSUME NEW j \in J, part[j] # part[x] PROVE rs[part[j]][1] = rs[part[x]][1]
      OBVIOUS
    <3>1. part[j] \in 1 .. Len(rs) /\ part[x] \in 1 .. Len(rs)
      BY <1>6
    <3>2. part[j] < part[x] \/ part[x] < part[j]
      BY <3>1
    <3>3. Runs(rs)
      BY DEF Coalescing
    <3>4. \A i, k \in J : ~ (rs[part[i]][2] < rs[part[k]][1])
      <4> SUFFICES ASSUME NEW i \in J, NEW k \in J PROVE ~ (rs[part[i]][2] < rs[part[k]][1])
        OBVIOUS
      <4> DEFINE u == rs[part[i]][2]  v == rs[part[k]][1]
      <4>1. u \in Int /\ v \in Int
        BY <1>1, <1>6
      <4>2. v <= b /\ b <= u /\ b \in Int
        BY <1>6
      <4> HIDE DEF u, v
      <4>3. ~ (u < v)
        BY <4>1, <4>2
      <4> QED
        BY <4>3 DEF u, v
    <3>5. /\ ~ (rs[part[j]][2] < rs[part[x]][1])
          /\ ~ (rs[part[x]][2] < rs[part[j]][1])
      BY <3>4
    <3> QED
      BY <3>1, <3>2, <3>3, <3>5 DEF Runs
  <2>3. h \in Injection(J, T)
    <3>1. ASSUME NEW j \in J PROVE f[part[j]] \in T
      BY <1>4, <1>6, <2>2 DEF BeginningWith
    <3>2. ASSUME NEW i \in J, NEW j \in J, h[i] = h[j] PROVE i = j
      <4>1. part[i] = part[j]
        BY <1>4, <1>6, <3>2 DEF Injective
      <4> QED
        BY <1>7, <4>1
    <3> HIDE DEF T
    <3> QED
      BY <3>1, <3>2 DEF Injection, IsInjective
  <2>4. IsFiniteSet(T) /\ Cardinality(T) <= 3
    <3>1. Proper(orig, n) /\ Cardinality(Overlaps(orig)) <= 2
      BY <1>3
    <3> HIDE DEF a
    <3> QED
      BY <3>1, FewBeginTogether
  <2> HIDE DEF T, h
  <2>5. Cardinality(J) <= Cardinality(T) /\ IsFiniteSet(J)
    BY <2>3, <2>4, FS_Injection
  <2>6. Cardinality(J) \in Nat /\ Cardinality(T) \in Nat
    BY <2>4, <2>5, FS_CardinalityType
  <2> QED
    BY <1>5, <2>4, <2>5, <2>6 DEF P
<1> QED
  BY <1>8, <1>9

------------------------------------------------------------------------------
(* Where the loop of coalesce_ranges begins, and what a single range is. *)
LEMMA Sorted ==
  ASSUME NEW n \in Nat, NEW rs, Proper(rs, n), Len(rs) > 0, Cardinality(Overlaps(rs)) <= 2,
         NEW p \in SortedByFirst(rs)
  PROVE  /\ Coalescing(<<>>, p, n)
         /\ \A b \in Int : InSome(rs, b) <=> InSome(p, b)
<1> DEFINE l == Len(rs)
<1>1. l \in Nat /\ DOMAIN rs = 1 .. l /\ rs \in Seq(Span) /\ \A k \in 1 .. l : rs[k] \in Span
  BY LenProperties, ElementOfSeq DEF Proper
<1>2. PICK g \in Bijection(1 .. l, 1 .. l) : p = [k \in 1 .. l |-> rs[g[k]]]
  BY <1>1 DEF SortedByFirst
<1>3. /\ g \in [1 .. l -> 1 .. l]
      /\ \A j, k \in 1 .. l : g[j] = g[k] => j = k
      /\ \A i \in 1 .. l : \E k \in 1 .. l : g[k] = i
  BY DEF Bijection, Injection, Surjection, IsInjective
<1>4. p \in [1 .. l -> Span]
  BY <1>1, <1>2, <1>3
<1>5. p \in Seq(Span) /\ Len(p) = l
  BY <1>1, <1>4, SeqDef, LenProperties
<1>6. Proper(p, n)
  BY <1>2, <1>3, <1>5 DEF Proper
<1>7. Ascending(<<>>, p)
  BY <1>1, <1>5 DEF SortedByFirst, Ascending
<1>8. Begun(<<>>, p, n)
  <2>1. Len(<<>>) + Len(p) = l /\ \A k \in 1 .. l : Len(<<>>) + k = k
    BY <1>1, <1>5
  <2>2. Begins(g, rs, <<>>, p)
    BY <1>2, <1>3, <1>5, <2>1 DEF Begins, Injective
  <2> QED
    BY <1>1, <1>3, <2>1, <2>2 DEF Begun
<1>9. ASSUME NEW b \in Int PROVE InSome(rs, b) <=> InSome(p, b)
  BY <1>2, <1>3, <1>5 DEF InSome
<1>10. Proper(<<>>, n) /\ Runs(<<>>) /\ Len(<<>>) + Len(p) > 0
  BY <1>1, <1>5 DEF Proper, Runs
<1> QED
  BY <1>6, <1>7, <1>8, <1>9, <1>10 DEF Coalescing

LEMMA Single ==
  ASSUME NEW n \in Nat, NEW rs, Proper(rs, n), Len(rs) = 1, Cardinality(Overlaps(rs)) <= 2
  PROVE  Coalescing(rs, <<>>, n)
<1>1. Len(<<>>) = 0 /\ Len(rs) + Len(<<>>) = 1 /\ Proper(<<>>, n) /\ rs \in Seq(Span)
  BY DEF Proper
<1>2. Runs(rs) /\ Ascending(rs, <<>>)
  BY <1>1 DEF Runs, Ascending
<1> DEFINE f == [k \in 1 .. 1 |-> 1]
<1>3. f \in [1 .. Len(rs) + Len(<<>>) -> 1 .. Len(rs)] /\ \A k \in 1 .. 1 : f[k] = k
  BY <1>1
<1> HIDE DEF f
<1>4. Begins(f, rs, rs, <<>>)
  BY <1>1, <1>3 DEF Begins, Injective
<1> QED
  BY <1>1, <1>2, <1>3, <1>4 DEF Coalescing, Begun

------------------------------------------------------------------------------
(* The bytes asked for by what a list of parts of a header says. *)
AskedBy(list, n, b) ==
  \E k \in 1 .. Len(list) : list[k] # Gap /\ b \in Asked(list[k], n)

Item == Pair \cup {Junk, Gap}

Readable(list) ==
  /\ list \in Seq(Pair)
  /\ \A k \in 1 .. Len(list) : ValidItem(list[k]) /\ list[k] # Gap

StatusSet ==
  IF request.set # Unset THEN request.set ELSE IF request.header = <<>> THEN 200 ELSE 206

HeaderInv ==
  /\ Readable(ranges) /\ rest \in Seq(Item)
  /\ \A b \in Int : b \in BytesAsked(request.header, request.length)
                    <=> AskedBy(ranges, request.length, b) \/ AskedBy(rest, request.length, b)
  /\ request.header = <<>> => ranges = <<>> /\ rest = <<>>

ReadInv ==
  /\ Readable(ranges) /\ rest = <<>>
  /\ \A b \in Int : b \in BytesAsked(request.header, request.length)
                    <=> AskedBy(ranges, request.length, b)
  /\ ranges = <<>> <=> request.header = <<>>

CoalesceInv ==
  /\ status = StatusSet
  /\ \/ request.header = <<>> /\ ranges = <<>> /\ rest = <<>>
     \/ request.header # <<>> /\ status \notin 200 .. 299 /\ rest = <<>>
     \/ /\ request.header # <<>>
        /\ Coalescing(ranges, rest, request.length)
        /\ \A b \in Int : b \in BytesAsked(request.header, request.length)
                          <=> InSome(ranges, b) \/ InSome(rest, b)

(* The ranges in the request, as read, being coalesced, and as answered,   *)
(* are always those that its header asks for.                              *)
RangesHold ==
  /\ request \in Requests
  /\ place \in {"header", "handler", "ranges", "coalesce", "answered"}
  /\ place = "header" => HeaderInv
  /\ place \in {"handler", "ranges"} => ReadInv
  /\ place = "ranges" => status = StatusSet
  /\ place = "coalesce" => CoalesceInv
  /\ AskedBytesServed /\ LengthIsTold

LEMMA InitRanges == RangesInit => RangesHold
<1> SUFFICES ASSUME RangesInit PROVE RangesHold
  OBVIOUS
<1>1. /\ request \in Requests /\ place = "header" /\ ranges = <<>> /\ rest = request.header
      /\ request.length \in Nat /\ request.header \in Seq(Item)
  BY RequestAssumption DEF RangesInit, Requests, Item, Pair
<1> DEFINE h == request.header  n == request.length
<1>2. Readable(ranges)
  BY <1>1 DEF Readable
<1>3. DOMAIN h = 1 .. Len(h)
  BY <1>1, LenProperties
<1>4. ASSUME NEW b \in Int
      PROVE  b \in BytesAsked(h, n) <=> AskedBy(ranges, n, b) \/ AskedBy(rest, n, b)
  <2>1. ~ AskedBy(ranges, n, b)
    BY <1>1 DEF AskedBy
  <2>2. b \in BytesAsked(h, n) <=> AskedBy(h, n, b)
    BY <1>3 DEF BytesAsked, AskedBy
  <2> QED
    BY <1>1, <2>1, <2>2
<1> QED
  BY <1>1, <1>2, <1>4 DEF RangesHold, HeaderInv, AskedBytesServed, LengthIsTold

(* A refusal says a length of none and has no body. *)
LEMMA RefuseKept ==
  ASSUME RangesHold, Refuse
  PROVE  RangesHold'
<1>1. answer' = Refused /\ place' = "answered" /\ request' = request
  BY DEF Refuse
<1>2. AskedBytesServed' /\ LengthIsTold'
  BY <1>1, LengthOfNone DEF AskedBytesServed, LengthIsTold, Refused
<1> QED
  BY <1>1, <1>2 DEF RangesHold

LEMMA ReadPartKept ==
  ASSUME RangesHold, ReadPart
  PROVE  RangesHold'
<1> DEFINE n == request.length  i == Head(rest)
<1>1. /\ place = "header" /\ place' = "header" /\ rest # <<>> /\ rest' = Tail(rest)
      /\ request' = request
      /\ \/ i = Gap /\ ranges' = ranges
         \/ i # Gap /\ ValidItem(i) /\ ranges' = Append(ranges, i)
  BY DEF ReadPart
<1>2. HeaderInv
  BY <1>1 DEF RangesHold
<1>3. /\ rest \in Seq(Item) /\ i \in Item /\ rest' \in Seq(Item) /\ Len(rest) = Len(rest') + 1
      /\ i = rest[1] /\ Len(rest') \in Nat
      /\ \A k \in 1 .. Len(rest') : rest'[k] = rest[k + 1]
  <2>1. rest \in Seq(Item) /\ i = rest[1]
    BY <1>1, <1>2 DEF HeaderInv
  <2> QED
    BY <1>1, <2>1, HeadTailProperties, LenProperties
<1>4. ranges \in Seq(Pair) /\ Len(ranges) \in Nat
  BY <1>2, LenProperties DEF HeaderInv, Readable
<1>5. \A b \in Int : AskedBy(rest, n, b) <=> (i # Gap /\ b \in Asked(i, n)) \/ AskedBy(rest', n, b)
  <2> SUFFICES ASSUME NEW b \in Int
               PROVE  AskedBy(rest, n, b) <=> (i # Gap /\ b \in Asked(i, n)) \/ AskedBy(rest', n, b)
    OBVIOUS
  <2> DEFINE Has(x) == x # Gap /\ b \in Asked(x, n)
  <2>1. ASSUME NEW k \in 1 .. Len(rest), Has(rest[k])
        PROVE  Has(i) \/ \E j \in 1 .. Len(rest') : Has(rest'[j])
    <3>1. CASE k = 1
      BY <1>3, <2>1, <3>1
    <3>2. CASE k # 1
      <4>1. k - 1 \in 1 .. Len(rest') /\ rest[k] = rest[(k - 1) + 1]
        BY <1>3, <3>2
      <4> QED
        BY <1>3, <2>1, <4>1
    <3> QED
      BY <3>1, <3>2
  <2>2. ASSUME NEW k \in 1 .. Len(rest'), Has(rest'[k])
        PROVE  \E j \in 1 .. Len(rest) : Has(rest[j])
    <3>1. k + 1 \in 1 .. Len(rest) /\ rest'[k] = rest[k + 1]
      BY <1>3
    <3> QED
      BY <2>2, <3>1
  <2>3. 1 \in 1 .. Len(rest)
    BY <1>3
  <2>4. AskedBy(rest, n, b) <=> \E k \in 1 .. Len(rest) : Has(rest[k])
    BY DEF AskedBy
  <2>5. AskedBy(rest', n, b) <=> \E k \in 1 .. Len(rest') : Has(rest'[k])
    BY DEF AskedBy
  <2> HIDE DEF Has
  <2>6. AskedBy(rest, n, b) <=> Has(i) \/ AskedBy(rest', n, b)
    BY <1>3, <2>1, <2>2, <2>3, <2>4, <2>5
  <2> QED
    BY <2>6 DEF Has
<1>6. CASE i = Gap /\ ranges' = ranges
  <2>1. HeaderInv'
    BY <1>1, <1>2, <1>3, <1>5, <1>6 DEF HeaderInv
  <2> QED
    BY <1>1, <2>1 DEF RangesHold, AskedBytesServed, LengthIsTold
<1>7. CASE i # Gap /\ ValidItem(i) /\ ranges' = Append(ranges, i)
  <2>1. i \in Pair
    BY <1>3, <1>7 DEF Item, ValidItem
  <2>2. /\ ranges' \in Seq(Pair) /\ Len(ranges') = Len(ranges) + 1
        /\ \A k \in 1 .. Len(ranges) : ranges'[k] = ranges[k]
        /\ ranges'[Len(ranges) + 1] = i
    BY <1>4, <1>7, <2>1
  <2>3. 1 .. Len(ranges') = 1 .. Len(ranges) \cup {Len(ranges) + 1}
    BY <1>4, <2>2
  <2>4. Readable(ranges')
    BY <1>2, <1>7, <2>2, <2>3 DEF HeaderInv, Readable
  <2>5. \A b \in Int : AskedBy(ranges', n, b) <=> AskedBy(ranges, n, b) \/ b \in Asked(i, n)
    BY <1>7, <2>2, <2>3 DEF AskedBy
  <2>6. request.header # <<>>
    BY <1>1, <1>2 DEF HeaderInv
  <2>7. HeaderInv'
    BY <1>1, <1>2, <1>3, <1>5, <1>7, <2>4, <2>5, <2>6 DEF HeaderInv
  <2> QED
    BY <1>1, <2>7 DEF RangesHold, AskedBytesServed, LengthIsTold
<1> QED
  BY <1>1, <1>6, <1>7

LEMMA EndHeaderKept ==
  ASSUME RangesHold, EndHeader
  PROVE  RangesHold'
<1>1. /\ place = "header" /\ place' = "handler" /\ rest = <<>> /\ rest' = rest /\ ranges' = ranges
      /\ request' = request /\ (request.header = <<>> \/ ranges # <<>>)
  BY DEF EndHeader
<1>2. HeaderInv
  BY <1>1 DEF RangesHold
<1>3. \A n, b : ~ AskedBy(<<>>, n, b)
  BY DEF AskedBy
<1>4. ReadInv'
  BY <1>1, <1>2, <1>3 DEF HeaderInv, ReadInv
<1> QED
  BY <1>1, <1>4 DEF RangesHold, AskedBytesServed, LengthIsTold

LEMMA HandleKept ==
  ASSUME RangesHold, Handle
  PROVE  RangesHold'
<1>1. /\ place = "handler" /\ place' = "ranges" /\ UNCHANGED <<request, ranges, rest>>
      /\ status' = IF request.set # Unset THEN request.set ELSE IF ranges = <<>> THEN 200 ELSE 206
  BY DEF Handle
<1>2. ReadInv
  BY <1>1 DEF RangesHold
<1>3. ReadInv' /\ status' = StatusSet'
  BY <1>1, <1>2 DEF ReadInv, StatusSet
<1> QED
  BY <1>1, <1>3 DEF RangesHold, AskedBytesServed, LengthIsTold

LEMMA LeaveRangesKept ==
  ASSUME RangesHold, LeaveRanges
  PROVE  RangesHold'
<1>1. /\ place = "ranges" /\ place' = "coalesce" /\ UNCHANGED <<request, ranges, rest, status>>
      /\ ~ (ranges # <<>> /\ status \in 200 .. 299)
  BY DEF LeaveRanges, Checked
<1>2. ReadInv /\ status = StatusSet
  BY <1>1 DEF RangesHold
<1>3. CoalesceInv'
  BY <1>1, <1>2 DEF ReadInv, CoalesceInv, StatusSet
<1> QED
  BY <1>1, <1>3 DEF RangesHold, AskedBytesServed, LengthIsTold

LEMMA AcceptRangesKept ==
  ASSUME RangesHold, AcceptRanges
  PROVE  RangesHold'
<1> DEFINE n == request.length  rs == Normal
<1>1. /\ place = "ranges" /\ place' = "coalesce" /\ request' = request /\ status' = status
      /\ ranges # <<>> /\ ~ RangeError(rs, n)
      /\ \/ Len(rs) <= 1 /\ ranges' = rs /\ rest' = rest
         \/ Len(rs) > 1 /\ ranges' = <<>> /\ rest' \in SortedByFirst(rs)
  <2>1. Len(rs) \in Nat
    <3>1. Readable(ranges)
      BY DEF AcceptRanges, RangesHold, ReadInv
    <3>2. rs = [k \in 1 .. Len(ranges) |-> Resolved(ranges[k], n)] /\ Len(ranges) \in Nat
      BY <3>1, LenProperties DEF Readable, Normal, Normalised
    <3> QED
      BY <3>2
  <2> QED
    BY <2>1 DEF AcceptRanges, Checked
<1>2. ReadInv /\ status = StatusSet /\ n \in Nat
  BY <1>1, RequestAssumption DEF RangesHold, Requests
<1>3. ranges \in Seq(Pair) /\ Len(ranges) \in Nat \ {0} /\ DOMAIN ranges = 1 .. Len(ranges)
  BY <1>1, <1>2, EmptySeq, LenProperties DEF ReadInv, Readable
<1>4. rs = [k \in 1 .. Len(ranges) |-> Resolved(ranges[k], n)]
  BY <1>3 DEF Normal, Normalised
<1>5. Len(rs) = Len(ranges) /\ DOMAIN rs = 1 .. Len(ranges)
  BY <1>3, <1>4
<1>6. Cardinality(Overlaps(rs)) <= 2
  <2>1. IsFiniteSet(1 .. Len(ranges)) /\ Overlaps(rs) \subseteq 1 .. Len(ranges)
    BY <1>3, <1>5, FS_Interval DEF Overlaps
  <2>2. Cardinality(Overlaps(rs)) \in Nat
    BY <2>1, FS_Subset, FS_CardinalityType
  <2> QED
    BY <1>1, <2>2 DEF RangeError
<1>7. \A k \in 1 .. Len(ranges) :
        /\ rs[k] = Resolved(ranges[k], n) /\ Within(rs[k], n)
        /\ ranges[k] \in Pair /\ ValidItem(ranges[k]) /\ ranges[k] # Gap
  BY <1>1, <1>2, <1>3, <1>4, <1>5, ElementOfSeq DEF RangeError, ReadInv, Readable
<1> HIDE DEF rs, n
<1>8. \A k \in 1 .. Len(ranges) :
        /\ rs[k] \in Span
        /\ \A b \in Int : b \in Asked(ranges[k], n) <=> rs[k][1] <= b /\ b <= rs[k][2]
  BY <1>2, <1>7, ResolvedAsks
<1>9. Proper(rs, n)
  <2>1. rs \in [1 .. Len(ranges) -> Span]
    BY <1>4, <1>7, <1>8
  <2>2. rs \in Seq(Span)
    BY <1>3, <2>1, SeqDef
  <2> QED
    BY <1>5, <1>7, <2>2 DEF Proper
<1>10. \A b \in Int : b \in BytesAsked(request.header, n) <=> InSome(rs, b)
  <2>1. \A b \in Int : AskedBy(ranges, n, b) <=> InSome(rs, b)
    BY <1>5, <1>7, <1>8 DEF AskedBy, InSome
  <2> QED
    BY <1>2, <2>1 DEF ReadInv, n
<1>11. \A b : ~ InSome(<<>>, b)
  BY DEF InSome
<1>12. Coalescing(ranges', rest', n)
       /\ \A b \in Int : InSome(rs, b) <=> InSome(ranges', b) \/ InSome(rest', b)
  <2>1. CASE Len(rs) <= 1 /\ ranges' = rs /\ rest' = rest
    <3>1. Len(rs) = 1 /\ rest = <<>>
      BY <1>2, <1>3, <1>5, <2>1 DEF ReadInv
    <3> QED
      BY <1>2, <1>6, <1>9, <1>11, <2>1, <3>1, Single
  <2>2. CASE Len(rs) > 1 /\ ranges' = <<>> /\ rest' \in SortedByFirst(rs)
    <3>1. Len(rs) > 0
      BY <1>3, <1>5
    <3> QED
      BY <1>2, <1>6, <1>9, <1>11, <2>2, <3>1, Sorted
  <2> QED
    BY <1>1, <2>1, <2>2
<1>13. CoalesceInv'
  <2>1. request.header # <<>>
    BY <1>1, <1>2 DEF ReadInv
  <2>2. status' = StatusSet'
    BY <1>1, <1>2 DEF StatusSet
  <2> QED
    BY <1>1, <1>10, <1>12, <2>1, <2>2 DEF CoalesceInv, n
<1> QED
  BY <1>1, <1>13 DEF RangesHold, AskedBytesServed, LengthIsTold

LEMMA CoalesceKept ==
  ASSUME RangesHold, Coalesce
  PROVE  RangesHold'
<1> DEFINE n == request.length
<1>1. /\ place = "coalesce" /\ place' = "coalesce" /\ request' = request /\ status' = status
      /\ rest # <<>> /\ ranges' = Merge(ranges, Head(rest)) /\ rest' = Tail(rest)
  BY DEF Coalesce
<1>2. CoalesceInv /\ n \in Nat
  BY <1>1, RequestAssumption DEF RangesHold, Requests
<1>3. /\ request.header # <<>> /\ Coalescing(ranges, rest, n)
      /\ \A b \in Int : b \in BytesAsked(request.header, n) <=> InSome(ranges, b) \/ InSome(rest, b)
  BY <1>1, <1>2 DEF CoalesceInv
<1>4. /\ Coalescing(ranges', rest', n)
      /\ \A b \in Int : InSome(ranges, b) \/ InSome(rest, b) <=> InSome(ranges', b) \/ InSome(rest', b)
  BY <1>1, <1>2, <1>3, CoalesceTurn
<1>5. CoalesceInv'
  BY <1>1, <1>2, <1>3, <1>4 DEF CoalesceInv, StatusSet
<1> QED
  BY <1>1, <1>5 DEF RangesHold, AskedBytesServed, LengthIsTold

------------------------------------------------------------------------------
(* A content that is not cut is sent once, and as long as it is. *)
LEMMA WholeIs ==
  ASSUME NEW n \in Nat
  PROVE  /\ LengthOf(Whole(n)) = n
         /\ \A b : TimesSent(Whole(n), b) <= 3 /\ TimesSent(<<>>, b) <= 3
<1>1. LengthOf(Whole(n)) = n
  <2> DEFINE p == Bytes(0, n)
  <2>1. p.length = n
    BY DEF Bytes
  <2> HIDE DEF p
  <2>2. LengthOf(<<p>>) = p.length
    BY <2>1, LengthOfOne
  <2> QED
    BY <2>1, <2>2 DEF Whole, p
<1>2. ASSUME NEW b PROVE TimesSent(Whole(n), b) <= 3
  <2> DEFINE J == {k \in DOMAIN Whole(n) : b \in Holds(Whole(n)[k])}
  <2>1. J \subseteq {1}
    BY DEF Whole
  <2>2. IsFiniteSet({1}) /\ Cardinality({1}) = 1
    BY FS_Singleton
  <2>3. Cardinality(J) <= 1 /\ Cardinality(J) \in Nat
    BY <2>1, <2>2, FS_Subset, FS_CardinalityType
  <2>4. TimesSent(Whole(n), b) = Cardinality(J)
    BY DEF TimesSent
  <2> HIDE DEF J
  <2> QED
    BY <2>3, <2>4
<1>3. ASSUME NEW b PROVE TimesSent(<<>>, b) <= 3
  <2>1. {k \in DOMAIN <<>> : b \in Holds(<<>>[k])} = {}
    OBVIOUS
  <2> QED
    BY <2>1, FS_EmptySet DEF TimesSent
<1> QED
  BY <1>1, <1>2, <1>3

LEMMA RespondKept ==
  ASSUME RangesHold, Respond
  PROVE  RangesHold'
<1> DEFINE n == request.length
           body == IF n = 0 THEN <<>> ELSE Written(ranges, n, status, request.by)
<1>1. /\ place = "coalesce" /\ place' = "answered" /\ request' = request /\ rest = <<>>
      /\ answer'.status = status
      /\ answer'.declared = Declared(ranges, n, status)
      /\ answer'.pieces = body
  BY DEF Respond
<1>2. CoalesceInv /\ n \in Nat /\ request.by \in {"body", "provider"}
  BY <1>1, RequestAssumption DEF RangesHold, Requests
<1>3. status = StatusSet
  BY <1>2 DEF CoalesceInv
<1>4. CASE request.header = <<>> /\ ranges = <<>>
  <2>1. Pieces(ranges, n) = Whole(n)
    BY <1>4 DEF Pieces
  <2>2. (body = <<>> /\ n = 0) \/ body = Whole(n)
    BY <2>1 DEF Written
  <2>3. Declared(ranges, n, status) = n /\ LengthOf(body) = n
    BY <1>2, <2>1, <2>2, WholeIs, LengthOfNone DEF Declared
  <2>4. \A b : TimesSent(body, b) <= 3
    BY <1>2, <2>2, WholeIs
  <2> HIDE DEF body
  <2> QED
    BY <1>1, <1>4, <2>3, <2>4 DEF RangesHold, AskedBytesServed, LengthIsTold
<1>5. CASE request.header # <<>> /\ status \notin 200 .. 299
  <2>1. status # 206
    BY <1>5
  <2>a. request.set \in Int
    <3>1. request.set \in Statuses
      BY DEF RangesHold, Requests
    <3>2. request.set \in Nat \cup {-1}
      BY <3>1, RequestAssumption DEF Unset
    <3> QED
      BY <3>2
  <2>b. request.set \notin {Unset, 206}
    BY <1>3, <1>5, <2>1, <2>a DEF StatusSet, Unset
  <2>2. Declared(ranges, n, status) = n
    BY <2>1 DEF Declared
  <2>3. request.by = "body" => LengthOf(body) = n
    BY <1>2, <2>1, WholeIs, LengthOfNone DEF Written
  <2> HIDE DEF body
  <2> QED
    BY <1>1, <1>5, <2>1, <2>2, <2>3, <2>b DEF RangesHold, AskedBytesServed, LengthIsTold
<1>6. CASE /\ request.header # <<>> /\ Coalescing(ranges, <<>>, n)
           /\ \A b \in Int : b \in BytesAsked(request.header, n) <=> InSome(ranges, b) \/ InSome(<<>>, b)
  <2>1. ranges \in Seq(Span) /\ Len(ranges) > 0 /\ Len(ranges) \in Nat
    BY <1>6, LenProperties DEF Coalescing, Proper
  <2>2. n # 0 /\ ranges # <<>>
    <3>1. 1 \in 1 .. Len(ranges)
      BY <2>1
    <3>2. Within(ranges[1], n) /\ ranges[1] \in Span
      BY <1>6, <2>1, <3>1, ElementOfSeq DEF Coalescing, Proper
    <3> QED
      BY <1>2, <2>1, <3>2 DEF Within, Span
  <2>3. body = IF request.by = "body" /\ status # 206 THEN Whole(n) ELSE Pieces(ranges, n)
    BY <2>2 DEF Written
  <2>4. \A b : TimesSent(body, b) <= 3
    <3>1. \A b : TimesSent(Pieces(ranges, n), b) <= 3
      BY <1>2, <1>6, <2>2, FewTimes
    <3> QED
      BY <1>2, <2>3, <3>1, WholeIs
  <2>5. status = 206 => Sent(body) = BytesAsked(request.header, n)
    <3> SUFFICES ASSUME status = 206 PROVE Sent(body) = BytesAsked(request.header, n)
      OBVIOUS
    <3>1. body = Pieces(ranges, n)
      BY <2>3
    <3>2. \A b : b \in BytesAsked(request.header, n) => b \in Int
      BY <1>2 DEF BytesAsked, Asked
    <3>3. \A b : b \in Sent(Pieces(ranges, n)) <=> b \in Int /\ InSome(ranges, b)
      BY <2>1, <2>2, SentIs
    <3>4. \A b : ~ InSome(<<>>, b)
      BY DEF InSome
    <3> QED
      BY <1>6, <3>1, <3>2, <3>3, <3>4
  <2>6. request.by = "body" \/ request.set \in {Unset, 206} =>
          Declared(ranges, n, status) = LengthOf(body)
    <3>1. CASE status = 206
      BY <2>3, <3>1 DEF Declared
    <3>2. CASE status # 206 /\ request.by = "body"
      BY <1>2, <2>3, <3>2, WholeIs DEF Declared
    <3>3. status # 206 => request.set \notin {Unset, 206}
      BY <1>3, <1>6 DEF StatusSet
    <3> QED
      BY <3>1, <3>2, <3>3
  <2> HIDE DEF body
  <2> QED
    BY <1>1, <1>6, <2>4, <2>5, <2>6 DEF RangesHold, AskedBytesServed, LengthIsTold
<1> QED
  BY <1>1, <1>2, <1>4, <1>5, <1>6 DEF CoalesceInv

LEMMA NextRanges == RangesHold /\ [RangesNext]_rangesVars => RangesHold'
<1> SUFFICES ASSUME RangesHold, [RangesNext]_rangesVars PROVE RangesHold'
  OBVIOUS
<1>1. CASE RejectHeader \/ RejectRanges
  BY <1>1, RefuseKept DEF RejectHeader, RejectRanges
<1>2. CASE UNCHANGED rangesVars
  BY <1>2 DEF rangesVars, RangesHold, HeaderInv, ReadInv, CoalesceInv, StatusSet, AskedBytesServed,
              LengthIsTold
<1> QED
  BY <1>1, <1>2, ReadPartKept, EndHeaderKept, HandleKept, LeaveRangesKept, AcceptRangesKept,
     CoalesceKept, RespondKept DEF RangesNext

THEOREM RangesInv == RangesSpec => []RangesHold
BY InitRanges, NextRanges, PTL DEF RangesSpec

(* For all headers, contents and statuses: a partial answer has exactly    *)
(* the bytes asked for, and no successful answer has one more than three   *)
(* times.                                                                  *)
THEOREM AskedAreServed == RangesSpec => []AskedBytesServed
<1>1. RangesHold => AskedBytesServed
  BY DEF RangesHold
<1> QED
  BY <1>1, RangesInv, PTL

(* For all headers and contents: the length declared is that of the body.  *)
THEOREM LengthsAreTold == RangesSpec => []LengthIsTold
<1>1. RangesHold => LengthIsTold
  BY DEF RangesHold
<1> QED
  BY <1>1, RangesInv, PTL

------------------------------------------------------------------------------
(*****************************************************************************)
(* Files of mounted directories                                              *)
(*****************************************************************************)
LEMMA LeastExists ==
  ASSUME NEW n \in Nat, NEW X \in SUBSET (1 .. n), X # {}
  PROVE  \E m \in X : \A y \in X : m <= y
<1> DEFINE UpTo(j) == {i \in X : i <= j}
           F == {UpTo(j) : j \in X}
<1>1. IsWellFoundedOn(StrictSubsetOrdering(X), SUBSET X)
  <2>1. IsFiniteSet(X)
    <3>1. IsFiniteSet(1 .. n)
      BY FS_Interval
    <3>2. QED BY <3>1, FS_Subset
  <2>2. FiniteSubsetsOf(X) = SUBSET X
    BY <2>1, FS_FiniteSubsetsOfFinite
  <2>3. QED BY <2>2, FS_StrictSubsetOrderingWellFounded
<1>2. F \subseteq SUBSET X /\ F # {}
  OBVIOUS
<1>3. PICK T \in F : \A U \in F : ~ (<<U, T>> \in StrictSubsetOrdering(X))
  <2> HIDE DEF F
  <2>1. QED BY <1>1, <1>2, WFMin
<1>4. PICK m \in X : T = UpTo(m)
  OBVIOUS
<1>5. ASSUME NEW y \in X, ~ (m <= y) PROVE FALSE
  <2>1. y < m /\ y \in Int /\ m \in Int
    BY <1>5
  <2>2. (\A i \in X : i <= y => i <= m) /\ ~ (m <= y) /\ m <= m
    BY <2>1
  <2>5. UpTo(y) \subseteq UpTo(m) /\ m \notin UpTo(y) /\ m \in UpTo(m)
    BY <2>2
  <2>3. <<UpTo(y), UpTo(m)>> \in StrictSubsetOrdering(X)
    BY <2>5 DEF StrictSubsetOrdering
  <2>4. QED BY <1>3, <1>4, <2>3
<1>6. QED BY <1>5

LEMMA DivideType ==
  ASSUME NEW S, NEW s \in Seq(S), NEW d
  PROVE  Divide(s, d)[1] \in Seq(S)
<1> DEFINE found == {k \in DOMAIN s : s[k] = d}
           first == CHOOSE k \in found : \A j \in found : k <= j
<1>1. DOMAIN s = 1 .. Len(s) /\ Len(s) \in Nat
  BY LenProperties
<1>2. CASE found = {}
  BY <1>2 DEF Divide
<1>3. CASE found # {}
  <2>1. \E k \in found : \A j \in found : k <= j
    <3>1. found \in SUBSET (1 .. Len(s))
      BY <1>1
    <3>2. QED BY <1>1, <1>3, <3>1, LeastExists
  <2>2. first \in 1 .. Len(s)
    BY <1>1, <2>1
  <2>3. Divide(s, d)[1] = SubSeq(s, 1, first - 1)
    BY <1>3 DEF Divide
  <2>4. \A i \in 1 .. first - 1 : s[i] \in S
    BY <2>2, ElementOfSeq
  <2> HIDE DEF first
  <2>5. QED BY <2>2, <2>3, <2>4, SubSeqProperties
<1>4. QED BY <1>2, <1>3

LEMMA CodedType ==
  ASSUME target \in Seq(Int)
  PROVE  Coded \in Seq(Int)
BY DivideType DEF Coded

LEMMA HexType ==
  ASSUME NEW c \in Int
  PROVE  HexValue(c) \in Int
BY DEF HexValue

LEMMA FromHexType ==
  ASSUME NEW s \in Seq(Int), NEW k \in Nat \ {0}, NEW cnt \in {2, 4}
  PROVE  /\ FromHex(s, k, cnt) \in Int
         /\ FromHex(s, k, cnt) # -1 => k + cnt - 1 <= Len(s)
<1> DEFINE none == k + cnt - 1 > Len(s) \/ \E j \in 0 .. cnt - 1 : ~ IsHex(s[k + j])
           two == 16 * HexValue(s[k]) + HexValue(s[k + 1])
           four == 4096 * HexValue(s[k]) + 256 * HexValue(s[k + 1])
                     + 16 * HexValue(s[k + 2]) + HexValue(s[k + 3])
<1>1. FromHex(s, k, cnt) = IF none THEN -1 ELSE IF cnt = 2 THEN two ELSE four
  <2>1. k + 0 = k
    OBVIOUS
  <2>2. QED BY <2>1 DEF FromHex
<1>2. CASE none
  <2>1. FromHex(s, k, cnt) = -1
    BY <1>1, <1>2
  <2>2. QED BY <2>1
<1>3. CASE ~ none
  <2>1. k + cnt - 1 <= Len(s)
    BY <1>3, LenProperties
  <2>2. \A j \in 0 .. cnt - 1 : s[k + j] \in Int
    <3>1. SUFFICES ASSUME NEW j \in 0 .. cnt - 1 PROVE k + j \in 1 .. Len(s)
      BY ElementOfSeq
    <3>2. QED BY <2>1, LenProperties
  <2>3. \A j \in 0 .. cnt - 1 : HexValue(s[k + j]) \in Int
    BY <2>2, HexType
  <2>4. HexValue(s[k]) \in Int /\ HexValue(s[k + 1]) \in Int
    BY <2>3
  <2>5. cnt = 4 => HexValue(s[k + 2]) \in Int /\ HexValue(s[k + 3]) \in Int
    BY <2>3
  <2>6. FromHex(s, k, cnt) = IF cnt = 2 THEN two ELSE four
    BY <1>1, <1>3
  <2>9. \A a, b \in Int : 16 * a + b \in Int
    OBVIOUS
  <2>11. two \in Int
    BY <2>4, <2>9, Zenon
  <2>12. ASSUME cnt = 4 PROVE four \in Int
    <3>1. PICK a \in Int : a = HexValue(s[k])
      BY <2>4
    <3>2. PICK b \in Int : b = HexValue(s[k + 1])
      BY <2>4
    <3>3. PICK c \in Int : c = HexValue(s[k + 2])
      BY <2>5, <2>12
    <3>4. PICK d \in Int : d = HexValue(s[k + 3])
      BY <2>5, <2>12
    <3>5. four = 4096 * a + 256 * b + 16 * c + d
      BY <3>1, <3>2, <3>3, <3>4
    <3>6. 4096 * a + 256 * b + 16 * c + d \in Int
      OBVIOUS
    <3> HIDE DEF four
    <3>7. QED BY <3>5, <3>6
  <2>7. two \in Int /\ (cnt = 4 => four \in Int)
    BY <2>11, <2>12
  <2> HIDE DEF two, four
  <2>8. QED BY <2>1, <2>6, <2>7
<1>4. QED BY <1>2, <1>3

LEMMA Utf8Type ==
  ASSUME NEW code \in Int
  PROVE  Utf8(code) \in Seq(Int)
<1>1. /\ code \div 64 \in Int /\ code % 64 \in Int
      /\ code \div 4096 \in Int /\ (code \div 64) % 64 \in Int
  OBVIOUS
<1>2. \A a, b, c \in Int : <<a>> \in Seq(Int) /\ <<a, b>> \in Seq(Int) /\ <<a, b, c>> \in Seq(Int)
  OBVIOUS
<1>3. <<>> \in Seq(Int)
  OBVIOUS
<1>4. /\ <<192 + code \div 64, 128 + (code % 64)>> \in Seq(Int)
      /\ <<224 + code \div 4096, 128 + ((code \div 64) % 64), 128 + (code % 64)>> \in Seq(Int)
      /\ <<code>> \in Seq(Int)
  BY <1>1, <1>2
<1>5. QED BY <1>3, <1>4 DEF Utf8

(* What one step of decode_path_component reads and where it goes on.      *)
LEMMA PathCodeType ==
  ASSUME NEW s \in Seq(Int), NEW i \in 1 .. Len(s)
  PROVE  /\ PathCode(s, i).bytes \in Seq(Int)
         /\ PathCode(s, i).next \in Nat \ {0}
<1>1. s[i] \in Int /\ i \in Nat \ {0}
  BY ElementOfSeq, LenProperties
<1>2. FromHex(s, i + 1, 2) \in Int /\ FromHex(s, i + 2, 4) \in Int
  BY <1>1, FromHexType
<1>3. Utf8(FromHex(s, i + 2, 4)) \in Seq(Int)
  BY <1>2, Utf8Type
<1>4. /\ UriCode(s, i).bytes \in Seq(Int)
      /\ UriCode(s, i).next \in Nat \ {0}
  BY <1>1, <1>2 DEF UriCode, Byte
<1> DEFINE unicode == s[i] = Percent /\ i < Len(s) /\ s[i + 1] = LetterU /\ FromHex(s, i + 2, 4) # -1
<1>5. PathCode(s, i) = IF unicode THEN [bytes |-> Utf8(FromHex(s, i + 2, 4)), next |-> i + 6]
                       ELSE UriCode(s, i)
  BY DEF PathCode
<1> HIDE DEF unicode
<1>6. QED BY <1>1, <1>3, <1>4, <1>5

------------------------------------------------------------------------------
(* The way of is_valid_path through a text, up to a place: where its steps *)
(* were and at which level.                                                *)
Way(text, passed, end, l) ==
  /\ passed \subseteq (Nat \ {0}) \X Nat
  /\ <<1, 0>> \in passed /\ <<end, l>> \in passed
  /\ end <= Len(text) + 1
  /\ \A j \in 1 .. end - 1 : text[j] # 0
  /\ \A p \in passed : p[1] <= end /\ (p[1] = end => p[2] = l)
  /\ \A p \in passed : p[1] < end =>
       /\ text[p[1]] = Slash => <<p[1] + 1, p[2]>> \in passed
       /\ \A k \in Nat : EndsAt(text, p[1], k, {Slash}) =>
            <<k, Below(SubSeq(text, p[1], k - 1), p[2])>> \in passed

(* A component ends in one place. *)
LEMMA OneEnd ==
  ASSUME NEW text \in Seq(Int), NEW i \in Nat \ {0}, NEW k, NEW m, NEW stops,
         EndsAt(text, i, k, stops), EndsAt(text, i, m, stops)
  PROVE  k = m
<1>1. DOMAIN text = 1 .. Len(text) /\ Len(text) \in Nat
  BY LenProperties
<1>2. k \in i + 1 .. Len(text) + 1 /\ m \in i + 1 .. Len(text) + 1
  BY DEF EndsAt
<1>3. ASSUME k < m PROVE FALSE
  <2>1. k \in DOMAIN text /\ k \in i .. m - 1
    BY <1>1, <1>2, <1>3
  <2>2. QED BY <2>1 DEF EndsAt
<1>4. ASSUME m < k PROVE FALSE
  <2>1. m \in DOMAIN text /\ m \in i .. k - 1
    BY <1>1, <1>2, <1>4
  <2>2. QED BY <2>1 DEF EndsAt
<1>5. QED BY <1>1, <1>2, <1>3, <1>4

LEMMA WayBegins ==
  ASSUME NEW text \in Seq(Int)
  PROVE  Way(text, {<<1, 0>>}, 1, 0)
BY LenProperties DEF Way

LEMMA WayOverSlash ==
  ASSUME NEW text \in Seq(Int), NEW passed, NEW end \in Nat \ {0}, NEW l \in Nat,
         Way(text, passed, end, l), end <= Len(text), text[end] = Slash
  PROVE  Way(text, passed \cup {<<end + 1, l>>}, end + 1, l)
<1> DEFINE new == passed \cup {<<end + 1, l>>}
<1>1. Len(text) \in Nat
  BY LenProperties
<1>2. ASSUME NEW p \in new, p[1] < end + 1
      PROVE  /\ text[p[1]] = Slash => <<p[1] + 1, p[2]>> \in new
             /\ \A k \in Nat : EndsAt(text, p[1], k, {Slash}) =>
                  <<k, Below(SubSeq(text, p[1], k - 1), p[2])>> \in new
  <2>1. p \in passed /\ p[1] \in Nat \ {0}
    BY <1>2 DEF Way
  <2>2. CASE p[1] = end
    <3>1. p[2] = l
      BY <2>1, <2>2 DEF Way
    <3>2. ASSUME NEW k \in Nat, EndsAt(text, p[1], k, {Slash}) PROVE FALSE
      BY <2>2, <3>2 DEF EndsAt
    <3>3. QED BY <2>2, <3>1, <3>2
  <2>3. CASE p[1] < end
    BY <2>1, <2>3 DEF Way
  <2>4. p[1] <= end
    BY <2>1 DEF Way
  <2>5. p[1] = end \/ p[1] < end
    BY <2>1, <2>4
  <2> HIDE DEF new
  <2>6. QED BY <2>2, <2>3, <2>5
<1>3. \A j \in 1 .. (end + 1) - 1 : text[j] # 0
  <2>1. Slash # 0
    BY DEF Slash
  <2>2. QED BY <2>1 DEF Way
<1>4. \A p \in new : p[1] <= end + 1 /\ (p[1] = end + 1 => p[2] = l)
  BY DEF Way
<1>5. new \subseteq (Nat \ {0}) \X Nat /\ <<1, 0>> \in new /\ <<end + 1, l>> \in new
  BY DEF Way
<1>6. end + 1 <= Len(text) + 1
  BY <1>1
<1> HIDE DEF new
<1>8. Way(text, new, end + 1, l)
  BY <1>2, <1>3, <1>4, <1>5, <1>6, Zenon DEF Way
<1>7. QED BY <1>8 DEF new

LEMMA WayOverComponent ==
  ASSUME NEW text \in Seq(Int), NEW passed, NEW end \in Nat \ {0}, NEW l \in Nat,
         Way(text, passed, end, l), NEW k \in end + 1 .. Len(text) + 1,
         EndsAt(text, end, k, {Slash}),
         ~ Forbidden(SubSeq(text, end, k - 1)), ~ Leaves(SubSeq(text, end, k - 1), l)
  PROVE  /\ Below(SubSeq(text, end, k - 1), l) \in Nat
         /\ \E more : Way(text, more, k, Below(SubSeq(text, end, k - 1), l))
<1> DEFINE part == SubSeq(text, end, k - 1)
           next == Below(part, l)
           new == passed \cup {<<k, next>>}
<1>1. Len(text) \in Nat /\ k \in Nat \ {0} /\ end < k
  BY LenProperties
<1>2. next \in Nat
  BY DEF Leaves, Below
<1>3. ASSUME NEW p \in new, p[1] < k
      PROVE  /\ text[p[1]] = Slash => <<p[1] + 1, p[2]>> \in new
             /\ \A m \in Nat : EndsAt(text, p[1], m, {Slash}) =>
                  <<m, Below(SubSeq(text, p[1], m - 1), p[2])>> \in new
  <2>1. p \in passed /\ p[1] \in Nat \ {0} /\ p[1] <= end
    BY <1>1, <1>3 DEF Way
  <2>2. CASE p[1] = end
    <3>1. p[2] = l
      BY <2>1, <2>2 DEF Way
    <3>2. text[end] # Slash
      BY <1>1 DEF EndsAt
    <3>3. ASSUME NEW m \in Nat, EndsAt(text, p[1], m, {Slash}) PROVE m = k
      BY <2>2, <3>3, OneEnd
    <3>4. QED BY <2>2, <3>1, <3>2, <3>3
  <2>3. CASE p[1] < end
    BY <2>1, <2>3 DEF Way
  <2>4. p[1] = end \/ p[1] < end
    BY <2>1
  <2> HIDE DEF new, next
  <2>5. QED BY <2>2, <2>3, <2>4
<1>4. \A j \in 1 .. k - 1 : text[j] # 0
  <2>1. SUFFICES ASSUME NEW j \in end .. k - 1 PROVE text[j] # 0
    BY <1>1 DEF Way
  <2>2. \A i \in end .. k - 1 : text[i] \in Int
    BY <1>1, ElementOfSeq
  <2>3. /\ DOMAIN part = 1 .. k - end
        /\ part[j - end + 1] = text[j]
    <3>1. /\ part \in Seq(Int) /\ Len(part) = k - end
          /\ \A i \in 1 .. (k - 1) - end + 1 : part[i] = text[end + i - 1]
      BY <1>1, <2>2, SubSeqProperties
    <3>2. j - end + 1 \in 1 .. (k - 1) - end + 1 /\ end + (j - end + 1) - 1 = j
      BY <1>1
    <3>3. QED BY <3>1, <3>2, LenProperties
  <2>6. j - end + 1 \in DOMAIN part
    <3>1. j - end + 1 \in 1 .. k - end
      BY <1>1
    <3>2. QED BY <2>3, <3>1, Zenon
  <2>4. part[j - end + 1] # 0
    <3> HIDE DEF part
    <3>1. ~ Forbidden(part)
      BY DEF part
    <3>2. QED BY <2>6, <3>1 DEF Forbidden
  <2>5. QED BY <2>3, <2>4
<1>5. \A p \in new : p[1] <= k /\ (p[1] = k => p[2] = next)
  BY <1>1 DEF Way
<1>6. new \subseteq (Nat \ {0}) \X Nat /\ <<1, 0>> \in new /\ <<k, next>> \in new
  BY <1>1, <1>2 DEF Way
<1>9. k <= Len(text) + 1
  BY <1>1
<1> HIDE DEF new, next
<1>7. Way(text, new, k, next)
  BY <1>3, <1>4, <1>5, <1>6, <1>9, Zenon DEF Way
<1>8. QED BY <1>2, <1>7 DEF next

------------------------------------------------------------------------------
FilesType ==
  /\ target \in Seq(Int)
  /\ stage \in {"decode", "mounts", "check", "open", "answered", "unrouted"}
  /\ path \in Seq(Int)
  /\ at \in Nat \ {0}
  /\ entry \in Nat \ {0}
  /\ subPath \in Seq(Int)
  /\ level \in Nat
  /\ file \in Seq(Int)

(* While the path is checked, it has a way to where the check is.  When it *)
(* is opened, it has one to its end, and the system is on it, or has also  *)
(* read the name of the index file.                                        *)
CheckInv == subPath # <<>> /\ \E passed : Way(subPath, passed, at, level)

FileIs(index) == file = IF index THEN subPath \o IndexHtml ELSE subPath
OpenInv ==
  /\ depth \in Nat
  /\ \E passed : \E index \in BOOLEAN :
       /\ Way(subPath, passed, Len(subPath) + 1, level)
       /\ FileIs(index)
       /\ index => subPath # <<>> /\ subPath[Len(subPath)] = Slash
       /\ <<at, depth>> \in passed \/ at = Len(file) + 1

FilesInv ==
  /\ FilesType
  /\ stage = "check" => CheckInv
  /\ stage = "open" => OpenInv
  /\ stage = "answered" => depth \in Nat

LEMMA RestType ==
  ASSUME NEW s \in Seq(Int), NEW k \in Nat \ {0}
  PROVE  Rest(s, k) \in Seq(Int)
<1>1. Len(s) \in Nat
  BY LenProperties
<1>2. \A i \in k .. Len(s) : s[i] \in Int
  BY <1>1, ElementOfSeq
<1>3. QED BY <1>1, <1>2, SubSeqProperties DEF Rest

LEMMA InitFiles == FilesInit => FilesInv
<1>1. ASSUME NEW s \in Seq(0 .. 255) PROVE s \in Seq(Int)
  <2>1. 0 .. 255 \subseteq Int
    OBVIOUS
  <2>2. QED BY <2>1, SeqMonotonic, Zenon
<1>2. FilesInit => target \in Seq(Int)
  BY <1>1, FilesAssumption DEF FilesInit
<1>3. QED BY <1>2 DEF FilesInit, FilesInv, FilesType

LEMMA DecodeTargetKept == FilesInv /\ DecodeTarget => FilesInv'
<1> SUFFICES ASSUME FilesInv, DecodeTarget PROVE FilesInv'
  OBVIOUS
<1>1. Coded \in Seq(Int)
  BY CodedType DEF FilesInv, FilesType
<1>2. at \in 1 .. Len(Coded)
  BY <1>1, LenProperties DEF FilesInv, FilesType, DecodeTarget
<1>3. path' \in Seq(Int) /\ at' \in Nat \ {0}
  <2>1. PathCode(Coded, at).bytes \in Seq(Int) /\ PathCode(Coded, at).next \in Nat \ {0}
    BY <1>1, <1>2, PathCodeType
  <2>2. QED BY <2>1, ConcatProperties DEF FilesInv, FilesType, DecodeTarget
<1>4. stage' = "decode"
  BY DEF DecodeTarget
<1>5. QED BY <1>3, <1>4 DEF FilesInv, FilesType, DecodeTarget

LEMMA NextMountKept == FilesInv /\ NextMount => FilesInv'
BY DEF FilesInv, FilesType, NextMount

LEMMA EnterMountKept == FilesInv /\ EnterMount => FilesInv'
<1> SUFFICES ASSUME FilesInv, EnterMount PROVE FilesInv'
  OBVIOUS
<1> DEFINE mount == MountPoints[entry]
<1>1. Len(mount) + 1 \in Nat \ {0}
  <2>1. entry \in 1 .. Len(MountPoints)
    BY FilesAssumption, LenProperties DEF FilesInv, FilesType, EnterMount
  <2>2. mount \in Seq(0 .. 255)
    BY <2>1, FilesAssumption, ElementOfSeq
  <2>3. QED BY <2>2, LenProperties
<1>2. subPath' \in Seq(Int)
  <2>1. Rest(path, Len(mount) + 1) \in Seq(Int)
    BY <1>1, RestType DEF FilesInv, FilesType
  <2>2. <<Slash>> \in Seq(Int)
    BY DEF Slash
  <2>3. QED BY <2>1, <2>2, ConcatProperties DEF EnterMount
<1>3. Way(subPath', {<<1, 0>>}, at', level')
  BY <1>2, WayBegins DEF EnterMount
<1>7. subPath' # <<>>
  <2>1. Rest(path, Len(mount) + 1) \in Seq(Int)
    BY <1>1, RestType DEF FilesInv, FilesType
  <2>2. <<Slash>> \in Seq(Int) /\ Len(<<Slash>>) = 1
    BY DEF Slash
  <2>3. Len(subPath') = 1 + Len(Rest(path, Len(mount) + 1))
    BY <2>1, <2>2, ConcatProperties DEF EnterMount
  <2>4. Len(Rest(path, Len(mount) + 1)) \in Nat
    BY <2>1, LenProperties
  <2>5. QED BY <2>3, <2>4
<1>4. CheckInv'
  BY <1>3, <1>7 DEF CheckInv
<1>5. stage' = "check" /\ FilesType'
  BY <1>2 DEF FilesInv, FilesType, EnterMount
<1>6. QED BY <1>4, <1>5 DEF FilesInv

LEMMA SkipSlashKept == FilesInv /\ SkipSlash => FilesInv'
<1> SUFFICES ASSUME FilesInv, SkipSlash PROVE FilesInv'
  OBVIOUS
<1>1. PICK passed : Way(subPath, passed, at, level)
  BY DEF FilesInv, SkipSlash, CheckInv
<1>2. Way(subPath, passed \cup {<<at + 1, level>>}, at + 1, level)
  BY <1>1, WayOverSlash DEF FilesInv, FilesType, SkipSlash
<1>3. CheckInv'
  BY <1>2 DEF CheckInv, SkipSlash, FilesInv
<1>4. stage' = "check" /\ FilesType'
  BY DEF FilesInv, FilesType, SkipSlash
<1>5. QED BY <1>3, <1>4 DEF FilesInv

LEMMA ReadComponentKept == FilesInv /\ ReadComponent => FilesInv'
<1> SUFFICES ASSUME FilesInv, ReadComponent PROVE FilesInv'
  OBVIOUS
<1>1. PICK passed : Way(subPath, passed, at, level)
  BY DEF FilesInv, ReadComponent, CheckInv
<1>2. PICK k \in at + 1 .. Len(subPath) + 1 :
        /\ EndsAt(subPath, at, k, {Slash})
        /\ ~ Forbidden(SubSeq(subPath, at, k - 1)) /\ ~ Leaves(SubSeq(subPath, at, k - 1), level)
        /\ level' = Below(SubSeq(subPath, at, k - 1), level)
        /\ at' = k
  BY DEF ReadComponent
<1>3. level' \in Nat /\ \E more : Way(subPath, more, at', level')
  BY <1>1, <1>2, WayOverComponent DEF FilesInv, FilesType
<1>4. CheckInv'
  BY <1>3 DEF CheckInv, ReadComponent, FilesInv
<1>5. at' \in Nat \ {0}
  BY <1>2, LenProperties DEF FilesInv, FilesType
<1>6. stage' = "check" /\ FilesType'
  BY <1>3, <1>5 DEF FilesInv, FilesType, ReadComponent
<1>7. QED BY <1>4, <1>6 DEF FilesInv

LEMMA AcceptPathKept == FilesInv /\ AcceptPath => FilesInv'
<1> SUFFICES ASSUME FilesInv, AcceptPath PROVE FilesInv'
  OBVIOUS
<1>1. PICK passed : Way(subPath, passed, at, level)
  BY DEF FilesInv, AcceptPath, CheckInv
<1>2. at = Len(subPath) + 1
  BY <1>1, LenProperties DEF FilesInv, FilesType, AcceptPath, Way
<1>12. PICK index \in BOOLEAN : index = (Last(subPath) = Slash)
  OBVIOUS
<1>3. FileIs(index)'
  BY <1>12 DEF AcceptPath, FileIs
<1>4. file' \in Seq(Int)
  <2>1. IndexHtml \in Seq(Int)
    BY DEF IndexHtml, Dot
  <2>2. subPath \o IndexHtml \in Seq(Int)
    BY <2>1, ConcatProperties DEF FilesInv, FilesType
  <2>3. QED BY <2>2 DEF FilesInv, FilesType, AcceptPath
<1>5. index => subPath # <<>> /\ subPath[Len(subPath)] = Slash
  BY <1>12 DEF FilesInv, AcceptPath, CheckInv, Last
<1>6. Way(subPath, passed, Len(subPath) + 1, level) /\ <<1, 0>> \in passed
  BY <1>1, <1>2 DEF Way
<1>7. subPath' = subPath /\ level' = level /\ at' = 1 /\ depth' = 0 /\ stage' = "open"
  BY DEF AcceptPath
<1>9. OpenInv'
  <2>1. depth' \in Nat
    BY <1>7
  <2>2. /\ Way(subPath', passed, Len(subPath') + 1, level')
        /\ index => subPath' # <<>> /\ subPath'[Len(subPath')] = Slash
        /\ <<at', depth'>> \in passed \/ at' = Len(file') + 1
    BY <1>5, <1>6, <1>7
  <2>4. FileIs(index)' /\ index \in BOOLEAN
    BY <1>3
  <2>3. QED BY <2>1, <2>2, <2>4, Zenon DEF OpenInv
<1>10. FilesType'
  BY <1>4, <1>7 DEF FilesInv, FilesType, AcceptPath
<1>11. QED BY <1>7, <1>9, <1>10 DEF FilesInv

------------------------------------------------------------------------------
(* The name that is opened goes beyond the path by the index file only.    *)
LEMMA FileParts ==
  ASSUME subPath \in Seq(Int), NEW index \in BOOLEAN, FileIs(index)
  PROVE  /\ Len(subPath) \in Nat /\ Len(file) \in Nat
         /\ Len(file) = IF index THEN Len(subPath) + 10 ELSE Len(subPath)
         /\ file \in Seq(Int) /\ DOMAIN file = 1 .. Len(file)
         /\ \A j \in 1 .. Len(subPath) : file[j] = subPath[j]
         /\ index => file[Len(subPath) + 1] = 105
         /\ \A j \in Len(subPath) + 1 .. Len(file) : file[j] \notin {Slash, 0}
<1>1. Len(subPath) \in Nat
  BY LenProperties
<1>2. CASE ~ index
  BY <1>1, <1>2, LenProperties DEF FileIs
<1>3. CASE index
  <2>1. /\ IndexHtml \in Seq(Int) /\ Len(IndexHtml) = 10
        /\ IndexHtml[1] = 105
        /\ \A j \in 1 .. 10 : IndexHtml[j] \notin {Slash, 0}
    BY DEF IndexHtml, Dot, Slash
  <2>2. /\ file \in Seq(Int) /\ Len(file) = Len(subPath) + 10
        /\ \A j \in 1 .. Len(subPath) + 10 :
             file[j] = IF j <= Len(subPath) THEN subPath[j] ELSE IndexHtml[j - Len(subPath)]
    <3>1. file = subPath \o IndexHtml
      BY <1>3 DEF FileIs
    <3>2. /\ subPath \o IndexHtml \in Seq(Int)
          /\ Len(subPath \o IndexHtml) = Len(subPath) + Len(IndexHtml)
          /\ \A j \in 1 .. Len(subPath) + Len(IndexHtml) : (subPath \o IndexHtml)[j] =
               IF j <= Len(subPath) THEN subPath[j] ELSE IndexHtml[j - Len(subPath)]
      <4>1. subPath \in Seq(Int) /\ IndexHtml \in Seq(Int)
        BY <2>1
      <4>2. QED BY <4>1, ConcatProperties
    <3>3. QED BY <2>1, <3>1, <3>2, Zenon
  <2>3. ASSUME NEW j \in Len(subPath) + 1 .. Len(file) PROVE file[j] \notin {Slash, 0}
    <3>1. /\ Len(file) = Len(subPath) + 10
          /\ j \in 1 .. Len(subPath) + 10 /\ ~ (j <= Len(subPath)) /\ j - Len(subPath) \in 1 .. 10
      <4>1. Len(file) = Len(subPath) + 10
        BY <2>2
      <4>2. QED BY <1>1, <4>1
    <3>2. file[j] = IndexHtml[j - Len(subPath)]
      BY <2>2, <3>1
    <3>3. QED BY <2>1, <3>1, <3>2
  <2>4. file[Len(subPath) + 1] = 105
    <3>1. /\ Len(subPath) + 1 \in 1 .. Len(subPath) + 10 /\ ~ (Len(subPath) + 1 <= Len(subPath))
          /\ (Len(subPath) + 1) - Len(subPath) = 1
      BY <1>1
    <3>2. QED BY <2>1, <2>2, <3>1
  <2>5. \A j \in 1 .. Len(subPath) : file[j] = subPath[j]
    BY <1>1, <2>2
  <2>6. DOMAIN file = 1 .. Len(file)
    BY <2>2, LenProperties
  <2>7. QED BY <1>1, <1>3, <2>2, <2>3, <2>4, <2>5, <2>6
<1>4. QED BY <1>2, <1>3

LEMMA WalkSlashKept == FilesInv /\ WalkSlash => FilesInv'
<1> SUFFICES ASSUME FilesInv, WalkSlash PROVE FilesInv'
  OBVIOUS
<1>1. OpenInv /\ FilesType
  BY DEF FilesInv, WalkSlash
<1>22. PICK passed : \E i \in BOOLEAN :
       /\ Way(subPath, passed, Len(subPath) + 1, level)
       /\ FileIs(i)
       /\ i => subPath # <<>> /\ subPath[Len(subPath)] = Slash
       /\ <<at, depth>> \in passed \/ at = Len(file) + 1
  BY <1>1 DEF OpenInv
<1>2. PICK index \in BOOLEAN :
       /\ Way(subPath, passed, Len(subPath) + 1, level)
       /\ FileIs(index)
       /\ index => subPath # <<>> /\ subPath[Len(subPath)] = Slash
       /\ <<at, depth>> \in passed \/ at = Len(file) + 1
  BY <1>22
<1>3. subPath \in Seq(Int) /\ at \in Nat \ {0} /\ depth \in Nat
  BY <1>1 DEF FilesType, OpenInv
<1>4. at \in 1 .. Len(file) /\ file[at] = Slash
  BY <1>2, <1>3, FileParts DEF WalkSlash, NameEnds
<1>5. <<at, depth>> \in passed /\ at <= Len(subPath) + 1
  <2>1. <<at, depth>> \in passed
    BY <1>2, <1>4, <1>3, FileParts
  <2>2. QED BY <1>2, <2>1 DEF Way
<1>6. at <= Len(subPath) /\ subPath[at] = Slash
  <2>1. /\ Len(subPath) \in Nat /\ Len(file) \in Nat
        /\ \A j \in 1 .. Len(subPath) : file[j] = subPath[j]
        /\ \A j \in Len(subPath) + 1 .. Len(file) : file[j] \notin {Slash, 0}
    BY <1>2, <1>3, FileParts
  <2>2. at \notin Len(subPath) + 1 .. Len(file)
    BY <1>4, <2>1
  <2>3. at \in 1 .. Len(subPath)
    BY <1>3, <1>4, <2>1, <2>2
  <2>4. QED BY <1>4, <2>1, <2>3
<1>7. <<at + 1, depth>> \in passed
  <2>1. at < Len(subPath) + 1
    BY <1>3, <1>6, LenProperties
  <2>2. QED BY <1>2, <1>5, <1>6, <2>1 DEF Way
<1>8. stage' = "open" /\ at' = at + 1 /\ UNCHANGED <<subPath, level, file, depth>>
  BY DEF WalkSlash
<1>9. OpenInv'
  BY <1>2, <1>3, <1>7, <1>8 DEF OpenInv, FileIs
<1>10. FilesType'
  BY <1>1, <1>8 DEF FilesType, WalkSlash
<1>11. QED BY <1>8, <1>9, <1>10 DEF FilesInv

LEMMA WalkComponentKept == FilesInv /\ WalkComponent => FilesInv'
<1> SUFFICES ASSUME FilesInv, WalkComponent PROVE FilesInv'
  OBVIOUS
<1>1. OpenInv /\ FilesType
  BY DEF FilesInv, WalkComponent
<1>22. PICK passed : \E i \in BOOLEAN :
       /\ Way(subPath, passed, Len(subPath) + 1, level)
       /\ FileIs(i)
       /\ i => subPath # <<>> /\ subPath[Len(subPath)] = Slash
       /\ <<at, depth>> \in passed \/ at = Len(file) + 1
  BY <1>1 DEF OpenInv
<1>2. PICK index \in BOOLEAN :
       /\ Way(subPath, passed, Len(subPath) + 1, level)
       /\ FileIs(index)
       /\ index => subPath # <<>> /\ subPath[Len(subPath)] = Slash
       /\ <<at, depth>> \in passed \/ at = Len(file) + 1
  BY <1>22
<1>3. subPath \in Seq(Int) /\ at \in Nat \ {0} /\ depth \in Nat
  BY <1>1 DEF FilesType, OpenInv
<1>20. /\ Len(subPath) \in Nat /\ Len(file) \in Nat
       /\ Len(file) = IF index THEN Len(subPath) + 10 ELSE Len(subPath)
       /\ file \in Seq(Int) /\ DOMAIN file = 1 .. Len(file)
       /\ \A j \in 1 .. Len(subPath) : file[j] = subPath[j]
       /\ index => file[Len(subPath) + 1] = 105
       /\ \A j \in Len(subPath) + 1 .. Len(file) : file[j] \notin {Slash, 0}
  BY <1>2, <1>3, FileParts
<1>21. \A j \in 1 .. Len(file) : file[j] \in Int
  BY <1>20, ElementOfSeq
<1>4. at \in 1 .. Len(file)
  BY <1>2, <1>3, <1>20 DEF WalkComponent, NameEnds
<1>5. <<at, depth>> \in passed /\ at <= Len(subPath) + 1
  <2>1. <<at, depth>> \in passed
    BY <1>2, <1>4, <1>20
  <2>2. QED BY <1>2, <2>1 DEF Way
<1>6. PICK k \in at + 1 .. Len(file) + 1 :
        /\ EndsAt(file, at, k, {Slash, 0})
        /\ depth' = Below(SubSeq(file, at, k - 1), depth)
        /\ at' = k
  BY DEF WalkComponent
<1>7. k \in Nat \ {0} /\ k - 1 \in Nat /\ k - 1 <= Len(file)
  BY <1>3, <1>6, <1>20
<1>8. \A j \in at .. k - 1 : file[j] \notin {Slash, 0}
  BY <1>6 DEF EndsAt
(* A component of the path itself. *)
<1>9. ASSUME at <= Len(subPath)
      PROVE  depth' \in Nat /\ (<<at', depth'>> \in passed \/ at' = Len(file) + 1)
  <2>1. k <= Len(subPath) + 1
    <3>1. CASE ~ index
      BY <1>6, <1>20, <3>1
    <3>2. CASE index
      <4>1. file[Len(subPath)] = Slash
        <5>1. Len(subPath) \in 1 .. Len(subPath) /\ subPath[Len(subPath)] = Slash
          BY <1>2, <1>3, <1>9, <1>20, <3>2
        <5>2. QED BY <1>20, <5>1
      <4>2. Len(subPath) \notin at .. k - 1
        BY <1>8, <4>1
      <4>3. QED BY <1>3, <1>7, <1>9, <1>20, <4>2
    <3>3. QED BY <3>1, <3>2
  <2>9. \A j \in at .. k - 1 : j \in 1 .. Len(subPath) /\ file[j] = subPath[j] /\ file[j] \in Int
    <3>1. SUFFICES ASSUME NEW j \in at .. k - 1 PROVE j \in 1 .. Len(subPath) /\ j \in 1 .. Len(file)
      BY <1>20, <1>21
    <3>2. QED BY <1>3, <1>7, <1>20, <2>1
  <2>2. \A j \in at .. k - 1 : subPath[j] \notin {Slash}
    BY <1>8, <2>9
  <2>3. k \in DOMAIN subPath => subPath[k] \in {Slash}
    <3>1. SUFFICES ASSUME k \in 1 .. Len(subPath) PROVE subPath[k] = Slash
      BY <1>3, LenProperties
    <3>2. k \in DOMAIN file /\ file[k] = subPath[k]
      BY <1>20, <3>1
    <3>3. subPath[k] \in {Slash, 0}
      BY <1>6, <3>2 DEF EndsAt
    <3>4. subPath[k] # 0
      <4>1. k \in 1 .. (Len(subPath) + 1) - 1
        BY <1>20, <3>1
      <4>2. QED BY <1>2, <4>1 DEF Way
    <3>5. QED BY <3>3, <3>4
  <2>4. EndsAt(subPath, at, k, {Slash})
    BY <1>6, <1>7, <2>1, <2>2, <2>3, <1>3, LenProperties DEF EndsAt
  <2>5. SubSeq(file, at, k - 1) = SubSeq(subPath, at, k - 1)
    <3>1. at \in Int /\ k - 1 \in Int /\ (k - 1) - at + 1 = k - at /\ at <= k - 1
      BY <1>3, <1>6, <1>7
    <3>2. \A j \in at .. k - 1 : file[j] \in Int /\ subPath[j] \in Int
      BY <2>9
    <3>3. /\ SubSeq(file, at, k - 1) \in Seq(Int) /\ Len(SubSeq(file, at, k - 1)) = k - at
          /\ \A i \in 1 .. k - at : SubSeq(file, at, k - 1)[i] = file[at + i - 1]
      BY <3>1, <3>2, SubSeqProperties
    <3>4. /\ SubSeq(subPath, at, k - 1) \in Seq(Int) /\ Len(SubSeq(subPath, at, k - 1)) = k - at
          /\ \A i \in 1 .. k - at : SubSeq(subPath, at, k - 1)[i] = subPath[at + i - 1]
      BY <3>1, <3>2, SubSeqProperties
    <3>5. \A i \in 1 .. k - at : at + i - 1 \in at .. k - 1
      BY <3>1
    <3>6. \A i \in 1 .. k - at : SubSeq(file, at, k - 1)[i] = SubSeq(subPath, at, k - 1)[i]
      BY <2>9, <3>3, <3>4, <3>5
    <3>7. QED BY <3>3, <3>4, <3>6, SeqEqual
  <2>6. <<k, depth'>> \in passed
    <3>1. at < Len(subPath) + 1
      BY <1>3, <1>9, LenProperties
    <3>2. <<k, Below(SubSeq(subPath, at, k - 1), depth)>> \in passed
      BY <1>2, <1>5, <1>7, <2>4, <3>1 DEF Way
    <3>3. QED BY <1>6, <2>5, <3>2
  <2>7. depth' \in Nat
    BY <1>2, <2>6 DEF Way
  <2>8. depth' \in Nat /\ <<at', depth'>> \in passed
    BY <1>6, <2>6, <2>7
  <2>10. QED BY <2>8
(* The name of the index file. *)
<1>10. ASSUME at = Len(subPath) + 1
       PROVE  depth' \in Nat /\ (<<at', depth'>> \in passed \/ at' = Len(file) + 1)
  <2>1. index
    BY <1>4, <1>10, <1>20
  <2>2. k = Len(file) + 1
    <3>1. ASSUME k \in DOMAIN file PROVE FALSE
      <4>1. file[k] \in {Slash, 0}
        BY <1>6, <3>1 DEF EndsAt
      <4>2. k \in Len(subPath) + 1 .. Len(file)
        BY <1>3, <1>6, <1>10, <1>20, <3>1
      <4>3. QED BY <1>20, <4>1, <4>2
    <3>2. QED BY <1>3, <1>6, <1>20, <3>1
  <2>3. SubSeq(file, at, k - 1)[1] = 105
    <3>1. \A i \in at .. k - 1 : file[i] \in Int
      BY <1>3, <1>7, <1>20, <1>21
    <3>2. \A i \in 1 .. (k - 1) - at + 1 : SubSeq(file, at, k - 1)[i] = file[at + i - 1]
      BY <1>3, <1>7, <3>1, SubSeqProperties
    <3>3. 1 \in 1 .. (k - 1) - at + 1 /\ at + 1 - 1 = at
      BY <1>3, <1>6, <1>7
    <3>4. QED BY <1>10, <1>20, <2>1, <3>2, <3>3
  <2>4. SubSeq(file, at, k - 1) \notin {<<Dot>>, DotDot}
    <3>1. <<Dot>>[1] = 46 /\ DotDot[1] = 46 /\ 46 # 105
      BY DEF Dot, DotDot
    <3> DEFINE name == SubSeq(file, at, k - 1)
    <3>2. name[1] # 46
      <4>1. 105 # 46
        OBVIOUS
      <4>2. QED BY <2>3, <4>1, Zenon
    <3> HIDE DEF name
    <3>3. name # <<Dot>> /\ name # DotDot
      BY <3>1, <3>2, Zenon
    <3>4. QED BY <3>3, Zenon DEF name
  <2>5. depth' = depth + 1
    BY <1>6, <2>4 DEF Below
  <2>6. depth' \in Nat
    BY <1>3, <2>5
  <2>8. at' = Len(file) + 1
    BY <1>6, <2>2
  <2>7. QED BY <2>6, <2>8
<1>11. depth' \in Nat /\ (<<at', depth'>> \in passed \/ at' = Len(file) + 1)
  <2>1. at <= Len(subPath) \/ at = Len(subPath) + 1
    BY <1>3, <1>5, <1>20
  <2>2. QED BY <1>9, <1>10, <2>1
<1>12. stage' = "open" /\ UNCHANGED <<subPath, level, file>>
  BY DEF WalkComponent
<1>13. OpenInv'
  <2>1. /\ Way(subPath', passed, Len(subPath') + 1, level')
        /\ index => subPath' # <<>> /\ subPath'[Len(subPath')] = Slash
        /\ <<at', depth'>> \in passed \/ at' = Len(file') + 1
    BY <1>2, <1>11, <1>12
  <2>2. FileIs(index)'
    BY <1>2, <1>12 DEF FileIs
  <2>3. QED BY <1>2, <1>11, <2>1, <2>2, Zenon DEF OpenInv
<1>14. FilesType'
  BY <1>1, <1>6, <1>7, <1>12 DEF FilesType, WalkComponent
<1>15. QED BY <1>12, <1>13, <1>14 DEF FilesInv

LEMMA NextFiles == FilesInv /\ [FilesNext]_filesVars => FilesInv'
<1> SUFFICES ASSUME FilesInv, [FilesNext]_filesVars PROVE FilesInv'
  OBVIOUS
<1>1. CASE BeginMounts \/ EndMounts \/ NotOpened
  BY <1>1 DEF BeginMounts, EndMounts, NotOpened, FilesInv, FilesType
<1>2. CASE SkipMount \/ RejectPath \/ NotFound
  BY <1>2, NextMountKept DEF SkipMount, RejectPath, NotFound
<1>3. CASE Found
  BY <1>3 DEF Found, FilesInv, FilesType, OpenInv
<1>4. CASE UNCHANGED filesVars
  BY <1>4 DEF filesVars, FilesInv, FilesType, CheckInv, OpenInv, FileIs
<1>5. QED
  BY <1>1, <1>2, <1>3, <1>4, DecodeTargetKept, EnterMountKept, SkipSlashKept, ReadComponentKept,
     AcceptPathKept, WalkSlashKept, WalkComponentKept DEF FilesNext

(* For every target and all mount points, whatever is encoded in them: no  *)
(* file is opened by a name that leads out of the mounted directory.       *)
THEOREM FilesAreInside == FilesSpec => []FilesStayInside
<1>1. FilesSpec => []FilesInv
  BY InitFiles, NextFiles, PTL DEF FilesSpec
<1>2. FilesInv => FilesStayInside
  BY DEF FilesInv, OpenInv, FilesStayInside
<1>3. QED BY <1>1, <1>2, PTL

------------------------------------------------------------------------------
(*****************************************************************************)
(* Percent codecs                                                            *)
(*****************************************************************************)
(* A digit that is written is read as what it stands for, and is not the   *)
(* letter of a unicode escape.                                             *)
LEMMA HexDigitRead ==
  ASSUME NEW n \in 0 .. 15
  PROVE  /\ HexDigit(n) \in Int /\ HexDigit(n) # LetterU
         /\ HexValue(HexDigit(n)) = n /\ IsHex(HexDigit(n))
<1>1. CASE n < 10
  <2>1. HexDigit(n) = 48 + n /\ 48 + n \in Digit
    BY <1>1 DEF HexDigit, Digit
  <2>2. 48 + n \notin 65 .. 70 /\ 48 + n \notin 97 .. 102
    BY <1>1
  <2>3. HexValue(48 + n) = n
    BY <2>1, <2>2 DEF HexValue
  <2>4. QED BY <1>1, <2>1, <2>3 DEF IsHex, LetterU
<1>2. CASE ~ (n < 10)
  <2>1. HexDigit(n) = 55 + n /\ 55 + n \in 65 .. 70
    BY <1>2 DEF HexDigit
  <2>2. 55 + n \notin Digit /\ 55 + n \notin 97 .. 102
    BY <1>2 DEF Digit
  <2>3. HexValue(55 + n) = n
    BY <2>1, <2>2 DEF HexValue
  <2>4. QED BY <1>2, <2>1, <2>3 DEF IsHex, LetterU
<1>3. QED BY <1>1, <1>2

LEMMA TwoDigits ==
  ASSUME NEW c \in 0 .. 255
  PROVE  /\ c \div 16 \in 0 .. 15 /\ c % 16 \in 0 .. 15
         /\ 16 * (c \div 16) + (c % 16) = c
OBVIOUS

(* Whatever reads an escape, reads the byte that was escaped.              *)
LEMMA EscapedRead ==
  ASSUME NEW s \in Seq(Int), NEW i \in Nat \ {0}, i + 2 <= Len(s), NEW c \in 0 .. 255,
         s[i] = Percent, s[i + 1] = HexDigit(c \div 16), s[i + 2] = HexDigit(c % 16)
  PROVE  /\ UriCode(s, i) = Byte(c, i + 3)
         /\ PathCode(s, i) = Byte(c, i + 3)
         /\ QueryCode(s, i) = Byte(c, i + 3)
<1>1. /\ IsHex(s[i + 1]) /\ HexValue(s[i + 1]) = c \div 16 /\ s[i + 1] # LetterU
      /\ IsHex(s[i + 2]) /\ HexValue(s[i + 2]) = c % 16
  BY TwoDigits, HexDigitRead
<1>2. FromHex(s, i + 1, 2) = c
  <2>1. ~ ((i + 1) + 2 - 1 > Len(s))
    BY LenProperties
  <2>2. (i + 1) + 0 = i + 1 /\ (i + 1) + 1 = i + 2 /\ 0 .. 2 - 1 = {0, 1}
    OBVIOUS
  <2>3. ~ \E j \in 0 .. 2 - 1 : ~ IsHex(s[(i + 1) + j])
    BY <1>1, <2>2
  <2> DEFINE none == (i + 1) + 2 - 1 > Len(s) \/ \E j \in 0 .. 2 - 1 : ~ IsHex(s[(i + 1) + j])
             two == 16 * HexValue(s[(i + 1) + 0]) + HexValue(s[(i + 1) + 1])
  <2>4. FromHex(s, i + 1, 2) = two
    <3>1. FromHex(s, i + 1, 2) = IF none THEN -1 ELSE two
      BY DEF FromHex
    <3>2. ~ none
      BY <2>1, <2>3
    <3> HIDE DEF none, two
    <3>3. QED BY <3>1, <3>2
  <2>5. QED BY <1>1, <2>2, <2>4, TwoDigits
<1>3. UriCode(s, i) = Byte(c, i + 3)
  <2>1. c # -1
    OBVIOUS
  <2>2. QED BY <1>2, <2>1 DEF UriCode
<1>4. PathCode(s, i) = Byte(c, i + 3)
  BY <1>1, <1>3 DEF PathCode
<1>5. QueryCode(s, i) = Byte(c, i + 3)
  <2>1. s[i + 1] \notin {Tab, 10, 11, 12, 13, Blank, Plus} /\ s[i + 1] # Minus
    BY TwoDigits DEF HexDigit, Tab, Blank, Plus, Minus
  <2>2. HexPair(s[i + 1], s[i + 2]) = 16 * HexValue(s[i + 1]) + HexValue(s[i + 2])
    BY <1>1, <2>1 DEF HexPair
  <2>3. HexPair(s[i + 1], s[i + 2]) = c
    BY <1>1, <2>2, TwoDigits
  <2>4. Percent # Plus /\ c # -1
    BY DEF Percent, Plus
  <2>5. QED BY <2>3, <2>4 DEF QueryCode
<1>6. QED BY <1>3, <1>4, <1>5

LEMMA KeptRead ==
  ASSUME NEW s \in Seq(Int), NEW i \in Nat \ {0}
  PROVE  /\ s[i] # Percent => UriCode(s, i) = Byte(s[i], i + 1)
         /\ s[i] # Percent => PathCode(s, i) = Byte(s[i], i + 1)
         /\ s[i] # Percent /\ s[i] # Plus => QueryCode(s, i) = Byte(s[i], i + 1)
         /\ s[i] = Plus => QueryCode(s, i) = Byte(Blank, i + 1)
<1>1. Percent # Plus
  BY DEF Percent, Plus
<1>2. s[i] # Percent => UriCode(s, i) = Byte(s[i], i + 1)
  BY DEF UriCode
<1>3. s[i] # Percent => PathCode(s, i) = Byte(s[i], i + 1)
  BY <1>2 DEF PathCode
<1>4. s[i] # Percent /\ s[i] # Plus => QueryCode(s, i) = Byte(s[i], i + 1)
  BY DEF QueryCode
<1>5. s[i] = Plus => QueryCode(s, i) = Byte(Blank, i + 1)
  BY <1>1 DEF QueryCode
<1>6. QED BY <1>2, <1>3, <1>4, <1>5

(* No codec keeps the percent sign, nor the query codec the plus sign.     *)
LEMMA NoneKeepsPercent ==
  /\ Percent \notin UriKept /\ Percent \notin UriComponentKept
  /\ Percent \notin PathKept /\ Percent \notin QueryKept /\ Plus \notin QueryKept
BY DEF Percent, Plus, UriKept, UriComponentKept, PathKept, QueryKept, Unreserved, Alpha, Digit,
       Minus, Dot, Slash, Question, Colon, Ampersand, Equal, Hash

(* Each form of a byte is the byte, a plus sign for a blank, or an escape. *)
LEMMA Forms ==
  ASSUME codec \in Codecs, NEW c \in 0 .. 255
  PROVE  \/ EncodedAs(c) = <<c>> /\ c # Percent /\ (codec = "query_component" => c # Plus)
         \/ EncodedAs(c) = <<Plus>> /\ c = Blank /\ codec = "query_component"
         \/ EncodedAs(c) = Escaped(c)
<1>1. CASE codec = "uri"
  BY <1>1, NoneKeepsPercent DEF EncodedAs, UriForm
<1>2. CASE codec = "uri_component"
  BY <1>2, NoneKeepsPercent DEF EncodedAs, UriComponentForm
<1>3. CASE codec = "path_component"
  BY <1>3, NoneKeepsPercent DEF EncodedAs, PathForm
<1>4. CASE codec = "query_component"
  <2>1. EncodedAs(c) = QueryForm(c)
    BY <1>4 DEF EncodedAs
  <2>2. Blank \notin QueryKept
    BY DEF Blank, QueryKept, Unreserved, Alpha, Digit, Minus, Dot, Slash, Question, Colon
  <2>3. CASE c = Blank
    BY <1>4, <2>1, <2>2, <2>3 DEF QueryForm
  <2>4. CASE c # Blank /\ c \in QueryKept
    BY <2>1, <2>4, NoneKeepsPercent DEF QueryForm
  <2>5. CASE c # Blank /\ c \notin QueryKept
    BY <2>1, <2>5 DEF QueryForm
  <2>6. QED BY <2>3, <2>4, <2>5
<1>5. QED BY <1>1, <1>2, <1>3, <1>4 DEF Codecs

LEMMA FormType ==
  ASSUME codec \in Codecs, NEW c \in 0 .. 255
  PROVE  EncodedAs(c) \in Seq(Int) /\ Len(EncodedAs(c)) \in Nat \ {0}
<1>1. <<c>> \in Seq(Int) /\ Len(<<c>>) = 1 /\ <<Plus>> \in Seq(Int) /\ Len(<<Plus>>) = 1
  BY DEF Plus
<1>2. Escaped(c) \in Seq(Int) /\ Len(Escaped(c)) = 3
  <2>1. HexDigit(c \div 16) \in Int /\ HexDigit(c % 16) \in Int /\ Percent \in Int
    BY TwoDigits, HexDigitRead DEF Percent
  <2>2. QED BY <2>1 DEF Escaped
<1>3. \/ EncodedAs(c) = <<c>> \/ EncodedAs(c) = <<Plus>> \/ EncodedAs(c) = Escaped(c)
  BY Forms
<1> DEFINE Good(s) == s \in Seq(Int) /\ Len(s) \in Nat \ {0}
<1>4. Good(<<c>>) /\ Good(<<Plus>>) /\ Good(Escaped(c))
  BY <1>1, <1>2
<1> HIDE DEF Good
<1>5. Good(EncodedAs(c))
  BY <1>3, <1>4
<1>6. QED BY <1>5 DEF Good

(* Wherever the form of a byte stands in what is encoded, that byte is     *)
(* read, and the loop goes on behind the form.                             *)
LEMMA FormRead ==
  ASSUME codec \in Codecs, coded \in Seq(Int), NEW c \in 0 .. 255, NEW i \in Nat \ {0},
         i + Len(EncodedAs(c)) - 1 <= Len(coded),
         \A j \in 1 .. Len(EncodedAs(c)) : coded[i + j - 1] = EncodedAs(c)[j]
  PROVE  CodeAt(i) = Byte(c, i + Len(EncodedAs(c)))
<1>1. i + 1 - 1 = i
  OBVIOUS
<1>2. ASSUME NEW code, UriCode(coded, i) = code, PathCode(coded, i) = code, QueryCode(coded, i) = code
      PROVE  CodeAt(i) = code
  BY <1>2 DEF CodeAt, Codecs
<1>3. CASE EncodedAs(c) = <<c>> /\ c # Percent /\ (codec = "query_component" => c # Plus)
  <2>1. Len(EncodedAs(c)) = 1 /\ EncodedAs(c)[1] = c
    BY <1>3
  <2>2. coded[i] = c
    BY <1>1, <2>1
  <2>3. QED BY <1>3, <2>1, <2>2, KeptRead DEF CodeAt, Codecs
<1>4. CASE EncodedAs(c) = <<Plus>> /\ c = Blank /\ codec = "query_component"
  <2>1. Len(EncodedAs(c)) = 1 /\ EncodedAs(c)[1] = Plus
    BY <1>4
  <2>2. coded[i] = Plus
    BY <1>1, <2>1
  <2>3. QED BY <1>4, <2>1, <2>2, KeptRead DEF CodeAt, Codecs
<1>5. CASE EncodedAs(c) = Escaped(c)
  <2>1. /\ Len(EncodedAs(c)) = 3 /\ EncodedAs(c)[1] = Percent
        /\ EncodedAs(c)[2] = HexDigit(c \div 16) /\ EncodedAs(c)[3] = HexDigit(c % 16)
    BY <1>5 DEF Escaped
  <2>2. i + 2 - 1 = i + 1 /\ i + 3 - 1 = i + 2 /\ 1 \in 1 .. 3 /\ 2 \in 1 .. 3 /\ 3 \in 1 .. 3
    OBVIOUS
  <2>3. /\ coded[i] = Percent /\ coded[i + 1] = HexDigit(c \div 16) /\ coded[i + 2] = HexDigit(c % 16)
        /\ i + 2 <= Len(coded)
    BY <1>1, <2>1, <2>2
  <2>4. /\ UriCode(coded, i) = Byte(c, i + 3) /\ PathCode(coded, i) = Byte(c, i + 3)
        /\ QueryCode(coded, i) = Byte(c, i + 3)
    BY <2>3, EscapedRead, Zenon
  <2>5. CodeAt(i) = Byte(c, i + 3)
    BY <1>2, <2>4, Zenon
  <2>6. QED BY <2>1, <2>5
<1>6. QED BY <1>3, <1>4, <1>5, Forms

------------------------------------------------------------------------------
CodecType ==
  /\ codec \in Codecs
  /\ plain \in Seq(0 .. 255)
  /\ task \in {"encode", "decode", "done"}
  /\ coded \in Seq(Int)
  /\ cursor \in Nat \ {0}
  /\ decoded \in Seq(Int)

(* What is encoded is laid out as the forms of the first n bytes, each     *)
(* from its place in starts to the next one.                               *)
Laid(starts, n) ==
  /\ starts \in [1 .. n + 1 -> Nat \ {0}]
  /\ starts[1] = 1
  /\ starts[n + 1] = Len(coded) + 1
  /\ \A k \in 1 .. n :
       /\ starts[k + 1] = starts[k] + Len(EncodedAs(plain[k]))
       /\ starts[k + 1] <= Len(coded) + 1
       /\ \A j \in 1 .. Len(EncodedAs(plain[k])) : coded[starts[k] + j - 1] = EncodedAs(plain[k])[j]

DecodeInv ==
  /\ Len(decoded) <= Len(plain)
  /\ \A k \in 1 .. Len(decoded) : decoded[k] = plain[k]
  /\ \E starts : Laid(starts, Len(plain)) /\ cursor = starts[Len(decoded) + 1]

CodecInv ==
  /\ CodecType
  /\ task = "encode" => /\ cursor <= Len(plain) + 1 /\ decoded = <<>>
                        /\ \E starts : Laid(starts, cursor - 1)
  /\ task = "decode" => DecodeInv
  /\ task = "done" => decoded = plain

LEMMA InitCodec == CodecInit => CodecInv
<1> SUFFICES ASSUME CodecInit PROVE CodecInv
  OBVIOUS
<1>1. /\ plain \in Seq(0 .. 255) /\ codec \in Codecs /\ task = "encode"
      /\ coded = <<>> /\ cursor = 1 /\ decoded = <<>>
  BY CodecAssumption DEF CodecInit
<1>2. Len(plain) \in Nat /\ Len(coded) = 0
  BY <1>1, LenProperties
<1> DEFINE starts == [k \in 1 .. 1 |-> 1]
<1>3. Laid(starts, cursor - 1)
  BY <1>1, <1>2 DEF Laid
<1>4. CodecType
  BY <1>1 DEF CodecType
<1> HIDE DEF starts
<1>5. QED BY <1>1, <1>2, <1>3, <1>4 DEF CodecInv

LEMMA EncodeByteKept == CodecInv /\ EncodeByte => CodecInv'
<1> SUFFICES ASSUME CodecInv, EncodeByte PROVE CodecInv'
  OBVIOUS
<1>1. /\ CodecType /\ task = "encode" /\ cursor <= Len(plain) /\ decoded = <<>>
      /\ coded' = coded \o EncodedAs(plain[cursor]) /\ cursor' = cursor + 1
      /\ UNCHANGED <<codec, plain, task, decoded>>
  BY DEF CodecInv, EncodeByte
<1>2. PICK starts : Laid(starts, cursor - 1)
  BY DEF CodecInv, EncodeByte
<1>9. PICK n : n = cursor
  OBVIOUS
<1>3. /\ Len(plain) \in Nat /\ Len(coded) \in Nat /\ n \in Nat /\ n \in 1 .. Len(plain)
      /\ \A k \in 1 .. Len(plain) : plain[k] \in 0 .. 255
  <2>1. Len(plain) \in Nat /\ Len(coded) \in Nat
    BY <1>1, LenProperties DEF CodecType
  <2>2. n \in Nat /\ n \in 1 .. Len(plain)
    BY <1>1, <1>9, <2>1 DEF CodecType
  <2>3. \A k \in 1 .. Len(plain) : plain[k] \in 0 .. 255
    BY <1>1, ElementOfSeq DEF CodecType
  <2>4. QED BY <2>1, <2>2, <2>3
<1>10. PICK form : form = EncodedAs(plain[n])
  OBVIOUS
<1>4. form \in Seq(Int) /\ Len(form) \in Nat \ {0}
  BY <1>1, <1>3, <1>10, FormType DEF CodecType
<1>11. PICK next : next = [k \in 1 .. n + 1 |-> IF k <= n THEN starts[k] ELSE Len(coded) + 1 + Len(form)]
  OBVIOUS
<1>5. /\ coded' \in Seq(Int) /\ Len(coded') = Len(coded) + Len(form)
      /\ \A j \in 1 .. Len(coded) + Len(form) :
           coded'[j] = IF j <= Len(coded) THEN coded[j] ELSE form[j - Len(coded)]
  BY <1>1, <1>4, <1>9, <1>10, ConcatProperties DEF CodecType
<1>6. \A k : EncodedAs(plain[k])' = EncodedAs(plain[k])
  BY <1>1 DEF EncodedAs
<1>7. /\ starts \in [1 .. n -> Nat \ {0}] /\ starts[1] = 1 /\ starts[n] = Len(coded) + 1
      /\ \A k \in 1 .. n - 1 :
           /\ starts[k + 1] = starts[k] + Len(EncodedAs(plain[k]))
           /\ starts[k + 1] <= Len(coded) + 1
           /\ \A j \in 1 .. Len(EncodedAs(plain[k])) :
                coded[starts[k] + j - 1] = EncodedAs(plain[k])[j]
  <2>1. (n - 1) + 1 = n
    BY <1>3
  <2>2. QED BY <1>2, <1>9, <2>1 DEF Laid
<1>8. /\ next \in [1 .. n + 1 -> Nat \ {0}] /\ next[1] = 1
      /\ next[n + 1] = Len(coded') + 1
      /\ next[n] = Len(coded) + 1 /\ next[n + 1] = next[n] + Len(form)
      /\ \A k \in 1 .. n - 1 : next[k] = starts[k] /\ next[k + 1] = starts[k + 1]
  <2>1. next[n + 1] = Len(coded) + 1 + Len(form)
    BY <1>3, <1>11
  <2>2. \A k \in 1 .. n : next[k] = starts[k]
    BY <1>3, <1>11
  <2>3. next \in [1 .. n + 1 -> Nat \ {0}]
    BY <1>3, <1>4, <1>7, <1>11
  <2>4. \A k \in 1 .. n - 1 : k \in 1 .. n /\ k + 1 \in 1 .. n
    BY <1>3
  <2>5. next[1] = 1 /\ next[n] = Len(coded) + 1
    <3>1. 1 \in 1 .. n /\ n \in 1 .. n
      BY <1>3
    <3>2. QED BY <1>7, <2>2, <3>1
  <2>6. next[n + 1] = Len(coded') + 1 /\ next[n + 1] = next[n] + Len(form)
    BY <1>3, <1>4, <1>5, <2>1, <2>5
  <2>7. QED BY <2>2, <2>3, <2>4, <2>5, <2>6
<1>12. ASSUME NEW k \in 1 .. n
       PROVE  /\ next[k + 1] = next[k] + Len(EncodedAs(plain[k]))
              /\ next[k + 1] <= Len(coded') + 1
              /\ \A j \in 1 .. Len(EncodedAs(plain[k])) :
                   coded'[next[k] + j - 1] = EncodedAs(plain[k])[j]
  <2>1. CASE k = n
    <3>1. ASSUME NEW j \in 1 .. Len(form) PROVE coded'[Len(coded) + 1 + j - 1] = form[j]
      <4>1. /\ Len(coded) + 1 + j - 1 \in 1 .. Len(coded) + Len(form)
            /\ ~ (Len(coded) + 1 + j - 1 <= Len(coded))
            /\ (Len(coded) + 1 + j - 1) - Len(coded) = j
        BY <1>3, <1>4
      <4>2. QED BY <1>5, <4>1
    <3>2. /\ next[k + 1] = next[k] + Len(form) /\ next[k + 1] = Len(coded') + 1
          /\ next[k] = Len(coded) + 1 /\ EncodedAs(plain[k]) = form
      BY <1>8, <1>10, <2>1
    <3>4. Len(coded') + 1 <= Len(coded') + 1
      BY <1>3, <1>4, <1>5
    <3>3. QED BY <3>1, <3>2, <3>4
  <2>2. CASE k \in 1 .. n - 1
    <3>1. /\ next[k] = starts[k] /\ next[k + 1] = starts[k + 1]
          /\ starts[k + 1] = starts[k] + Len(EncodedAs(plain[k]))
          /\ starts[k + 1] <= Len(coded) + 1
          /\ \A j \in 1 .. Len(EncodedAs(plain[k])) :
               coded[starts[k] + j - 1] = EncodedAs(plain[k])[j]
      BY <1>7, <1>8, <2>2
    <3>2. starts[k] \in Nat \ {0} /\ starts[k + 1] \in Nat \ {0}
      BY <1>3, <1>7, <2>2
    <3>3. Len(EncodedAs(plain[k])) \in Nat
      <4>1. plain[k] \in 0 .. 255
        BY <1>3, <2>2
      <4>2. QED BY <1>1, <4>1, FormType DEF CodecType
    <3>4. ASSUME NEW j \in 1 .. Len(EncodedAs(plain[k]))
          PROVE  coded'[starts[k] + j - 1] = coded[starts[k] + j - 1]
      <4>1. /\ starts[k] + j - 1 \in 1 .. Len(coded) + Len(form)
            /\ starts[k] + j - 1 <= Len(coded)
        <5>1. PICK l \in Nat : l = Len(EncodedAs(plain[k]))
          BY <3>3
        <5>2. PICK a \in Nat \ {0} : a = starts[k]
          BY <3>2
        <5>3. j \in 1 .. l /\ a + l <= Len(coded) + 1
          BY <3>1, <5>1, <5>2
        <5>4. Len(coded) \in Nat /\ Len(form) \in Nat
          BY <1>3, <1>4
        <5>5. a + j - 1 \in 1 .. Len(coded) + Len(form) /\ a + j - 1 <= Len(coded)
          BY <5>3, <5>4
        <5>6. QED BY <5>2, <5>5
      <4>2. QED BY <1>5, <4>1
    <3>5. starts[k + 1] <= Len(coded') + 1
      BY <1>3, <1>4, <1>5, <3>1, <3>2
    <3>6. QED BY <3>1, <3>4, <3>5
  <2>3. k = n \/ k \in 1 .. n - 1
    BY <1>3
  <2>4. QED BY <2>1, <2>2, <2>3
<1>13. Laid(next, n)'
  <2>1. \A k \in 1 .. n :
          /\ next[k + 1] = next[k] + Len(EncodedAs(plain[k])')
          /\ next[k + 1] <= Len(coded') + 1
          /\ \A j \in 1 .. Len(EncodedAs(plain[k])') :
               coded'[next[k] + j - 1] = (EncodedAs(plain[k])')[j]
    BY <1>6, <1>12
  <2>2. QED BY <1>8, <2>1, Zenon DEF Laid
<1>14. cursor' - 1 = n /\ cursor' <= Len(plain') + 1
  BY <1>1, <1>3, <1>9
<1>15. CodecType'
  BY <1>1, <1>3, <1>5, <1>9 DEF CodecType
<1>16. \E m : Laid(m, cursor - 1)'
  BY <1>13, <1>14
<1>17. QED BY <1>1, <1>14, <1>15, <1>16 DEF CodecInv

LEMMA BeginDecodeKept == CodecInv /\ BeginDecode => CodecInv'
<1> SUFFICES ASSUME CodecInv, BeginDecode PROVE CodecInv'
  OBVIOUS
<1>1. /\ CodecType /\ cursor <= Len(plain) + 1 /\ cursor > Len(plain) /\ decoded = <<>>
      /\ task' = "decode" /\ cursor' = 1 /\ UNCHANGED <<codec, plain, coded, decoded>>
  BY DEF CodecInv, BeginDecode
<1>2. PICK starts : Laid(starts, cursor - 1)
  BY DEF CodecInv, BeginDecode
<1>3. Len(plain) \in Nat /\ cursor - 1 = Len(plain)
  BY <1>1, LenProperties DEF CodecType
<1>4. Laid(starts, Len(plain))
  BY <1>2, <1>3
<1>5. Laid(starts, Len(plain))'
  BY <1>1, <1>4 DEF Laid, EncodedAs
<1>6. Len(decoded') = 0 /\ starts[1] = 1
  BY <1>1, <1>4 DEF Laid
<1>7. DecodeInv'
  <2>1. Len(decoded') <= Len(plain') /\ 1 .. Len(decoded') = {} /\ Len(decoded') + 1 = 1
    BY <1>1, <1>3, <1>6
  <2>2. cursor' = starts[Len(decoded') + 1]
    BY <1>1, <1>6, <2>1
  <2>3. QED BY <1>5, <2>1, <2>2, Zenon DEF DecodeInv
<1>8. QED BY <1>1, <1>7 DEF CodecInv, CodecType

(* Where the loop stands in what is encoded, the next byte stands.         *)
LEMMA NextByte ==
  ASSUME CodecType, task = "decode", DecodeInv, NEW starts, Laid(starts, Len(plain)),
         cursor = starts[Len(decoded) + 1]
  PROVE  /\ Len(plain) \in Nat /\ Len(decoded) \in 0 .. Len(plain)
         /\ Len(decoded) = Len(plain) => cursor = Len(coded) + 1
         /\ Len(decoded) < Len(plain) =>
              /\ cursor <= Len(coded)
              /\ plain[Len(decoded) + 1] \in 0 .. 255
              /\ CodeAt(cursor) = Byte(plain[Len(decoded) + 1], starts[Len(decoded) + 2])
              /\ starts[Len(decoded) + 2] \in Nat \ {0}
<1>1. Len(plain) \in Nat /\ Len(coded) \in Nat /\ Len(decoded) \in 0 .. Len(plain)
  <2>1. Len(plain) \in Nat /\ Len(coded) \in Nat /\ Len(decoded) \in Nat
    BY LenProperties DEF CodecType
  <2>2. QED BY <2>1 DEF DecodeInv
<1>2. Len(decoded) = Len(plain) => cursor = Len(coded) + 1
  BY DEF Laid
<1>3. ASSUME Len(decoded) < Len(plain)
      PROVE  /\ cursor <= Len(coded)
             /\ plain[Len(decoded) + 1] \in 0 .. 255
             /\ CodeAt(cursor) = Byte(plain[Len(decoded) + 1], starts[Len(decoded) + 2])
             /\ starts[Len(decoded) + 2] \in Nat \ {0}
  <2> DEFINE k == Len(decoded) + 1
             form == EncodedAs(plain[k])
  <2>1. k \in 1 .. Len(plain) /\ k + 1 \in 1 .. Len(plain) + 1 /\ k + 1 = Len(decoded) + 2
    BY <1>1, <1>3
  <2>2. plain[k] \in 0 .. 255
    BY <2>1, ElementOfSeq DEF CodecType
  <2>3. form \in Seq(Int) /\ Len(form) \in Nat \ {0}
    BY <2>2, FormType DEF CodecType
  <2>4. /\ starts[k + 1] = starts[k] + Len(form) /\ starts[k + 1] <= Len(coded) + 1
        /\ \A j \in 1 .. Len(form) : coded[starts[k] + j - 1] = form[j]
        /\ starts[k + 1] \in Nat \ {0}
    BY <2>1 DEF Laid
  <2>5. starts[k] = cursor /\ cursor \in Nat \ {0}
    BY DEF CodecType
  <2>6. cursor + Len(form) - 1 <= Len(coded) /\ cursor <= Len(coded)
    BY <1>1, <2>3, <2>4, <2>5
  <2>7. CodeAt(cursor) = Byte(plain[k], cursor + Len(form))
    BY <2>2, <2>4, <2>5, <2>6, FormRead DEF CodecType
  <2>8. QED BY <2>1, <2>2, <2>4, <2>5, <2>6, <2>7
<1>4. QED BY <1>1, <1>2, <1>3

LEMMA DecodeCodeKept == CodecInv /\ DecodeCode => CodecInv'
<1> SUFFICES ASSUME CodecInv, DecodeCode PROVE CodecInv'
  OBVIOUS
<1>1. /\ CodecType /\ task = "decode" /\ DecodeInv /\ cursor <= Len(coded)
      /\ decoded' = decoded \o CodeAt(cursor).bytes /\ cursor' = CodeAt(cursor).next
      /\ UNCHANGED <<codec, plain, task, coded>>
  BY DEF CodecInv, DecodeCode
<1>2. PICK starts : Laid(starts, Len(plain)) /\ cursor = starts[Len(decoded) + 1]
  BY <1>1 DEF DecodeInv
<1>3. /\ Len(plain) \in Nat /\ Len(decoded) \in 0 .. Len(plain) /\ Len(coded) \in Nat
      /\ Len(decoded) # Len(plain)
  BY <1>1, <1>2, NextByte, LenProperties DEF CodecType
<1> DEFINE byte == plain[Len(decoded) + 1]
<1>4. /\ byte \in 0 .. 255 /\ starts[Len(decoded) + 2] \in Nat \ {0}
      /\ CodeAt(cursor) = Byte(byte, starts[Len(decoded) + 2])
  <2>1. Len(decoded) < Len(plain)
    BY <1>3
  <2>2. QED BY <1>1, <1>2, <2>1, NextByte
<1>5. decoded' = decoded \o <<byte>> /\ cursor' = starts[Len(decoded) + 2]
  BY <1>1, <1>4 DEF Byte
<1>6. /\ decoded' \in Seq(Int) /\ Len(decoded') = Len(decoded) + 1
      /\ \A j \in 1 .. Len(decoded) + 1 : decoded'[j] = IF j <= Len(decoded) THEN decoded[j] ELSE byte
  <2>1. byte \in Int /\ decoded \in Seq(Int) /\ Len(decoded) \in Nat
    <3>1. byte \in Int
      BY <1>4
    <3> HIDE DEF byte
    <3>2. QED BY <1>1, <1>3, <3>1 DEF CodecType
  <2> HIDE DEF byte
  <2>2. <<byte>> \in Seq(Int) /\ Len(<<byte>>) = 1 /\ <<byte>>[1] = byte
    BY <2>1
  <2>3. /\ decoded \o <<byte>> \in Seq(Int) /\ Len(decoded \o <<byte>>) = Len(decoded) + 1
        /\ \A j \in 1 .. Len(decoded) + 1 : (decoded \o <<byte>>)[j] =
             IF j <= Len(decoded) THEN decoded[j] ELSE <<byte>>[j - Len(decoded)]
    BY <2>1, <2>2, ConcatProperties
  <2>4. \A j \in 1 .. Len(decoded) + 1 : ~ (j <= Len(decoded)) => j - Len(decoded) = 1
    BY <2>1
  <2>5. QED BY <1>5, <2>2, <2>3, <2>4
<1>7. \A k \in 1 .. Len(decoded') : decoded'[k] = plain'[k]
  <2>1. ASSUME NEW k \in 1 .. Len(decoded) + 1 PROVE decoded'[k] = plain[k]
    <3>1. CASE k <= Len(decoded)
      <4>1. k \in 1 .. Len(decoded)
        BY <1>3, <3>1
      <4>2. decoded'[k] = decoded[k] /\ decoded[k] = plain[k]
        BY <1>1, <1>6, <3>1, <4>1 DEF DecodeInv
      <4>3. QED BY <4>2
    <3>2. CASE ~ (k <= Len(decoded))
      <4>1. k = Len(decoded) + 1 /\ decoded'[k] = byte
        BY <1>3, <1>6, <3>2
      <4>2. QED BY <4>1
    <3>3. QED BY <3>1, <3>2
  <2>2. QED BY <1>1, <1>6, <2>1
<1>8. Laid(starts, Len(plain))'
  BY <1>1, <1>2 DEF Laid, EncodedAs
<1>9. DecodeInv'
  <2>1. Len(decoded') <= Len(plain')
    BY <1>1, <1>3, <1>6
  <2>2. cursor' = starts[Len(decoded') + 1]
    <3>1. Len(decoded') + 1 = Len(decoded) + 2
      BY <1>3, <1>6
    <3>2. QED BY <1>5, <3>1
  <2>3. QED BY <1>7, <1>8, <2>1, <2>2, Zenon DEF DecodeInv
<1>10. CodecType'
  BY <1>1, <1>4, <1>5, <1>6 DEF CodecType
<1>11. QED BY <1>1, <1>9, <1>10 DEF CodecInv

LEMMA EndDecodeKept == CodecInv /\ EndDecode => CodecInv'
<1> SUFFICES ASSUME CodecInv, EndDecode PROVE CodecInv'
  OBVIOUS
<1>1. /\ CodecType /\ task = "decode" /\ DecodeInv /\ cursor > Len(coded)
      /\ task' = "done" /\ UNCHANGED <<codec, plain, coded, cursor, decoded>>
  BY DEF CodecInv, EndDecode
<1>2. PICK starts : Laid(starts, Len(plain)) /\ cursor = starts[Len(decoded) + 1]
  BY <1>1 DEF DecodeInv
<1>3. Len(plain) \in Nat /\ Len(coded) \in Nat /\ cursor \in Nat /\ Len(decoded) \in 0 .. Len(plain)
  BY <1>1, <1>2, NextByte, LenProperties DEF CodecType
<1>4. Len(decoded) = Len(plain)
  <2>1. ASSUME Len(decoded) < Len(plain) PROVE FALSE
    <3>1. cursor <= Len(coded)
      BY <1>1, <1>2, <2>1, NextByte
    <3>2. QED BY <1>1, <1>3, <3>1
  <2>2. QED BY <1>3, <2>1
<1>5. decoded = plain
  <2>1. plain \in Seq(Int)
    <3>1. 0 .. 255 \subseteq Int
      OBVIOUS
    <3>2. QED BY <1>1, <3>1, SeqMonotonic, Zenon DEF CodecType
  <2>2. decoded \in Seq(Int) /\ \A k \in 1 .. Len(decoded) : decoded[k] = plain[k]
    BY <1>1 DEF CodecType, DecodeInv
  <2>3. QED BY <1>4, <2>1, <2>2, SeqEqual
<1>6. QED BY <1>1, <1>5 DEF CodecInv, CodecType

LEMMA NextCodec == CodecInv /\ [CodecNext]_codecVars => CodecInv'
<1> SUFFICES ASSUME CodecInv, [CodecNext]_codecVars PROVE CodecInv'
  OBVIOUS
<1>1. CASE UNCHANGED codecVars
  <2>1. UNCHANGED <<codec, plain, task, coded, cursor, decoded>>
    BY <1>1 DEF codecVars
  <2>2. \A starts, n : Laid(starts, n)' <=> Laid(starts, n)
    BY <2>1 DEF Laid, EncodedAs
  <2>3. CodecType' /\ (DecodeInv => DecodeInv')
    BY <2>1, <2>2 DEF CodecInv, CodecType, DecodeInv
  <2>4. QED BY <2>1, <2>2, <2>3 DEF CodecInv
<1>2. QED
  BY <1>1, EncodeByteKept, BeginDecodeKept, DecodeCodeKept, EndDecodeKept DEF CodecNext

(* Whatever bytes a text has, and whichever pair of functions is used,     *)
(* decoding what was encoded gives it back.                                *)
THEOREM DecodingGivesBack == CodecSpec => []DecodingInverts
<1>1. CodecSpec => []CodecInv
  BY InitCodec, NextCodec, PTL DEF CodecSpec
<1>2. CodecInv => DecodingInverts
  BY DEF CodecInv, DecodingInverts
<1>3. QED BY <1>1, <1>2, PTL
==============================================================================
