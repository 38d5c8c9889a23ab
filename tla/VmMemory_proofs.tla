--------------------------- MODULE VmMemory_proofs ---------------------------
(***************************************************************************)
(* Proofs about the sBPF memory map (VmMemory): for every region layout,   *)
(* stack geometry and input fragment list allowed by MemoryAssumption,    *)
(* the translation of fd_vm.h accepts exactly the accesses the byte-level *)
(* reference accepts.  The binary search FragIdx is shown to return the   *)
(* fragment covering the offset by a least-counterexample argument over  *)
(* the length of the searched interval.                                    *)
(***************************************************************************)
EXTENDS MC_VmMemory, WellFoundedInduction, TLAPS

\* The end offset of fragment i: vaddr_offset + region_sz.
FragEnd(i) == Frag(i).voff + Frag(i).sz

\* The pairs <<l, r>> the search of FragIdx is defined on, and one step of
\* it, as written in FragIdx.
SearchDom == (0 .. FragCnt) \X (0 .. FragCnt)

SearchStep(f, o, lr) ==
    LET l == lr[1]
        r == lr[2]
        mid == (l + r) \div 2
    IN  IF l >= r THEN l
        ELSE IF o >= FragEnd(mid) THEN f[<<mid + 1, r>>] ELSE f[<<l, mid>>]

Search(o) == CHOOSE f : f = [lr \in SearchDom |-> SearchStep(f, o, lr)]

\* k is the first index of l .. r whose fragment ends past o, or r when
\* none of l .. r-1 does: what the search over [l, r] returns.
FirstPast(o, l, r, k) ==
    /\ k \in l .. r
    /\ k = r \/ o < FragEnd(k)
    /\ \A i \in l .. k - 1 : o >= FragEnd(i)

Closed(o, l, r) == IF l >= r THEN l ELSE CHOOSE k \in l .. r : FirstPast(o, l, r, k)

\* The fragment the reference assigns to an input offset.
FragOf(o) == CHOOSE j \in 0 .. FragCnt - 1 : CoversByte(j, o)

-----------------------------------------------------------------------------
\* The search is the function its LET defines.
LEMMA FragIdxIsSearch ==
    ASSUME NEW o
    PROVE  FragIdx(o) = Search(o)[<<0, FragCnt - 1>>]
BY DEF FragIdx, Search, SearchStep, SearchDom, FragEnd

\* The layout of input_mem_regions that MemoryAssumption gives.
LEMMA FragFacts ==
    /\ FragCnt \in Nat \ {0}
    /\ \A i \in 0 .. FragCnt - 1 :
          Frag(i).voff \in Nat /\ Frag(i).sz \in Nat /\ Frag(i).w \in BOOLEAN
    /\ Frag(0).voff = 0
    /\ \A i \in 1 .. FragCnt - 1 : Frag(i).voff = FragEnd(i - 1)
    /\ InputSz = FragEnd(FragCnt - 1)
<1>1. FragCnt \in Nat \ {0}
  BY MemoryAssumption DEF FragCnt
<1>2. ASSUME NEW i \in 0 .. FragCnt - 1 PROVE Frag(i) \in Fragment
  BY <1>1, MemoryAssumption DEF Frag, FragCnt
<1>3. QED
  BY <1>1, <1>2, MemoryAssumption DEF Fragment, FragEnd, InputSz

\* The least-number principle on a set of naturals.
LEMMA Least ==
    ASSUME NEW S, S \subseteq Nat, S # {}
    PROVE  \E m \in S : \A k \in S : m <= k
<1>1. PICK x \in S : \A y \in S : ~(<<y, x>> \in OpToRel(<, Nat))
  BY NatLessThanWellFounded, WFMin
<1>2. ASSUME NEW y \in S PROVE x <= y
  <2>1. <<y, x>> \in Nat \X Nat
    OBVIOUS
  <2>2. ~(y < x)
    BY <1>1, <2>1 DEF OpToRel
  <2>3. QED
    BY <2>2
<1>3. QED
  BY <1>2

\* The fragments are laid out in order: a fragment ends at or before the
\* start of every later one.
LEMMA Contiguous ==
    \A i, k \in 0 .. FragCnt - 1 : i < k => FragEnd(i) <= Frag(k).voff
<1> DEFINE Bad == {k \in 0 .. FragCnt - 1 : \E i \in 0 .. k - 1 : FragEnd(i) > Frag(k).voff}
<1>0. \A i \in 0 .. FragCnt - 1 : FragEnd(i) \in Nat /\ Frag(i).voff \in Nat
  BY FragFacts DEF FragEnd
<1>1. SUFFICES Bad = {}
  BY <1>0
<1>2. SUFFICES ASSUME Bad # {} PROVE FALSE
  OBVIOUS
<1>11. Bad \subseteq Nat
  BY FragFacts
<1>3. PICK m \in Bad : \A k \in Bad : m <= k
  BY <1>2, <1>11, Least
<1>4. PICK i \in 0 .. m - 1 : FragEnd(i) > Frag(m).voff
  BY <1>3
<1>5. m \in 1 .. FragCnt - 1
  BY <1>3, <1>4, FragFacts
<1>10. Frag(m).voff = FragEnd(m - 1)
  BY <1>5, FragFacts
<1>6. m - 1 \notin Bad
  BY <1>3, <1>5
<1>7. CASE i = m - 1
  BY <1>0, <1>4, <1>5, <1>10, <1>7
<1>8. CASE i < m - 1
  <2>0. i \in 0 .. (m - 1) - 1 /\ m - 1 \in 0 .. FragCnt - 1
    BY <1>4, <1>5, <1>8, FragFacts
  <2>3. ~(FragEnd(i) > Frag(m - 1).voff)
    BY <1>6, <2>0
  <2>4. i \in 0 .. FragCnt - 1
    BY <2>0, FragFacts
  <2>5. FragEnd(i) \in Nat /\ Frag(m - 1).voff \in Nat
    BY <1>0, <2>0, <2>4
  <2>1. FragEnd(i) <= Frag(m - 1).voff
    BY <2>3, <2>5
  <2>2. QED
    BY <1>0, <1>4, <1>5, <1>10, <2>1, FragFacts DEF FragEnd
<1>9. QED
  BY <1>4, <1>5, <1>7, <1>8

\* Fragment ends never decrease along input_mem_regions.
LEMMA EndMono ==
    \A i, k \in 0 .. FragCnt - 1 : i <= k => FragEnd(i) <= FragEnd(k)
BY Contiguous, FragFacts DEF FragEnd

\* At most one fragment covers an offset (empty fragments cover none).
LEMMA CoverUnique ==
    ASSUME NEW o \in Int, NEW j \in 0 .. FragCnt - 1, NEW j2 \in 0 .. FragCnt - 1,
           CoversByte(j, o), CoversByte(j2, o)
    PROVE  j = j2
<1>0. /\ FragEnd(j) \in Nat /\ Frag(j).voff \in Nat
      /\ FragEnd(j2) \in Nat /\ Frag(j2).voff \in Nat
  BY FragFacts DEF FragEnd
<1>1. ASSUME NEW a \in 0 .. FragCnt - 1, NEW b \in 0 .. FragCnt - 1, a < b,
             CoversByte(a, o), CoversByte(b, o)
      PROVE  FALSE
  <2>1. FragEnd(a) <= Frag(b).voff
    BY <1>1, Contiguous
  <2>2. FragEnd(a) \in Nat /\ Frag(b).voff \in Nat
    BY FragFacts DEF FragEnd
  <2>3. QED
    BY <1>1, <2>1, <2>2 DEF CoversByte, FragEnd
<1>2. QED
  BY <1>1


\* Over a nonempty interval the first index past o exists: the least of
\* the candidates, r being one.
LEMMA FirstPastExists ==
    ASSUME NEW o \in Int, NEW l \in Nat, NEW r \in Nat, l <= r, r <= FragCnt
    PROVE  \E k : FirstPast(o, l, r, k)
<1> DEFINE T == {k \in l .. r : k = r \/ o < FragEnd(k)}
<1>1. T \subseteq Nat /\ T # {}
  OBVIOUS
<1>2. PICK m \in T : \A k \in T : m <= k
  BY <1>1, Least
<1>3. ASSUME NEW i \in l .. m - 1 PROVE o >= FragEnd(i)
  <2>1. i \in l .. r /\ i # r /\ i \in 0 .. FragCnt - 1
    BY <1>2, FragFacts
  <2>2. i \notin T
    BY <1>2, <2>1
  <2>3. ~(o < FragEnd(i))
    BY <2>1, <2>2
  <2>4. FragEnd(i) \in Nat
    BY <2>1, FragFacts DEF FragEnd
  <2>5. QED
    BY <2>3, <2>4
<1>4. QED
  BY <1>2, <1>3 DEF FirstPast

\* And it is unique.
LEMMA FirstPastUnique ==
    ASSUME NEW o \in Int, NEW l \in Nat, NEW r \in Nat, r <= FragCnt,
           NEW k1, NEW k2, FirstPast(o, l, r, k1), FirstPast(o, l, r, k2)
    PROVE  k1 = k2
<1>1. ASSUME NEW a, NEW b, FirstPast(o, l, r, a), FirstPast(o, l, r, b), a < b
      PROVE  FALSE
  <2>1. a \in l .. b - 1 /\ a # r /\ a \in 0 .. FragCnt - 1
    BY <1>1, FragFacts DEF FirstPast
  <2>2. o >= FragEnd(a)
    BY <1>1, <2>1 DEF FirstPast
  <2>3. o < FragEnd(a)
    BY <1>1, <2>1 DEF FirstPast
  <2>4. FragEnd(a) \in Nat
    BY <2>1, FragFacts DEF FragEnd
  <2>5. QED
    BY <2>2, <2>3, <2>4
<1>2. k1 \in Nat /\ k2 \in Nat
  BY DEF FirstPast
<1>3. QED
  BY <1>1, <1>2

\* The closed form satisfies the characterisation.
LEMMA ClosedFirst ==
    ASSUME NEW o \in Int, NEW l \in Nat, NEW r \in Nat, l <= r, r <= FragCnt
    PROVE  FirstPast(o, l, r, Closed(o, l, r))
<1>1. CASE l = r
  BY <1>1 DEF Closed, FirstPast
<1>2. CASE l < r
  <2>1. PICK k : FirstPast(o, l, r, k)
    BY FirstPastExists
  <2>2. k \in l .. r
    BY <2>1 DEF FirstPast
  <2>3. QED
    BY <1>2, <2>1, <2>2 DEF Closed
<1>3. QED
  BY <1>1, <1>2

\* The closed form obeys the recursion of the search: one halving step.
LEMMA ClosedStep ==
    ASSUME NEW o \in Int, NEW l \in Nat, NEW r \in Nat, l < r, r <= FragCnt
    PROVE  LET mid == (l + r) \div 2
           IN  Closed(o, l, r) = IF o >= FragEnd(mid) THEN Closed(o, mid + 1, r)
                                                      ELSE Closed(o, l, mid)
<1> DEFINE mid == (l + r) \div 2
<1>1. mid \in l .. r - 1 /\ mid \in 0 .. FragCnt - 1
  BY FragFacts
<1>2. FragEnd(mid) \in Nat
  BY <1>1, FragFacts DEF FragEnd
<1>0. FirstPast(o, l, r, Closed(o, l, r))
  BY ClosedFirst
<1>3. CASE o >= FragEnd(mid)
  <2> DEFINE k == Closed(o, mid + 1, r)
  <2>0. mid + 1 <= r /\ mid + 1 \in Nat
    BY <1>1
  <2>1. FirstPast(o, mid + 1, r, k)
    BY <2>0, ClosedFirst
  <2>2. ASSUME NEW i \in l .. k - 1 PROVE o >= FragEnd(i)
    <3>1. CASE i <= mid
      <4>1. i \in 0 .. FragCnt - 1
        BY <1>1, <3>1, FragFacts
      <4>2. FragEnd(i) <= FragEnd(mid) /\ FragEnd(i) \in Nat
        BY <1>1, <3>1, <4>1, EndMono, FragFacts DEF FragEnd
      <4>3. QED
        BY <1>2, <1>3, <4>2
    <3>2. CASE i > mid
      BY <2>1, <3>2 DEF FirstPast
    <3>3. QED
      BY <3>1, <3>2, <1>1
  <2>3. FirstPast(o, l, r, k)
    BY <1>1, <2>1, <2>2 DEF FirstPast
  <2>4. QED
    BY <1>0, <1>3, <2>3, FirstPastUnique
<1>4. CASE ~(o >= FragEnd(mid))
  <2> DEFINE k == Closed(o, l, mid)
  <2>0. l <= mid /\ mid \in Nat /\ mid <= FragCnt
    BY <1>1, FragFacts
  <2>1. FirstPast(o, l, mid, k)
    BY <2>0, ClosedFirst
  <2>2. k = r \/ o < FragEnd(k)
    BY <1>2, <1>4, <2>1 DEF FirstPast
  <2>3. FirstPast(o, l, r, k)
    BY <1>1, <2>1, <2>2 DEF FirstPast
  <2>4. QED
    BY <1>0, <1>4, <2>3, FirstPastUnique
<1>5. QED
  BY <1>3, <1>4


\* The search FragIdx defines computes the closed form on every interval:
\* the closed form is a solution of its recursion, so the search is one
\* too, and a least interval where the two differ cannot exist because
\* each step recurses on a strictly shorter interval.
LEMMA SearchClosed ==
    ASSUME NEW o \in Int
    PROVE  \A l, r \in 0 .. FragCnt : l <= r => Search(o)[<<l, r>>] = Closed(o, l, r)
<1>0. FragCnt \in Nat
  BY FragFacts
<1> DEFINE g == [lr \in SearchDom |-> Closed(o, lr[1], lr[2])]
<1>1. g = [lr \in SearchDom |-> SearchStep(g, o, lr)]
  <2> SUFFICES ASSUME NEW lr \in SearchDom PROVE g[lr] = SearchStep(g, o, lr)
    OBVIOUS
  <2>1. PICK l \in 0 .. FragCnt, r \in 0 .. FragCnt : lr = <<l, r>>
    BY DEF SearchDom
  <2>2. CASE l >= r
    BY <2>1, <2>2 DEF Closed, SearchStep
  <2>3. CASE l < r
    <3> DEFINE mid == (l + r) \div 2
    <3>1. <<mid + 1, r>> \in SearchDom /\ <<l, mid>> \in SearchDom
      BY <1>0, <2>1, <2>3 DEF SearchDom
    <3>2. g[<<mid + 1, r>>] = Closed(o, mid + 1, r) /\ g[<<l, mid>>] = Closed(o, l, mid)
      BY <3>1
    <3>3. Closed(o, l, r) = IF o >= FragEnd(mid) THEN Closed(o, mid + 1, r)
                                                 ELSE Closed(o, l, mid)
      BY <1>0, <2>1, <2>3, ClosedStep
    <3>4. QED
      BY <2>1, <2>3, <3>2, <3>3 DEF SearchStep
  <2>4. QED
    BY <2>1, <2>2, <2>3, <1>0
<1> DEFINE f == Search(o)
<1>2. f = [lr \in SearchDom |-> SearchStep(f, o, lr)]
  BY <1>1 DEF Search
<1>3. SUFFICES ASSUME NEW l \in 0 .. FragCnt, NEW r \in 0 .. FragCnt, l <= r,
                      f[<<l, r>>] # Closed(o, l, r)
               PROVE  FALSE
  OBVIOUS
<1> DEFINE Bad == {n \in Nat : \E a, b \in 0 .. FragCnt :
                                  a <= b /\ b - a = n /\ f[<<a, b>>] # Closed(o, a, b)}
<1>4. Bad \subseteq Nat /\ Bad # {}
  <2>0. r - l \in Nat
    BY <1>3, FragFacts
  <2>1. r - l \in Bad
    <3>1. l <= r /\ r - l = r - l /\ f[<<l, r>>] # Closed(o, l, r)
      BY <1>3
    <3>2. QED
      BY <2>0, <3>1, Zenon
  <2>2. QED
    BY <2>1
<1>5. PICK n \in Bad : \A k \in Bad : n <= k
  BY <1>4, Least
<1>12. n \in Nat
  BY <1>4
<1>6. PICK a \in 0 .. FragCnt, b \in 0 .. FragCnt :
          a <= b /\ b - a = n /\ f[<<a, b>>] # Closed(o, a, b)
  BY <1>5
<1>7. <<a, b>> \in SearchDom
  BY DEF SearchDom
<1>8. f[<<a, b>>] = SearchStep(f, o, <<a, b>>)
  BY <1>2, <1>7
<1>9. CASE a = b
  BY <1>6, <1>8, <1>9 DEF SearchStep, Closed
<1>10. CASE a < b
  <2> DEFINE mid == (a + b) \div 2
  <2>1. mid \in a .. b - 1
    BY <1>0, <1>10
  <2>2. f[<<mid + 1, b>>] = Closed(o, mid + 1, b)
    <3>1. b - (mid + 1) \in Nat /\ b - (mid + 1) < n
      BY <1>6, <2>1
    <3>2. b - (mid + 1) \notin Bad
      <4>1. ~(b - (mid + 1) >= n)
        BY <1>12, <3>1
      <4>2. QED
        BY <1>5, <4>1
    <3>3. mid + 1 \in 0 .. FragCnt /\ mid + 1 <= b
      BY <1>0, <2>1
    <3>4. QED
      BY <3>1, <3>2, <3>3
  <2>3. f[<<a, mid>>] = Closed(o, a, mid)
    <3>1. mid - a \in Nat /\ mid - a < n
      BY <1>6, <2>1
    <3>2. mid - a \notin Bad
      <4>1. ~(mid - a >= n)
        BY <1>12, <3>1
      <4>2. QED
        BY <1>5, <4>1
    <3>3. mid \in 0 .. FragCnt /\ a <= mid
      BY <1>0, <2>1
    <3>4. QED
      BY <3>1, <3>2, <3>3
  <2>4. f[<<a, b>>] = IF o >= FragEnd(mid) THEN f[<<mid + 1, b>>] ELSE f[<<a, mid>>]
    BY <1>8, <1>10 DEF SearchStep
  <2>5. Closed(o, a, b) = IF o >= FragEnd(mid) THEN Closed(o, mid + 1, b)
                                               ELSE Closed(o, a, mid)
    BY <1>0, <1>10, ClosedStep
  <2>6. QED
    BY <1>6, <2>2, <2>3, <2>4, <2>5
<1>11. QED
  BY <1>6, <1>9, <1>10

\* fd_vm.h's binary search finds the fragment that covers an offset of
\* the input region: the first fragment whose end lies past it.
LEMMA FragIdxCovers ==
    ASSUME NEW o \in Int, 0 <= o, o < InputSz
    PROVE  FragIdx(o) \in 0 .. FragCnt - 1 /\ CoversByte(FragIdx(o), o)
<1>0. FragCnt \in Nat \ {0}
  BY FragFacts
<1> DEFINE k == Closed(o, 0, FragCnt - 1)
<1>1. FragIdx(o) = k
  BY <1>0, FragIdxIsSearch, SearchClosed
<1>2. FirstPast(o, 0, FragCnt - 1, k)
  BY <1>0, ClosedFirst
<1>3. k \in 0 .. FragCnt - 1 /\ Frag(k).voff \in Nat /\ FragEnd(k) \in Nat
  BY <1>2, FragFacts DEF FirstPast, FragEnd
<1>4. o < FragEnd(k)
  BY <1>2, FragFacts DEF FirstPast
<1>5. Frag(k).voff <= o
  <2>1. CASE k = 0
    BY <2>1, FragFacts
  <2>2. CASE k # 0
    <3>1. Frag(k).voff = FragEnd(k - 1) /\ k - 1 \in 0 .. k - 1
      BY <1>3, <2>2, FragFacts
    <3>2. QED
      BY <1>2, <3>1 DEF FirstPast
  <2>3. QED
    BY <2>1, <2>2
<1>6. QED
  BY <1>1, <1>3, <1>4, <1>5 DEF CoversByte, FragEnd


-----------------------------------------------------------------------------
\* The constants the translation is computed from.
LEMMA ArithFacts ==
    /\ Span \in Nat \ {0}
    /\ Stride \in Nat \ {0}
    /\ GuardSz \in Nat
BY MemoryAssumption DEF Stride

LEMMA LayoutFacts ==
    /\ {RodataSz, StackSz, HeapMax, InputSz} \subseteq 0 .. Span
    /\ DirectMapping \in BOOLEAN
<1>1. {RodataSz, HeapMax} \subseteq Nat /\ DirectMapping \in BOOLEAN
  BY MemoryAssumption
<1>2. StackSz \in Nat
  BY MemoryAssumption, ArithFacts DEF StackSz
<1>3. InputSz \in Nat
  BY FragFacts DEF FragEnd
<1>4. \A n \in {RodataSz, StackSz, HeapMax, InputSz} : n <= Span
  BY MemoryAssumption
<1>5. QED
  BY <1>1, <1>2, <1>3, <1>4, ArithFacts

\* Quotient and remainder are unique.
LEMMA DivModUnique ==
    ASSUME NEW m \in Nat \ {0}, NEW q \in Int, NEW x \in 0 .. m - 1,
           NEW a \in Int, a = q * m + x
    PROVE  a \div m = q /\ a % m = x
OBVIOUS

\* A vaddr inside one of the regions 1 to 4 is its region's start plus its
\* offset.
LEMMA RegionSplit ==
    ASSUME NEW v \in Int, RegionOf(v) \in 1 .. 4
    PROVE  /\ v >= 0
           /\ RegionOf(v) = v \div Span
           /\ OffsetOf(v) \in 0 .. Span - 1
           /\ v = RegionOf(v) * Span + OffsetOf(v)
BY ArithFacts DEF RegionOf, OffsetOf

\* Moving d bytes forward within the region keeps the region and adds d
\* to the offset.
LEMMA SameRegion ==
    ASSUME NEW v \in Int, RegionOf(v) \in 1 .. 4, NEW d \in Nat,
           OffsetOf(v) + d < Span
    PROVE  RegionOf(v + d) = RegionOf(v) /\ OffsetOf(v + d) = OffsetOf(v) + d
<1>0. PICK R \in 1 .. 4, o \in 0 .. Span - 1 :
          RegionOf(v) = R /\ OffsetOf(v) = o /\ v = R * Span + o
  BY RegionSplit
<1>1. v + d = R * Span + (o + d) /\ o + d \in 0 .. Span - 1
  BY <1>0, ArithFacts
<1>2. (v + d) \div Span = R /\ (v + d) % Span = o + d
  BY <1>1, ArithFacts
<1>3. QED
  BY <1>0, <1>1, <1>2 DEF RegionOf, OffsetOf

\* A byte d past v that lies in v's region lies at offset OffsetOf(v) + d.
LEMMA BackRegion ==
    ASSUME NEW v \in Int, RegionOf(v) \in 1 .. 4, NEW d \in Nat,
           RegionOf(v + d) = RegionOf(v)
    PROVE  OffsetOf(v + d) = OffsetOf(v) + d
<1>0. PICK R \in 1 .. 4, o \in 0 .. Span - 1 :
          RegionOf(v) = R /\ OffsetOf(v) = o /\ v = R * Span + o
  BY RegionSplit
<1>1. PICK o2 \in 0 .. Span - 1 : OffsetOf(v + d) = o2 /\ v + d = R * Span + o2
  <2>1. v + d \in Int /\ RegionOf(v + d) \in 1 .. 4 /\ RegionOf(v + d) = R
    BY <1>0
  <2>2. QED
    BY <2>1, RegionSplit
<1>2. QED
  BY <1>0, <1>1, ArithFacts

\* The stack check of fd_vm.h: the access misses the guard zone and stays
\* in one frame exactly when each of its bytes is outside the guard zone
\* of the frame of its first byte.
LEMMA StackFrame ==
    ASSUME NEW o \in Nat, NEW sz \in Nat \ {0}
    PROVE  InStackFrame(o, sz) <=>
               \A d \in 0 .. sz - 1 : /\ (o + d) % Stride >= GuardSz
                                      /\ (o + d) \div Stride = o \div Stride
<1> DEFINE q == o \div Stride
           x == o % Stride
<1>0. /\ Stride \in Nat \ {0} /\ GuardSz \in Nat
      /\ q \in Nat /\ x \in 0 .. Stride - 1 /\ o = q * Stride + x
  BY ArithFacts
<1>1. ASSUME InStackFrame(o, sz), NEW d \in 0 .. sz - 1
      PROVE  (o + d) % Stride >= GuardSz /\ (o + d) \div Stride = q
  <2>1. x + d \in 0 .. Stride - 1 /\ o + d = q * Stride + (x + d)
    BY <1>0, <1>1 DEF InStackFrame
  <2>2. (o + d) \div Stride = q /\ (o + d) % Stride = x + d
    BY <1>0, <2>1
  <2>3. QED
    BY <1>0, <1>1, <2>2 DEF InStackFrame
<1>2. ASSUME \A d \in 0 .. sz - 1 : /\ (o + d) % Stride >= GuardSz
                                    /\ (o + d) \div Stride = q
      PROVE  InStackFrame(o, sz)
  <2>1. x >= GuardSz
    BY <1>0, <1>2
  <2>2. (o + (sz - 1)) \div Stride = q
    BY <1>2
  <2>3. (o + (sz - 1)) % Stride = x + (sz - 1)
    <3>0. o + (sz - 1) \in Nat
      OBVIOUS
    <3>1. (o + (sz - 1)) % Stride = (o + (sz - 1)) - q * Stride
      BY <2>2, <3>0, ArithFacts
    <3>2. QED
      BY <1>0, <3>1
  <2>3a. (o + (sz - 1)) % Stride \in 0 .. Stride - 1
    BY <1>0
  <2>4. QED
    BY <1>0, <2>1, <2>3, <2>3a DEF InStackFrame
<1>3. QED
  BY <1>1, <1>2


\* The reference's fragment of an offset is the fragment covering it.
LEMMA FragOfIs ==
    ASSUME NEW x \in Int, NEW j \in 0 .. FragCnt - 1, CoversByte(j, x)
    PROVE  FragOf(x) = j
<1>1. FragOf(x) \in 0 .. FragCnt - 1 /\ CoversByte(FragOf(x), x)
  BY DEF FragOf
<1>2. QED
  BY <1>1, CoverUnique

\* The direct-mapped input check of fd_vm.h: the access ends inside the
\* fragment FragIdx finds and, for a store, that fragment is writable,
\* exactly when every byte is covered, with the permission, by the
\* fragment of the first byte.
LEMMA FragRange ==
    ASSUME NEW kind \in Kinds, NEW o \in Nat, NEW sz \in Nat \ {0}, o < InputSz
    PROVE  InFragment(kind, o, sz) <=>
               \A d \in 0 .. sz - 1 :
                   /\ \E j \in 0 .. FragCnt - 1 : CoversByte(j, o + d) /\ (kind = "st" => Frag(j).w)
                   /\ FragOf(o + d) = FragOf(o)
<1> DEFINE i == FragIdx(o)
<1>1. i \in 0 .. FragCnt - 1 /\ CoversByte(i, o)
  BY FragIdxCovers
<1>2. FragOf(o) = i
  BY <1>1, FragOfIs
<1>3. Frag(i).voff \in Nat /\ FragEnd(i) \in Nat
  BY <1>1, FragFacts DEF FragEnd
<1>4. ASSUME InFragment(kind, o, sz), NEW d \in 0 .. sz - 1
      PROVE  /\ \E j \in 0 .. FragCnt - 1 : CoversByte(j, o + d) /\ (kind = "st" => Frag(j).w)
             /\ FragOf(o + d) = FragOf(o)
  <2>1. CoversByte(i, o + d)
    BY <1>1, <1>3, <1>4 DEF InFragment, CoversByte, FragEnd
  <2>2. kind = "st" => Frag(i).w
    BY <1>4 DEF InFragment
  <2>3. FragOf(o + d) = i
    BY <1>1, <2>1, FragOfIs
  <2>4. QED
    BY <1>1, <1>2, <2>1, <2>2, <2>3
<1>5. ASSUME \A d \in 0 .. sz - 1 :
                 /\ \E j \in 0 .. FragCnt - 1 : CoversByte(j, o + d) /\ (kind = "st" => Frag(j).w)
                 /\ FragOf(o + d) = FragOf(o)
      PROVE  InFragment(kind, o, sz)
  <2>1. PICK jl \in 0 .. FragCnt - 1 : CoversByte(jl, o + (sz - 1))
    BY <1>5
  <2>2. jl = i
    <3>1. FragOf(o + (sz - 1)) = jl
      BY <2>1, FragOfIs
    <3>2. QED
      BY <1>2, <1>5, <3>1
  <2>3. o + sz <= FragEnd(i)
    BY <1>3, <2>1, <2>2 DEF CoversByte, FragEnd
  <2>4. PICK j0 \in 0 .. FragCnt - 1 : CoversByte(j0, o) /\ (kind = "st" => Frag(j0).w)
    BY <1>5
  <2>5. j0 = i
    BY <1>1, <2>4, CoverUnique
  <2>6. QED
    BY <2>3, <2>4, <2>5 DEF InFragment, FragEnd
<1>6. QED
  BY <1>4, <1>5

\* UnitOf, with the fragment of an input byte named.
LEMMA UnitOfIs ==
    ASSUME NEW b
    PROVE  UnitOf(b) = IF RegionOf(b) = 2 THEN <<2, OffsetOf(b) \div Stride>>
                       ELSE IF RegionOf(b) = 4 /\ DirectMapping THEN <<4, FragOf(OffsetOf(b))>>
                       ELSE <<RegionOf(b), 0>>
BY DEF UnitOf, FragOf


\* The first component of a byte's unit is its region.
LEMMA UnitRegion ==
    ASSUME NEW b
    PROVE  UnitOf(b)[1] = RegionOf(b)
BY UnitOfIs


\* The load and store limits of the six regions.
LEMMA LimitFacts ==
    ASSUME NEW k \in Kinds, NEW rr \in 0 .. 5
    PROVE  /\ RegionLimit(k, rr) \in 0 .. Span
           /\ rr \in {0, 5} => RegionLimit(k, rr) = 0
           /\ rr = 2 => RegionLimit(k, rr) = StackSz
           /\ rr = 4 => RegionLimit(k, rr) = InputSz
<1>1. rr = 0 \/ rr = 1 \/ rr = 2 \/ rr = 3 \/ rr = 4 \/ rr = 5
  OBVIOUS
<1>2. 0 \in 0 .. Span
  BY ArithFacts
<1>3. QED
  BY <1>1, <1>2, LayoutFacts DEF RegionLimit, RegionLdSz, RegionStSz, Kinds

-----------------------------------------------------------------------------
\* For every region layout, stack geometry, input fragment list, direct
\* mapping and alignment setting: fd_vm.h's translation (region table,
\* stack guard check, binary search of input_mem_regions) accepts an
\* access of any kind and width at any vaddr exactly when the byte-level
\* reference does: every byte mapped for the access's kind, all in the
\* unit of the first byte.  No access straddles two fragments, two stack
\* frames or two regions, and no valid access is refused.
THEOREM TranslateAgrees ==
    ASSUME NEW kind \in Kinds, NEW v \in Int, NEW sz \in Widths
    PROVE  TranslateOk(kind, v, sz) <=> TranslateRef(kind, v, sz)
<1> DEFINE r == RegionOf(v)
           o == OffsetOf(v)
           L == RegionLimit(kind, r)
           Body == /\ o + sz <= L
                   /\ r = 2 => InStackFrame(o, sz)
                   /\ (r = 4 /\ DirectMapping) => InFragment(kind, o, sz)
           Bytes == \A b \in v .. v + sz - 1 : ByteOk(kind, b) /\ UnitOf(b) = UnitOf(v)
<1>1. SUFFICES Body <=> Bytes
  BY DEF TranslateOk, TranslateRef
<1>2. sz \in Nat \ {0} /\ o \in 0 .. Span - 1 /\ r \in 0 .. 5
  BY ArithFacts DEF Widths, OffsetOf, RegionOf
<1>3. /\ L \in 0 .. Span
      /\ r \in {0, 5} => L = 0
      /\ r = 2 => L = StackSz
      /\ r = 4 => L = InputSz
  BY <1>2, LimitFacts
<1>4. CASE ~(o < L)
  <2>1. ~Body
    BY <1>2, <1>3, <1>4
  <2>2. ~(ByteOk(kind, v))
    BY <1>4 DEF ByteOk
  <2>3. v \in v .. v + sz - 1
    BY <1>2
  <2>4. QED
    BY <2>1, <2>2, <2>3
<1>5. CASE o < L
  <2>1. r \in 1 .. 4
    BY <1>2, <1>3, <1>5
  <2>2. ASSUME o + sz <= L PROVE Body <=> Bytes
    <3>1. \A d \in 0 .. sz - 1 : RegionOf(v + d) = r /\ OffsetOf(v + d) = o + d
      <4> SUFFICES ASSUME NEW d \in 0 .. sz - 1
                   PROVE  RegionOf(v + d) = r /\ OffsetOf(v + d) = o + d
        OBVIOUS
      <4>1. d \in Nat /\ o + d < Span
        BY <1>2, <1>3, <2>2, ArithFacts
      <4>2. QED
        BY <2>1, <4>1, SameRegion
    <3>2. Bytes <=> \A d \in 0 .. sz - 1 : ByteOk(kind, v + d) /\ UnitOf(v + d) = UnitOf(v)
      <4>1. \A b \in v .. v + sz - 1 : b = v + (b - v) /\ b - v \in 0 .. sz - 1
        BY <1>2
      <4>2. \A d \in 0 .. sz - 1 : v + d \in v .. v + sz - 1
        BY <1>2
      <4>3. QED
        BY <4>1, <4>2
    <3>3. \A d \in 0 .. sz - 1 :
              ByteOk(kind, v + d) <=>
                  /\ r = 2 => (o + d) % Stride >= GuardSz
                  /\ (r = 4 /\ DirectMapping) =>
                        \E j \in 0 .. FragCnt - 1 : CoversByte(j, o + d) /\ (kind = "st" => Frag(j).w)
      BY <1>2, <1>3, <2>2, <3>1 DEF ByteOk
    <3>4. CASE r = 2
      <4>1. \A d \in 0 .. sz - 1 : UnitOf(v + d) = UnitOf(v) <=> (o + d) \div Stride = o \div Stride
        BY <3>1, <3>4, UnitOfIs
      <4>2. o \in Nat
        BY <1>2
      <4>3. Body <=> InStackFrame(o, sz)
        BY <2>2, <3>4
      <4>4. Bytes <=> \A d \in 0 .. sz - 1 : /\ (o + d) % Stride >= GuardSz
                                             /\ (o + d) \div Stride = o \div Stride
        BY <3>2, <3>3, <3>4, <4>1
      <4>5. QED
        BY <4>2, <4>3, <4>4, <1>2, StackFrame
    <3>5. CASE r = 4 /\ DirectMapping
      <4>1. \A d \in 0 .. sz - 1 : UnitOf(v + d) = UnitOf(v) <=> FragOf(o + d) = FragOf(o)
        BY <3>1, <3>5, UnitOfIs
      <4>2. o \in Nat /\ o < InputSz
        BY <1>2, <1>3, <1>5, <3>5
      <4>3. Body <=> InFragment(kind, o, sz)
        BY <2>2, <3>5
      <4>4. Bytes <=>
                \A d \in 0 .. sz - 1 :
                    /\ \E j \in 0 .. FragCnt - 1 : CoversByte(j, o + d) /\ (kind = "st" => Frag(j).w)
                    /\ FragOf(o + d) = FragOf(o)
        BY <3>2, <3>3, <3>5, <4>1
      <4>5. QED
        BY <4>2, <4>3, <4>4, <1>2, FragRange
    <3>6. CASE r # 2 /\ ~(r = 4 /\ DirectMapping)
      <4>1. \A d \in 0 .. sz - 1 : UnitOf(v + d) = UnitOf(v)
        BY <3>1, <3>6, UnitOfIs
      <4>2. QED
        BY <2>2, <3>2, <3>3, <3>6, <4>1
    <3>7. QED
      BY <3>4, <3>5, <3>6
  <2>3. ASSUME Bytes PROVE o + sz <= L
    <3>1. ByteOk(kind, v + (sz - 1)) /\ UnitOf(v + (sz - 1)) = UnitOf(v)
      <4>1. v + (sz - 1) \in v .. v + sz - 1
        BY <1>2
      <4>2. QED
        BY <2>3, <4>1
    <3>2. RegionOf(v + (sz - 1)) = r
      BY <3>1, UnitRegion
    <3>3. OffsetOf(v + (sz - 1)) = o + (sz - 1)
      BY <1>2, <2>1, <3>2, BackRegion
    <3>4. OffsetOf(v + (sz - 1)) < L
      BY <3>1, <3>2 DEF ByteOk
    <3>5. QED
      BY <1>2, <1>3, <3>3, <3>4
  <2>4. QED
    BY <2>2, <2>3
<1>6. QED
  BY <1>4, <1>5


\* The probed access keeps its type.
Probed == access \in Accesses

\* The invariant of the vm_translate run, for every configuration and not
\* only the one its cfg gives: each probed access is translated by
\* fd_vm.h exactly as the byte-level reference says.
THEOREM TranslateCorrect == ProbeSpec => []TranslateMatchesReference
<1>1. ProbeInit => Probed
  BY DEF ProbeInit, Probed
<1>2. Probed /\ [ProbeNext]_access => Probed'
  BY DEF ProbeNext, Probed
<1>3. Probed => TranslateMatchesReference
  <2> SUFFICES ASSUME Probed
               PROVE  TranslateOk(access.kind, access.v, access.sz)
                          <=> TranslateRef(access.kind, access.v, access.sz)
    BY DEF TranslateMatchesReference
  <2>1. access.kind \in Kinds /\ access.v \in Int /\ access.sz \in Widths
    BY ArithFacts DEF Probed, Accesses
  <2>2. QED
    BY <2>1, TranslateAgrees
<1>4. QED
  BY <1>1, <1>2, <1>3, PTL DEF ProbeSpec

=============================================================================
