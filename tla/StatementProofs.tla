--------------------------- MODULE StatementProofs ---------------------------
(***************************************************************************)
(* Reading a statement back, for any ledger, amounts, opening balance,     *)
(* dates, page size and choice among the layouts.                          *)
(*                                                                         *)
(* The argument follows the code.  The printed pages join into the text    *)
(* they were cut from, so that a pull parses the lines of its window.  On  *)
(* those lines only a few mappings of columns are candidates, one of them  *)
(* right, and whatever is chosen passes if the right one does, because the *)
(* choice puts passing first.  What is left is arithmetic: a mapping that  *)
(* passes, and that the right one does not outrank, reads every row the    *)
(* way the ledger has it.                                                  *)
(***************************************************************************)
EXTENDS StatementRequirements, DataLemmas, SequenceTheorems

-----------------------------------------------------------------------------
(* Lists.                                                                  *)

\* What joining lists one after another gives, list by list.
JoinsUp(f, seqs) ==
    f = [i \in 1 .. Len(seqs) |-> IF i = 1 THEN seqs[1] ELSE f[i - 1] \o seqs[i]]

\* Joining some lists gives what its rule says of the last of them.
LEMMA JoinRule ==
    ASSUME NEW S, NEW seqs \in Seq(S), seqs # <<>>
    PROVE  \E f : JoinsUp(f, seqs) /\ FlattenSeq(seqs) = f[Len(seqs)]
<1> DEFINE n == Len(seqs)
           Given(g, i) == IF i = 1 THEN seqs[1] ELSE g[i - 1] \o seqs[i]
           Upto(g, k) == g = [i \in 1 .. k |-> Given(g, i)]
           Missed == {k \in Nat : ~ \E g : Upto(g, k)}
<1>1. ASSUME Missed # {} PROVE FALSE
  <2>1. PICK k \in Missed : \A m \in Missed : k <= m
    <3> HIDE DEF Missed
    <3>1. Missed \in SUBSET Nat
      BY DEF Missed
    <3> QED BY <3>1, <1>1, LeastNatural
  <2>2. k \in Nat /\ ~ \E g : Upto(g, k)
    BY <2>1
  <2>3. CASE k = 0
    <3>1. Upto([i \in 1 .. 0 |-> 0], 0)
      OBVIOUS
    <3> QED BY <2>2, <2>3, <3>1
  <2>4. CASE k # 0
    <3>1. k - 1 \in Nat /\ k - 1 \notin Missed
      <4> HIDE DEF Missed
      <4> QED BY <2>1, <2>2, <2>4
    <3>2. PICK g : Upto(g, k - 1)
      BY <3>1
    <3> DEFINE h == [i \in 1 .. k |-> Given(g, i)]
    <3>3. \A i \in 1 .. k - 1 : h[i] = g[i]
      <4> HIDE DEF Given
      <4>1. \A i \in 1 .. k - 1 : g[i] = Given(g, i)
        BY <3>2
      <4>2. \A i \in 1 .. k : h[i] = Given(g, i)
        OBVIOUS
      <4> HIDE DEF h
      <4> QED BY <4>1, <4>2, <2>2
    <3>4. \A i \in 1 .. k : Given(h, i) = Given(g, i)
      <4> SUFFICES ASSUME NEW i \in 1 .. k PROVE Given(h, i) = Given(g, i)
        OBVIOUS
      <4>1. CASE i = 1
        BY <4>1
      <4>2. CASE i # 1
        <5>1. i - 1 \in 1 .. k - 1
          BY <4>2, <2>2
        <5>2. h[i - 1] = g[i - 1]
          BY <5>1, <3>3
        <5> HIDE DEF h
        <5> QED BY <4>2, <5>2
      <4> QED BY <4>1, <4>2
    <3>5. [i \in 1 .. k |-> Given(h, i)] = [i \in 1 .. k |-> Given(g, i)]
      <4> HIDE DEF h
      <4>1. \A i \in 1 .. k : Given(h, i) = Given(g, i)
        BY <3>4 DEF h
      <4> HIDE DEF Given
      <4> QED BY <4>1
    <3>6. Upto(h, k)
      BY <3>5
    <3> QED BY <2>2, <3>6
  <2> QED BY <2>3, <2>4
<1>2. n \in Nat /\ n # 0
  OBVIOUS
<1>3. \E g : JoinsUp(g, seqs)
  <2>1. n \notin Missed
    BY <1>1
  <2>2. PICK g : Upto(g, n)
    BY <2>1, <1>2
  <2> QED BY <2>2 DEF JoinsUp
<1> DEFINE flatten == CHOOSE g : JoinsUp(g, seqs)
<1>4. JoinsUp(flatten, seqs)
  BY <1>3
<1>5. FlattenSeq(seqs) = flatten[n]
  <2>1. FlattenSeq(seqs)
          = (CHOOSE g : g = [i \in 1 .. Len(seqs) |-> IF i = 1 THEN seqs[i] ELSE g[i - 1] \o seqs[i]])[n]
    BY <1>2 DEF FlattenSeq
  <2>2. \A g : g = [i \in 1 .. Len(seqs) |-> IF i = 1 THEN seqs[i] ELSE g[i - 1] \o seqs[i]]
                <=> JoinsUp(g, seqs)
    <3>1. ASSUME NEW g
          PROVE [i \in 1 .. Len(seqs) |-> IF i = 1 THEN seqs[i] ELSE g[i - 1] \o seqs[i]]
                  = [i \in 1 .. Len(seqs) |-> IF i = 1 THEN seqs[1] ELSE g[i - 1] \o seqs[i]]
      OBVIOUS
    <3> QED BY <3>1 DEF JoinsUp
  <2> QED BY <2>1, <2>2
<1> QED BY <1>4, <1>5

-----------------------------------------------------------------------------
(* Pages: how a list is cut into them, and what is left of it once joined. *)

\* The lines on the first p pages, of n.
Cut(p, n) == IF p * PageSize < n THEN p * PageSize ELSE n

PageCount(n) == (n + PageSize - 1) \div PageSize

PageOf(h, list, p) == <<h>> \o SubSeq(list, Cut(p - 1, Len(list)) + 1, Cut(p, Len(list)))

PagesOf(h, list) == [p \in 1 .. PageCount(Len(list)) |-> PageOf(h, list, p)]

\* A page holds at least one row.
LEMMA PageSizeTyped == PageSize \in Nat \ {0}
BY ParserAssumption DEF ParserAssumption

\* Every page but the last is full, and none is empty.
LEMMA CutSteps ==
    ASSUME NEW n \in Nat \ {0}
    PROVE  /\ PageCount(n) \in Nat \ {0}
           /\ Cut(0, n) = 0 /\ Cut(PageCount(n), n) = n
           /\ \A p \in 1 .. PageCount(n) :
                 /\ (p - 1) * PageSize = Cut(p - 1, n)
                 /\ Cut(p - 1, n) \in 0 .. n /\ Cut(p, n) \in 1 .. n
                 /\ Cut(p - 1, n) < Cut(p, n)
<1> DEFINE q == PageCount(n)  a == n + PageSize - 1
<1>1. a \in Int /\ PageSize \in Nat \ {0}
  BY PageSizeTyped
<1>2. q \in Int /\ a = PageSize * q + (a % PageSize) /\ a % PageSize \in 0 .. PageSize - 1
  BY <1>1, Division DEF PageCount
<1>3. \A c \in Int : c <= q <=> c * PageSize <= a
  BY <1>1, Floor DEF PageCount
<1>4. 1 <= q
  <2>1. 1 * PageSize <= a
    BY <1>1
  <2> QED BY <2>1, <1>3
<1>5. q * PageSize >= n /\ q * PageSize \in Int
  BY <1>1, <1>2
<1>6. Cut(q, n) = n
  BY <1>5 DEF Cut
<1>7. Cut(0, n) = 0
  BY <1>1 DEF Cut
<1>8. ASSUME NEW p \in 1 .. q
      PROVE  /\ (p - 1) * PageSize = Cut(p - 1, n)
             /\ Cut(p - 1, n) \in 0 .. n /\ Cut(p, n) \in 1 .. n
             /\ Cut(p - 1, n) < Cut(p, n)
  <2> DEFINE u == (p - 1) * PageSize  v == p * PageSize
  <2>1. p \in Int /\ p - 1 \in Nat
    BY <1>2, <1>4
  <2>2. v <= a
    BY <1>3, <2>1
  <2>3. u \in Int /\ v \in Int /\ v = u + PageSize /\ u >= 0
    BY <2>1, <1>1
  <2>4. Cut(p - 1, n) = (IF u < n THEN u ELSE n) /\ Cut(p, n) = (IF v < n THEN v ELSE n)
    BY DEF Cut
  <2> HIDE DEF u, v
  <2>5. u < n
    BY <2>2, <2>3, <1>1
  <2>6. Cut(p - 1, n) = u
    BY <2>4, <2>5
  <2>7. u \in 0 .. n /\ u < v
    BY <2>3, <2>5, <1>1
  <2>8. Cut(p, n) \in 1 .. n /\ u < Cut(p, n)
    BY <2>3, <2>4, <2>5, <2>7
  <2> QED BY <2>6, <2>7, <2>8 DEF u
<1> QED BY <1>2, <1>4, <1>6, <1>7, <1>8

\* The pages of a pull are its lines, cut, each under the header.
LEMMA PagesAre ==
    ASSUME NEW layout, NEW T, NEW ts \in Seq(T), ts # <<>>
    PROVE  Pages(layout, ts) = PagesOf(Header(layout), Lines(layout, ts))
<1> DEFINE list == Lines(layout, ts)  n == Len(ts)
<1>1. n \in Nat \ {0} /\ Len(list) = n
  BY DEF Lines
<1>2. Pages(layout, ts)
        = [p \in 1 .. PageCount(n) |->
             <<Header(layout)>> \o SubSeq(list, (p - 1) * PageSize + 1, Cut(p, n))]
  BY DEF Pages, PageCount, Cut
<1>3. \A p \in 1 .. PageCount(n) : (p - 1) * PageSize = Cut(p - 1, n)
  BY <1>1, CutSteps
<1> HIDE DEF list, n
<1>4. PagesOf(Header(layout), list)
        = [p \in 1 .. PageCount(n) |->
             <<Header(layout)>> \o SubSeq(list, Cut(p - 1, n) + 1, Cut(p, n))]
  BY <1>1 DEF PagesOf, PageOf
<1> QED BY <1>2, <1>3, <1>4 DEF list

\* Two lists that begin with the same line share one at least.
LEMMA SharedIs ==
    ASSUME NEW S, NEW first \in Seq(S), NEW page \in Seq(S), first # <<>>, page # <<>>,
           first[1] = page[1]
    PROVE  Shared(first, page) \in 1 .. Len(page)
<1> DEFINE N == {n \in 0 .. Len(page) : n <= Len(first) /\ SubSeq(page, 1, n) = SubSeq(first, 1, n)}
<1>1. SubSeq(page, 1, 1) = SubSeq(first, 1, 1)
  <2>1. 1 \in 1 .. Len(page) /\ 1 \in 1 .. Len(first)
    OBVIOUS
  <2>2. SubSeq(page, 1, 1) \in Seq(S) /\ Len(SubSeq(page, 1, 1)) = 1 /\ SubSeq(page, 1, 1)[1] = page[1]
    BY <2>1
  <2>3. SubSeq(first, 1, 1) \in Seq(S) /\ Len(SubSeq(first, 1, 1)) = 1 /\ SubSeq(first, 1, 1)[1] = first[1]
    BY <2>1
  <2> DEFINE a == SubSeq(page, 1, 1)  b == SubSeq(first, 1, 1)
  <2> HIDE DEF a, b
  <2>4. a = b
    BY <2>2, <2>3 DEF a, b
  <2> QED BY <2>4 DEF a, b
<1>2. 1 \in N
  <2>1. Len(page) >= 1 /\ Len(first) >= 1
    OBVIOUS
  <2> QED BY <1>1, <2>1
<1>3. N \in SUBSET (0 .. Len(page)) /\ Len(page) \in Nat
  OBVIOUS
<1>4. IsFiniteSet(N)
  <2>1. IsFiniteSet(0 .. Len(page))
    BY <1>3, FS_Interval
  <2> HIDE DEF N
  <2> QED BY <1>3, <2>1, FS_Subset
<1>5. \E x \in N : \A y \in N : x >= y
  <2> DEFINE id == [x \in N |-> x]
  <2>1. \A x \in N : id[x] \in Int
    BY <1>3
  <2>2. N # {}
    BY <1>2
  <2>3. \E x \in N : \A y \in N : id[y] <= id[x]
    <3> HIDE DEF id, N
    <3> QED BY <2>1, <2>2, <1>4, LargestValue
  <2>4. \A x \in N : x \in Int
    BY <1>3
  <2> HIDE DEF N
  <2> QED BY <2>3, <2>4
<1>6. Shared(first, page) = Max(N)
  BY DEF Shared
<1> HIDE DEF N
<1>7. Max(N) \in N /\ \A y \in N : Max(N) >= y
  BY <1>5 DEF Max
<1>8. Max(N) \in 0 .. Len(page) /\ Max(N) >= 1
  BY <1>2, <1>3, <1>7
<1> QED BY <1>3, <1>6, <1>8

\* What is known of the text once the pages of the first k lines are joined.
Upto(text, S, h, list, k) ==
    /\ text \in Seq(S) /\ text # <<>> /\ Len(text) <= k + 1
    /\ Len(text) = k + 1 => text = <<h>> \o SubSeq(list, 1, k)

\* Joining adds the lengths and keeps what comes first.
LEMMA ConcatIs ==
    ASSUME NEW S, NEW a \in Seq(S), NEW b \in Seq(S)
    PROVE  /\ a \o b \in Seq(S) /\ Len(a \o b) = Len(a) + Len(b)
           /\ \A i \in 1 .. Len(a) : (a \o b)[i] = a[i]
           /\ \A i \in 1 .. Len(b) : (a \o b)[Len(a) + i] = b[i]
           /\ a # <<>> => a \o b # <<>>
OBVIOUS

\* A part of a list.
LEMMA PartIs ==
    ASSUME NEW S, NEW list \in Seq(S), NEW i \in 1 .. Len(list) + 1, NEW j \in i - 1 .. Len(list)
    PROVE  /\ SubSeq(list, i, j) \in Seq(S) /\ Len(SubSeq(list, i, j)) = j - i + 1
           /\ \A n \in 1 .. j - i + 1 : SubSeq(list, i, j)[n] = list[i + n - 1]
<1>1. i \in Int /\ j \in Int /\ \A n \in i .. j : list[n] \in S
  OBVIOUS
<1>2. /\ SubSeq(list, i, j) \in Seq(S)
      /\ Len(SubSeq(list, i, j)) = IF i <= j THEN j - i + 1 ELSE 0
      /\ \A n \in 1 .. j - i + 1 : SubSeq(list, i, j)[n] = list[i + n - 1]
  BY <1>1, SubSeqProperties
<1> QED BY <1>1, <1>2

\* What a header leaves of a list.
LEMMA UnderHeader ==
    ASSUME NEW S, NEW h \in S, NEW part \in Seq(S)
    PROVE  /\ <<h>> \o part \in Seq(S) /\ Len(<<h>> \o part) = Len(part) + 1
           /\ (<<h>> \o part)[1] = h /\ <<h>> \o part # <<>>
           /\ SubSeq(<<h>> \o part, 2, Len(<<h>> \o part)) = part
<1> DEFINE page == <<h>> \o part
<1>1. /\ page \in Seq(S) /\ Len(page) = Len(part) + 1 /\ page # <<>> /\ page[1] = h
      /\ \A i \in 1 .. Len(part) : page[i + 1] = part[i]
  OBVIOUS
<1> HIDE DEF page
<1> DEFINE rest == SubSeq(page, 2, Len(page))
<1>2. Len(page) \in Nat /\ Len(part) \in Nat
  BY <1>1
<1>3. /\ rest \in Seq(S) /\ Len(rest) = Len(page) - 2 + 1
      /\ \A n \in 1 .. Len(page) - 2 + 1 : rest[n] = page[2 + n - 1]
  <2>1. 2 \in 1 .. Len(page) + 1 /\ Len(page) \in 2 - 1 .. Len(page)
    BY <1>1, <1>2
  <2> QED BY <1>1, <2>1, PartIs
<1> HIDE DEF rest
<1>4. Len(page) - 2 + 1 = Len(part)
  BY <1>1, <1>2
<1>5. \A n \in 1 .. Len(part) : rest[n] = part[n]
  <2> SUFFICES ASSUME NEW n \in 1 .. Len(part) PROVE rest[n] = part[n]
    OBVIOUS
  <2>1. 2 + n - 1 = n + 1
    BY <1>2
  <2>2. n \in 1 .. Len(page) - 2 + 1
    BY <1>4
  <2>3. rest[n] = page[n + 1]
    BY <1>3, <2>1, <2>2
  <2> QED BY <1>1, <2>3
<1>6. rest = part
  BY <1>3, <1>4, <1>5
<1> QED BY <1>1, <1>6 DEF rest, page

\* Lines k + 1 to m, under a header, and what joining them to a text adds to it.
Sheet(h, list, k, m) == <<h>> \o SubSeq(list, k + 1, m)

Continued(text, page, shared) == text \o SubSeq(page, shared + 1, Len(page))

\* One more page: unless it loses more than its header, it continues the text.
LEMMA JoinStep ==
    ASSUME NEW S, NEW h \in S, NEW list \in Seq(S), NEW k \in 1 .. Len(list),
           NEW m \in k + 1 .. Len(list), NEW text, Upto(text, S, h, list, k),
           NEW shared \in 1 .. Len(Sheet(h, list, k, m))
    PROVE  /\ Upto(Continued(text, Sheet(h, list, k, m), shared), S, h, list, m)
           /\ Len(text) = k + 1 /\ shared = 1
                => Len(Continued(text, Sheet(h, list, k, m), shared)) = m + 1
<1> DEFINE page == Sheet(h, list, k, m)
           part == SubSeq(list, k + 1, m)
           rest == SubSeq(page, shared + 1, Len(page))
           next == Continued(text, page, shared)
<1>0. Len(list) \in Nat /\ k \in Nat /\ m \in Nat /\ k < m /\ m <= Len(list) /\ k >= 1
  OBVIOUS
<1>1. part \in Seq(S) /\ Len(part) = m - k
  <2>1. k + 1 \in 1 .. Len(list) + 1 /\ m \in (k + 1) - 1 .. Len(list) /\ m - (k + 1) + 1 = m - k
    BY <1>0
  <2> QED BY <2>1, PartIs
<1> HIDE DEF part
<1>2. page \in Seq(S) /\ Len(page) = m - k + 1 /\ SubSeq(page, 2, Len(page)) = part
  <2>1. page = <<h>> \o part
    BY DEF part, Sheet
  <2> HIDE DEF page
  <2> QED BY <1>1, <2>1, UnderHeader
<1>3. shared \in 1 .. Len(page)
  OBVIOUS
<1> HIDE DEF page
<1>4. rest \in Seq(S) /\ Len(rest) = Len(page) - shared
  <2>1. shared + 1 \in 1 .. Len(page) + 1 /\ Len(page) \in (shared + 1) - 1 .. Len(page)
        /\ Len(page) - (shared + 1) + 1 = Len(page) - shared
    BY <1>2, <1>3
  <2> QED BY <1>2, <2>1, PartIs
<1>5. text \in Seq(S) /\ text # <<>> /\ Len(text) <= k + 1
      /\ (Len(text) = k + 1 => text = <<h>> \o SubSeq(list, 1, k))
  BY DEF Upto
<1>6. shared = 1 => rest = part
  BY <1>2
<1>7. next = text \o rest
  BY DEF Continued
<1> HIDE DEF rest, next
<1>8. next \in Seq(S) /\ Len(next) = Len(text) + Len(rest) /\ next # <<>>
  BY <1>4, <1>5, <1>7, ConcatIs
<1>9. /\ Len(next) <= m + 1
      /\ Len(next) = m + 1 => Len(text) = k + 1 /\ shared = 1
      /\ Len(text) = k + 1 /\ shared = 1 => Len(next) = m + 1
  <2> DEFINE a == Len(text)  b == Len(page)  c == Len(rest)  d == Len(next)
  <2>1. a \in Nat /\ a <= k + 1 /\ b = m - k + 1 /\ c = b - shared /\ d = a + c
    BY <1>2, <1>4, <1>5, <1>8
  <2>2. shared \in Int /\ shared >= 1
    BY <1>2, <1>3
  <2> HIDE DEF a, b, c, d
  <2>3. /\ d <= m + 1
        /\ d = m + 1 => a = k + 1 /\ shared = 1
        /\ a = k + 1 /\ shared = 1 => d = m + 1
    BY <1>0, <2>1, <2>2
  <2> QED BY <2>3 DEF a, d
<1>10. ASSUME Len(text) = k + 1, shared = 1
       PROVE next = <<h>> \o SubSeq(list, 1, m)
  <2> DEFINE first == SubSeq(list, 1, k)
  <2>1. next = (<<h>> \o first) \o part
    BY <1>5, <1>6, <1>7, <1>10
  <2>2. first \in Seq(S)
    <3>1. 1 \in 1 .. Len(list) + 1 /\ k \in 1 - 1 .. Len(list)
      BY <1>0
    <3> QED BY <3>1, PartIs
  <2>3. first \o part = SubSeq(list, 1, m)
    <3>1. 1 \in 1 .. Len(list) + 1 /\ k \in 1 - 1 .. Len(list) /\ m \in k .. Len(list)
      BY <1>0
    <3> QED BY <3>1, ConcatAdjacentSubSeq DEF part
  <2> HIDE DEF first
  <2> DEFINE head == <<h>>
  <2>4. head \in Seq(S)
    OBVIOUS
  <2> HIDE DEF head
  <2>5. (head \o first) \o part = head \o (first \o part)
    BY <1>1, <2>2, <2>4, SMTT(30)
  <2> QED BY <2>1, <2>3, <2>5 DEF head
<1>11. Upto(next, S, h, list, m)
  BY <1>8, <1>9, <1>10 DEF Upto
<1> QED BY <1>9, <1>11 DEF next, page

\* Joining the pages gives the lines back under one header, as soon as none of
\* them was lost, and none is when no page begins like the first but for its header.
LEMMA JoinedIs ==
    ASSUME NEW S, NEW h \in S, NEW list \in Seq(S), list # <<>>
    PROVE  LET pages == PagesOf(h, list)
               text == Joined(pages)
           IN  /\ text \in Seq(S) /\ text # <<>>
               /\ Len(text) = Len(list) + 1 => text = <<h>> \o list
               /\ (\A p \in DOMAIN pages : p > 1 => ~(Shared(pages[1], pages[p]) > 1))
                    => text = <<h>> \o list
<1> DEFINE pages == PagesOf(h, list)
           q == PageCount(Len(list))
           cut == [p \in 0 .. q |-> Cut(p, Len(list))]
           parts == [p \in 1 .. q |-> IF p = 1 THEN pages[1] ELSE Unshared(pages[1], pages[p])]
           Alone == \A p \in DOMAIN pages : p > 1 => ~(Shared(pages[1], pages[p]) > 1)
<1>1. Len(list) \in Nat \ {0}
  OBVIOUS
<1>2. /\ q \in Nat \ {0}
      /\ cut[0] = 0 /\ cut[q] = Len(list)
      /\ \A p \in 1 .. q : /\ cut[p - 1] \in 0 .. Len(list) /\ cut[p] \in 1 .. Len(list)
                           /\ cut[p - 1] < cut[p]
  <2>1. q \in Nat \ {0}
    BY <1>1, CutSteps
  <2>2. Cut(0, Len(list)) = 0 /\ Cut(q, Len(list)) = Len(list)
    BY <1>1, CutSteps
  <2>3. \A p \in 1 .. q : /\ Cut(p - 1, Len(list)) \in 0 .. Len(list)
                          /\ Cut(p, Len(list)) \in 1 .. Len(list)
                          /\ Cut(p - 1, Len(list)) < Cut(p, Len(list))
    BY <1>1, CutSteps
  <2>4. \A p \in 0 .. q : cut[p] = Cut(p, Len(list))
    OBVIOUS
  <2>5. \A p \in 1 .. q : p \in 0 .. q /\ p - 1 \in 0 .. q
    BY <2>1
  <2>6. 0 \in 0 .. q /\ q \in 0 .. q
    BY <2>1
  <2> HIDE DEF cut, q
  <2> QED BY <2>1, <2>2, <2>3, <2>4, <2>5, <2>6
<1>3. DOMAIN pages = 1 .. q
      /\ \A p \in 1 .. q : pages[p] = <<h>> \o SubSeq(list, cut[p - 1] + 1, cut[p])
  <2>1. \A p \in 1 .. q : pages[p] = PageOf(h, list, p)
    BY DEF PagesOf
  <2>2. \A p \in 1 .. q : cut[p] = Cut(p, Len(list)) /\ cut[p - 1] = Cut(p - 1, Len(list))
    BY <1>2
  <2>3. DOMAIN pages = 1 .. q
    BY DEF PagesOf
  <2> HIDE DEF pages, cut, q
  <2> QED BY <2>1, <2>2, <2>3 DEF PageOf
<1> HIDE DEF cut
<1>4. \A p \in 1 .. q : /\ pages[p] \in Seq(S) /\ pages[p] # <<>> /\ pages[p][1] = h
                        /\ Len(pages[p]) = cut[p] - cut[p - 1] + 1
  <2> SUFFICES ASSUME NEW p \in 1 .. q
               PROVE  /\ pages[p] \in Seq(S) /\ pages[p] # <<>> /\ pages[p][1] = h
                      /\ Len(pages[p]) = cut[p] - cut[p - 1] + 1
    OBVIOUS
  <2> DEFINE k == cut[p - 1]  m == cut[p]  part == SubSeq(list, k + 1, m)
  <2>1. k \in 0 .. Len(list) /\ m \in 1 .. Len(list) /\ k < m
    BY <1>2
  <2>2. part \in Seq(S) /\ Len(part) = m - k
    <3> HIDE DEF k, m
    <3>1. k + 1 \in Int /\ m \in Int /\ k + 1 <= m /\ \A i \in k + 1 .. m : list[i] \in S
      BY <2>1
    <3>2. part \in Seq(S) /\ Len(part) = IF k + 1 <= m THEN m - (k + 1) + 1 ELSE 0
      BY <3>1, SubSeqProperties
    <3> QED BY <2>1, <3>1, <3>2
  <2>3. pages[p] = <<h>> \o part
    BY <1>3
  <2> HIDE DEF part, k, m, pages
  <2>4. pages[p] \in Seq(S) /\ pages[p] # <<>> /\ pages[p][1] = h /\ Len(pages[p]) = Len(part) + 1
    BY <2>2, <2>3
  <2> QED BY <2>1, <2>2, <2>4 DEF k, m
<1>5. \A p \in 1 .. q : Shared(pages[1], pages[p]) \in 1 .. Len(pages[p])
  <2>1. 1 \in 1 .. q
    BY <1>2
  <2> HIDE DEF pages
  <2> QED BY <1>4, <2>1, SharedIs
<1>6. Joined(pages) = FlattenSeq(parts)
  BY <1>3 DEF Joined
<1>7. parts \in Seq({parts[p] : p \in 1 .. q}) /\ Len(parts) = q /\ parts # <<>>
  <2>1. parts = [p \in 1 .. q |-> parts[p]] /\ q \in Nat \ {0}
    BY <1>2
  <2> HIDE DEF parts, q
  <2> QED BY <2>1, SMTT(30)
<1>8. PICK f : JoinsUp(f, parts) /\ FlattenSeq(parts) = f[q]
  <2> HIDE DEF parts
  <2> QED BY <1>7, JoinRule
<1>9. \A p \in 1 .. q : f[p] = IF p = 1 THEN pages[1]
                               ELSE f[p - 1] \o SubSeq(pages[p], Shared(pages[1], pages[p]) + 1, Len(pages[p]))
  <2>1. \A p \in 1 .. q : f[p] = IF p = 1 THEN parts[1] ELSE f[p - 1] \o parts[p]
    <3> HIDE DEF parts, q
    <3> QED BY <1>7, <1>8 DEF JoinsUp
  <2>2. 1 \in 1 .. q
    BY <1>2
  <2>3. parts[1] = pages[1] /\ \A p \in 1 .. q : p # 1 => parts[p] = Unshared(pages[1], pages[p])
    BY <2>2
  <2> HIDE DEF parts, pages, q
  <2> QED BY <2>1, <2>3 DEF Unshared
<1> HIDE DEF parts
<1> DEFINE Good(p) == /\ Upto(f[p], S, h, list, cut[p])
                      /\ Alone => Len(f[p]) = cut[p] + 1
           Bad == {p \in 1 .. q : ~Good(p)}
<1>10. Good(1)
  <2>1. 1 \in 1 .. q /\ cut[1 - 1] = 0 /\ cut[1] \in 1 .. Len(list)
    BY <1>2
  <2> HIDE DEF pages, Alone, q
  <2>2. f[1] = pages[1] /\ pages[1] = <<h>> \o SubSeq(list, 1, cut[1])
    <3>1. f[1] = pages[1]
      BY <1>9, <2>1
    <3>2. pages[1] = <<h>> \o SubSeq(list, cut[1 - 1] + 1, cut[1])
      BY <1>3, <2>1
    <3>3. cut[1 - 1] + 1 = 1
      BY <2>1
    <3> QED BY <3>1, <3>2, <3>3
  <2>3. f[1] \in Seq(S) /\ f[1] # <<>> /\ Len(f[1]) = cut[1] + 1
    <3>1. f[1] = pages[1] /\ pages[1] \in Seq(S) /\ pages[1] # <<>>
          /\ Len(pages[1]) = cut[1] - cut[1 - 1] + 1
      BY <1>4, <2>1, <2>2
    <3>2. cut[1] - cut[1 - 1] + 1 = cut[1] + 1
      BY <2>1
    <3> QED BY <3>1, <3>2
  <2> QED BY <2>1, <2>2, <2>3 DEF Upto
<1>11. ASSUME NEW p \in 2 .. q, Good(p - 1) PROVE Good(p)
  <2> DEFINE k == cut[p - 1]  m == cut[p]  shared == Shared(pages[1], pages[p])
  <2>1. p \in 1 .. q /\ p - 1 \in 1 .. q /\ p # 1 /\ p > 1
    BY <1>2
  <2>2. k \in 1 .. Len(list) /\ m \in k + 1 .. Len(list)
    BY <1>2, <2>1
  <2>3. shared \in 1 .. Len(pages[p])
    BY <1>5, <2>1
  <2>4. pages[p] = <<h>> \o SubSeq(list, k + 1, m)
    BY <1>3, <2>1
  <2>5. f[p] = f[p - 1] \o SubSeq(pages[p], shared + 1, Len(pages[p]))
    BY <1>9, <2>1
  <2>6. Upto(f[p - 1], S, h, list, k)
    BY <1>11
  <2>7. Alone => Len(f[p - 1]) = k + 1 /\ shared = 1
    <3> SUFFICES ASSUME Alone PROVE Len(f[p - 1]) = k + 1 /\ shared = 1
      OBVIOUS
    <3>1. ~(shared > 1)
      BY <1>3, <2>1
    <3> QED BY <1>4, <1>11, <2>1, <2>3, <3>1
  <2> HIDE DEF k, m, shared, pages, Alone
  <2>8. /\ Upto(f[p], S, h, list, m)
        /\ Len(f[p - 1]) = k + 1 /\ shared = 1 => Len(f[p]) = m + 1
    <3>1. pages[p] = Sheet(h, list, k, m)
      BY <2>4 DEF Sheet
    <3>2. f[p] = Continued(f[p - 1], Sheet(h, list, k, m), shared)
      BY <2>5, <3>1 DEF Continued
    <3> DEFINE t == f[p - 1]
    <3>3. Upto(t, S, h, list, k) /\ shared \in 1 .. Len(Sheet(h, list, k, m))
      BY <2>3, <2>6, <3>1
    <3> HIDE DEF t, q, Good, Bad
    <3>4. /\ Upto(Continued(t, Sheet(h, list, k, m), shared), S, h, list, m)
          /\ Len(t) = k + 1 /\ shared = 1 => Len(Continued(t, Sheet(h, list, k, m), shared)) = m + 1
      BY <2>2, <3>3, JoinStep
    <3> QED BY <3>2, <3>4 DEF t
  <2> QED BY <2>7, <2>8 DEF k, m
<1>12. ASSUME Bad # {} PROVE FALSE
  <2>1. PICK p \in Bad : \A r \in Bad : p <= r
    <3>1. Bad \in SUBSET Nat
      BY <1>2
    <3> HIDE DEF Bad
    <3> QED BY <1>12, <3>1, LeastNatural
  <2>2. p \in 1 .. q /\ ~Good(p)
    BY <2>1
  <2> HIDE DEF Good
  <2>3. p # 1
    BY <1>10, <2>2
  <2>4. p - 1 \in 1 .. q /\ p \in 2 .. q
    BY <1>2, <2>2, <2>3
  <2>5. p - 1 \notin Bad
    BY <2>1, <2>2, <1>2
  <2>6. Good(p - 1)
    BY <2>4, <2>5
  <2> QED BY <1>11, <2>2, <2>4, <2>6
<1>13. Good(q)
  <2>1. q \in 1 .. q
    BY <1>2
  <2> HIDE DEF Good
  <2> QED BY <1>12, <2>1
<1>14. Joined(pages) = f[q] /\ cut[q] = Len(list) /\ SubSeq(list, 1, Len(list)) = list
  BY <1>2, <1>6, <1>8
<1> HIDE DEF pages, q
<1>15. /\ f[q] \in Seq(S) /\ f[q] # <<>>
       /\ Len(f[q]) = Len(list) + 1 => f[q] = <<h>> \o list
       /\ Alone => Len(f[q]) = Len(list) + 1
  BY <1>13, <1>14 DEF Upto
<1>16. Joined(pages) \in Seq(S) /\ Joined(pages) # <<>>
       /\ (Len(Joined(pages)) = Len(list) + 1 => Joined(pages) = <<h>> \o list)
       /\ (Alone => Joined(pages) = <<h>> \o list)
  <2> HIDE DEF Alone
  <2> QED BY <1>14, <1>15
<1> QED BY <1>16 DEF pages

-----------------------------------------------------------------------------
(* The choice of a mapping: the order candidates are compared in.          *)

Tuples(n) == [1 .. n -> Int]

\* Two tuples that differ do so first at one place, and one of them is ahead.
LEMMA OneIsAhead ==
    ASSUME NEW n \in Nat, NEW x \in Tuples(n), NEW y \in Tuples(n)
    PROVE  AtLeast(x, y) \/ AtLeast(y, x)
<1> SUFFICES ASSUME x # y PROVE AtLeast(x, y) \/ AtLeast(y, x)
  BY DEF AtLeast
<1> DEFINE D == {k \in 1 .. n : x[k] # y[k]}
<1>1. D # {} /\ D \in SUBSET Nat
  BY SMTT(30) DEF Tuples
<1>2. PICK k \in D : \A m \in D : k <= m
  <2> HIDE DEF D
  <2> QED BY <1>1, LeastNatural
<1>3. k \in 1 .. n /\ x[k] # y[k] /\ x[k] \in Int /\ y[k] \in Int
  BY DEF Tuples
<1>4. \A j \in 1 .. k - 1 : x[j] = y[j]
  BY <1>2, <1>3
<1>5. DOMAIN x = 1 .. n /\ DOMAIN y = 1 .. n
  BY DEF Tuples
<1>6. x[k] > y[k] \/ y[k] > x[k]
  BY <1>3
<1> QED BY <1>3, <1>4, <1>5, <1>6 DEF AtLeast

\* What is ahead of what is ahead of a tuple is ahead of it.
LEMMA AheadOfAhead ==
    ASSUME NEW n \in Nat, NEW x \in Tuples(n), NEW y \in Tuples(n), NEW z \in Tuples(n),
           AtLeast(x, y), AtLeast(y, z)
    PROVE  AtLeast(x, z)
<1>1. CASE x = y \/ y = z
  BY <1>1
<1>2. CASE ~(x = y \/ y = z)
  <2>1. PICK k \in 1 .. n : x[k] > y[k] /\ \A j \in 1 .. k - 1 : x[j] = y[j]
    BY <1>2 DEF AtLeast, Tuples
  <2>2. PICK l \in 1 .. n : y[l] > z[l] /\ \A j \in 1 .. l - 1 : y[j] = z[j]
    BY <1>2 DEF AtLeast, Tuples
  <2>3. \A j \in 1 .. n : x[j] \in Int /\ y[j] \in Int /\ z[j] \in Int
    BY DEF Tuples
  <2>4. DOMAIN x = 1 .. n
    BY DEF Tuples
  <2>5. CASE k < l
    <3>1. k \in 1 .. l - 1
      BY <2>5
    <3>2. x[k] > z[k]
      BY <2>1, <2>2, <2>3, <3>1
    <3>3. \A j \in 1 .. k - 1 : x[j] = z[j]
      BY <2>1, <2>2, <2>5
    <3> QED BY <2>4, <3>2, <3>3 DEF AtLeast
  <2>6. CASE ~(k < l)
    <3>1. \A j \in 1 .. l - 1 : x[j] = z[j]
      BY <2>1, <2>2, <2>6
    <3>2. x[l] >= y[l]
      <4>1. CASE l = k
        BY <2>1, <2>3, <4>1
      <4>2. CASE l # k
        BY <2>1, <2>3, <2>6, <4>2
      <4> QED BY <4>1, <4>2
    <3>3. x[l] > z[l]
      BY <2>2, <2>3, <3>2
    <3> QED BY <2>4, <3>1, <3>3 DEF AtLeast
  <2> QED BY <2>5, <2>6
<1> QED BY <1>1, <1>2

\* Of finitely many tuples one is at least every other.
LEMMA GreatestTuple ==
    ASSUME NEW R, IsFiniteSet(R), R # {}, NEW n \in Nat, NEW f,
           \A x \in R : f[x] \in Tuples(n)
    PROVE  \E x \in R : \A y \in R : AtLeast(f[x], f[y])
<1> DEFINE Q == {T \in SUBSET R : T = {} \/ \E x \in T : \A y \in T : AtLeast(f[x], f[y])}
<1>1. {} \in Q
  OBVIOUS
<1>2. ASSUME NEW T \in SUBSET R, NEW x \in R \ T, T \in Q PROVE T \union {x} \in Q
  <2>0. AtLeast(f[x], f[x])
    BY DEF AtLeast
  <2>1. CASE T = {}
    BY <2>0, <2>1
  <2>2. CASE T # {}
    <3>1. PICK m \in T : \A y \in T : AtLeast(f[m], f[y])
      BY <1>2, <2>2
    <3>2. CASE AtLeast(f[m], f[x])
      <4>1. \A y \in T \union {x} : AtLeast(f[m], f[y])
        BY <3>1, <3>2
      <4> QED BY <4>1
    <3>3. CASE ~AtLeast(f[m], f[x])
      <4>1. AtLeast(f[x], f[m])
        BY <3>3, OneIsAhead
      <4>2. \A y \in T \union {x} : AtLeast(f[x], f[y])
        <5> SUFFICES ASSUME NEW y \in T PROVE AtLeast(f[x], f[y])
          BY <2>0
        <5>1. AtLeast(f[m], f[y])
          BY <3>1
        <5>2. f[x] \in Tuples(n) /\ f[m] \in Tuples(n) /\ f[y] \in Tuples(n)
          OBVIOUS
        <5> QED BY <4>1, <5>1, <5>2, AheadOfAhead
      <4> QED BY <4>2
    <3> QED BY <3>2, <3>3
  <2> QED BY <2>1, <2>2
<1>3. R \in Q
  <2> HIDE DEF Q
  <2> QED BY <1>1, <1>2, SubsetInduction
<1> QED BY <1>3

\* The place of a candidate in the order: its merit, then where it is listed.
Place(names, body, m) == Merit(names, body, m) \o Listed(m)

\* The mapping chosen is a candidate, and at least as good as every other.
LEMMA ChosenIs ==
    ASSUME NEW names, NEW body, IsFiniteSet(Candidates(body)), Candidates(body) # {},
           NEW n \in Nat, \A m \in Candidates(body) : Place(names, body, m) \in Tuples(n)
    PROVE  /\ Chosen(names, body) \in Candidates(body)
           /\ \A m \in Candidates(body) :
                AtLeast(Place(names, body, Chosen(names, body)), Place(names, body, m))
<1> DEFINE C == Candidates(body)
           Entry(m) == [merit |-> Place(names, body, m), mapping |-> m]
           ranked == {Entry(m) : m \in C}
           best == CHOOSE x \in ranked : \A y \in ranked : AtLeast(x.merit, y.merit)
           f == [m \in C |-> Place(names, body, m)]
<1>1. \A m \in C : f[m] = Place(names, body, m) /\ f[m] \in Tuples(n)
  OBVIOUS
<1>2. \E c \in C : \A m \in C : AtLeast(f[c], f[m])
  <2>1. IsFiniteSet(C) /\ C # {}
    OBVIOUS
  <2> HIDE DEF C, f
  <2> QED BY <1>1, <2>1, GreatestTuple
<1>3. PICK c \in C : \A m \in C : AtLeast(Place(names, body, c), Place(names, body, m))
  <2> HIDE DEF f
  <2> QED BY <1>1, <1>2
<1>4. \A m \in C : Entry(m) \in ranked
  OBVIOUS
<1>5. \A x \in ranked : \E m \in C : x = Entry(m)
  OBVIOUS
<1>6. \A m : Entry(m).merit = Place(names, body, m) /\ Entry(m).mapping = m
  OBVIOUS
<1>7. Chosen(names, body) = best.mapping
  BY DEF Chosen, Place
<1> HIDE DEF ranked, Entry, C
<1>8. \E x \in ranked : \A y \in ranked : AtLeast(x.merit, y.merit)
  BY <1>3, <1>4, <1>5, <1>6
<1>9. best \in ranked /\ \A y \in ranked : AtLeast(best.merit, y.merit)
  BY <1>8
<1> HIDE DEF best
<1>10. PICK d \in C : best = Entry(d)
  BY <1>5, <1>9
<1>11. d = Chosen(names, body) /\ \A m \in C : AtLeast(Place(names, body, d), Place(names, body, m))
  BY <1>4, <1>6, <1>7, <1>9, <1>10
<1> QED BY <1>10, <1>11 DEF C

\* There are finitely many mappings over finitely many columns.
LEMMA FiniteMappings ==
    ASSUME NEW K, IsFiniteSet(K)
    PROVE  IsFiniteSet([as : {"separate", "signed", "indicator"}, a : K, b : K, balance : K])
<1> DEFINE As == {"separate", "signed", "indicator"}
           Mappings == [as : As, a : K, b : K, balance : K]
           P == (As \X K) \X (K \X K)
           f == [x \in P |-> [as |-> x[1][1], a |-> x[1][2], b |-> x[2][1], balance |-> x[2][2]]]
<1>1. IsFiniteSet(As)
  <2>1. IsFiniteSet({"separate"} \union {"signed"})
    BY FS_Singleton, FS_Union
  <2>2. IsFiniteSet(({"separate"} \union {"signed"}) \union {"indicator"})
    BY <2>1, FS_Singleton, FS_Union
  <2>3. As = ({"separate"} \union {"signed"}) \union {"indicator"}
    OBVIOUS
  <2> QED BY <2>2, <2>3
<1> HIDE DEF As
<1>2. IsFiniteSet(P)
  <2>1. IsFiniteSet(As \X K) /\ IsFiniteSet(K \X K)
    BY <1>1, FS_Product
  <2> QED BY <2>1, FS_Product
<1>3. f \in Surjection(P, Mappings)
  <2>1. f \in [P -> Mappings]
    OBVIOUS
  <2>2. \A m \in Mappings : \E x \in P : f[x] = m
    <3> SUFFICES ASSUME NEW m \in Mappings PROVE \E x \in P : f[x] = m
      OBVIOUS
    <3> DEFINE x == <<<<m.as, m.a>>, <<m.b, m.balance>>>>
    <3>1. x \in P
      OBVIOUS
    <3>2. f[x] = [as |-> m.as, a |-> m.a, b |-> m.b, balance |-> m.balance]
      BY <3>1
    <3>3. m = [as |-> m.as, a |-> m.a, b |-> m.b, balance |-> m.balance]
      OBVIOUS
    <3> QED BY <3>1, <3>2, <3>3
  <2> QED BY <2>1, <2>2 DEF Surjection
<1> HIDE DEF P, Mappings, f
<1>4. IsFiniteSet(Mappings)
  BY <1>2, <1>3, FS_Surjection
<1> QED BY <1>4 DEF Mappings, As

-----------------------------------------------------------------------------
(* The choice of a mapping: the candidates over a readable body.           *)

\* A body of lines over the columns K: numbers are whole paise, and a column of
\* numbers has one of the known headers.
Readable(names, body, K) ==
    /\ IsFiniteSet(K) /\ K \subseteq Nat \ {0}
    /\ Len(body) \in Nat \ {0} /\ DOMAIN body = 1 .. Len(body)
    /\ \A i \in DOMAIN body :
          /\ DOMAIN body[i].cells = K
          /\ \A k \in K : body[i].cells[k].kind = "number" => body[i].cells[k].value \in Int
    /\ \A k \in NumericColumns(body) : names[k] \in AmountHeaders

\* What a candidate is: columns of numbers, none of them twice, and a column of
\* marks under the convention that has one.
IsCandidate(body, m) ==
    /\ m.as \in {"separate", "signed", "indicator"}
    /\ m.a \in NumericColumns(body) /\ m.a # m.balance
    /\ m.balance \in NumericColumns(body) \union {0}
    /\ m.as = "separate" => m.b \in NumericColumns(body) /\ m.b # m.balance /\ m.a # m.b
    /\ m.as = "signed" => m.b = 0
    /\ m.as = "indicator" => m.b \in Indicators(body)

\* A candidate names columns of the body, and meets the conditions of its convention.
LEMMA CandidatesAre ==
    ASSUME NEW body, NEW m
    PROVE  m \in Candidates(body)
             <=> /\ m \in [as : {"separate", "signed", "indicator"},
                           a : NumericColumns(body),
                           b : NumericColumns(body) \union Indicators(body) \union {0},
                           balance : NumericColumns(body) \union {0}]
                 /\ IsCandidate(body, m)
<1> DEFINE N == NumericColumns(body)  I == Indicators(body)
           Pool(bal) == N \ {bal}
           Sep(bal) == {x \in [as : {"separate"}, a : Pool(bal), b : Pool(bal), balance : {bal}] : x.a # x.b}
           Sig(bal) == [as : {"signed"}, a : Pool(bal), b : {0}, balance : {bal}]
           Ind(bal) == [as : {"indicator"}, a : Pool(bal), b : I, balance : {bal}]
           All == [as : {"separate", "signed", "indicator"}, a : N, b : N \union I \union {0},
                   balance : N \union {0}]
<1>1. Candidates(body) = UNION {Sep(bal) \union Sig(bal) \union Ind(bal) : bal \in N \union {0}}
  BY DEF Candidates
<1>2. m \in Candidates(body) <=> \E bal \in N \union {0} : m \in Sep(bal) \/ m \in Sig(bal) \/ m \in Ind(bal)
  <2> HIDE DEF Sep, Sig, Ind, N, I
  <2> QED BY <1>1
<1>3. ASSUME NEW bal \in N \union {0}, m \in Sep(bal) PROVE m \in All /\ IsCandidate(body, m)
  <2>1. /\ m = [as |-> m.as, a |-> m.a, b |-> m.b, balance |-> m.balance]
        /\ m.as = "separate" /\ m.a \in N \ {bal} /\ m.b \in N \ {bal} /\ m.balance = bal /\ m.a # m.b
    <3> HIDE DEF N
    <3> QED BY <1>3
  <2> QED BY <1>3, <2>1 DEF IsCandidate
<1>4. ASSUME NEW bal \in N \union {0}, m \in Sig(bal) PROVE m \in All /\ IsCandidate(body, m)
  <2>1. /\ m = [as |-> m.as, a |-> m.a, b |-> m.b, balance |-> m.balance]
        /\ m.as = "signed" /\ m.a \in N \ {bal} /\ m.b = 0 /\ m.balance = bal
    <3> HIDE DEF N
    <3> QED BY <1>4
  <2> QED BY <1>4, <2>1 DEF IsCandidate
<1>5. ASSUME NEW bal \in N \union {0}, m \in Ind(bal) PROVE m \in All /\ IsCandidate(body, m)
  <2>1. /\ m = [as |-> m.as, a |-> m.a, b |-> m.b, balance |-> m.balance]
        /\ m.as = "indicator" /\ m.a \in N \ {bal} /\ m.b \in I /\ m.balance = bal
    <3> HIDE DEF N, I
    <3> QED BY <1>5
  <2> QED BY <1>5, <2>1 DEF IsCandidate
<1>6. ASSUME m \in All, IsCandidate(body, m)
      PROVE  \E bal \in N \union {0} : m \in Sep(bal) \/ m \in Sig(bal) \/ m \in Ind(bal)
  <2>1. m = [as |-> m.as, a |-> m.a, b |-> m.b, balance |-> m.balance] /\ m.balance \in N \union {0}
    BY <1>6
  <2>2. CASE m.as = "separate"
    <3>1. m.a \in Pool(m.balance) /\ m.b \in Pool(m.balance) /\ m.a # m.b
      BY <1>6, <2>2 DEF IsCandidate
    <3>2. m \in Sep(m.balance)
      <4> HIDE DEF N
      <4> QED BY <2>1, <2>2, <3>1
    <3> QED BY <2>1, <3>2
  <2>3. CASE m.as = "signed"
    <3>1. m.a \in Pool(m.balance) /\ m.b = 0
      BY <1>6, <2>3 DEF IsCandidate
    <3>2. m \in Sig(m.balance)
      <4> HIDE DEF N
      <4> QED BY <2>1, <2>3, <3>1
    <3> QED BY <2>1, <3>2
  <2>4. CASE m.as = "indicator"
    <3>1. m.a \in Pool(m.balance) /\ m.b \in I
      BY <1>6, <2>4 DEF IsCandidate
    <3>2. m \in Ind(m.balance)
      <4> HIDE DEF N, I
      <4> QED BY <2>1, <2>4, <3>1
    <3> QED BY <2>1, <3>2
  <2>5. m.as \in {"separate", "signed", "indicator"}
    BY <1>6
  <2> QED BY <2>2, <2>3, <2>4, <2>5
<1> QED BY <1>2, <1>3, <1>4, <1>5, <1>6

\* Columns of numbers, and of marks, are columns.
LEMMA ColumnsAre ==
    ASSUME NEW names, NEW body, NEW K, Readable(names, body, K)
    PROVE  /\ NumericColumns(body) \subseteq K /\ Indicators(body) \subseteq K
           /\ IsFiniteSet(Candidates(body))
<1>1. 1 \in DOMAIN body
  BY DEF Readable
<1>2. NumericColumns(body) \subseteq K /\ Indicators(body) \subseteq K
  BY <1>1 DEF Readable, NumericColumns, Indicators
<1> DEFINE L == K \union {0}  All == [as : {"separate", "signed", "indicator"}, a : L, b : L, balance : L]
<1>3. IsFiniteSet(L)
  BY FS_AddElement DEF Readable
<1>4. IsFiniteSet(All)
  <2> HIDE DEF L
  <2> QED BY <1>3, FiniteMappings
<1>5. Candidates(body) \subseteq All
  <2> SUFFICES ASSUME NEW m \in Candidates(body) PROVE m \in All
    OBVIOUS
  <2> DEFINE N == NumericColumns(body)  I == Indicators(body)
  <2>1. m \in [as : {"separate", "signed", "indicator"}, a : N, b : N \union I \union {0}, balance : N \union {0}]
    BY CandidatesAre
  <2>2. N \subseteq L /\ N \union I \union {0} \subseteq L /\ N \union {0} \subseteq L
    BY <1>2
  <2> HIDE DEF N, I, L
  <2> QED BY <2>1, <2>2
<1>6. IsFiniteSet(Candidates(body))
  <2> HIDE DEF All
  <2> QED BY <1>4, <1>5, FS_Subset
<1> QED BY <1>2, <1>6

\* What a line says of a column, and its two amounts, are whole paise.
LEMMA AmountsTyped ==
    ASSUME NEW names, NEW body, NEW K, Readable(names, body, K), NEW i \in DOMAIN body
    PROVE  /\ \A k \in K : Value(body[i], k) \in Int
           /\ \A m \in Candidates(body) :
                /\ SignedPair(body[i], m).debit \in Nat /\ SignedPair(body[i], m).credit \in Nat
                /\ SignedPair(body[i], m)
                     = [debit |-> SignedPair(body[i], m).debit, credit |-> SignedPair(body[i], m).credit]
<1>1. \A k \in K : Value(body[i], k) \in Int
  BY DEF Readable, Value
<1>2. \A n \in Int : Magnitude(n) \in Nat
  BY DEF Magnitude
<1>3. ASSUME NEW m \in Candidates(body)
      PROVE  /\ SignedPair(body[i], m).debit \in Nat /\ SignedPair(body[i], m).credit \in Nat
             /\ SignedPair(body[i], m)
                  = [debit |-> SignedPair(body[i], m).debit, credit |-> SignedPair(body[i], m).credit]
  <2>1. IsCandidate(body, m)
    BY CandidatesAre
  <2>2. Value(body[i], m.a) \in Int /\ (m.as = "separate" => Value(body[i], m.b) \in Int)
    BY <1>1, <2>1, ColumnsAre DEF IsCandidate
  <2> DEFINE a == Value(body[i], m.a)  b == Value(body[i], m.b)
  <2>3. CASE m.as = "separate"
    <3>1. SignedPair(body[i], m) = [debit |-> Magnitude(a), credit |-> Magnitude(b)]
      BY <2>3 DEF SignedPair
    <3>2. Magnitude(a) \in Nat /\ Magnitude(b) \in Nat
      BY <1>2, <2>2, <2>3
    <3> HIDE DEF a, b
    <3> QED BY <3>1, <3>2
  <2>4. CASE m.as = "signed"
    <3>1. SignedPair(body[i], m) = IF a < 0 THEN [debit |-> -a, credit |-> 0] ELSE [debit |-> 0, credit |-> a]
      BY <2>4 DEF SignedPair
    <3>2. a \in Int
      BY <2>2
    <3> HIDE DEF a, b
    <3> QED BY <3>1, <3>2
  <2>5. CASE m.as = "indicator"
    <3>1. SignedPair(body[i], m) = IF body[i].cells[m.b].value = "dr"
                                   THEN [debit |-> Magnitude(a), credit |-> 0]
                                   ELSE [debit |-> 0, credit |-> Magnitude(a)]
      BY <2>5 DEF SignedPair
    <3>2. Magnitude(a) \in Nat
      BY <1>2, <2>2
    <3> HIDE DEF a, b
    <3> QED BY <3>1, <3>2
  <2> QED BY <2>1, <2>3, <2>4, <2>5 DEF IsCandidate
<1> QED BY <1>1, <1>3

\* Every known header has a score for every meaning of a column.
LEMMA ScoresAre ==
    ASSUME NEW h \in AmountHeaders
    PROVE  /\ HeaderScore.debit[h] \in Nat /\ HeaderScore.credit[h] \in Nat
           /\ HeaderScore.amount[h] \in Nat /\ HeaderScore.balance[h] \in Nat
<1>1. HeaderScore.debit \in [AmountHeaders -> Nat] /\ HeaderScore.credit \in [AmountHeaders -> Nat]
  BY DEF HeaderScore
<1>2. HeaderScore.amount \in [AmountHeaders -> Nat] /\ HeaderScore.balance \in [AmountHeaders -> Nat]
  BY DEF HeaderScore
<1> QED BY <1>1, <1>2

\* A sum of naturals that is zero has no other term.
LEMMA NoTerm ==
    ASSUME NEW S, IsFiniteSet(S), NEW f, \A x \in S : f[x] \in Nat, SumFunctionOnSet(f, S) = 0,
           NEW x \in S
    PROVE  f[x] = 0
<1>1. \A y \in S : f[y] \in Int
  OBVIOUS
<1>2. SumFunctionOnSet(f, S) = f[x] + SumFunctionOnSet(f, S \ {x})
  BY <1>1, SumRemove
<1>3. IsFiniteSet(S \ {x})
  BY FS_Subset
<1>4. SumFunctionOnSet(f, S \ {x}) \in Nat
  BY <1>3, SumType
<1> QED BY <1>2, <1>4

\* The residuals of a candidate with a balance are whole paise, none below zero,
\* and all zero when their sum is.
LEMMA ResidualsAre ==
    ASSUME NEW names, NEW body, NEW K, Readable(names, body, K), NEW m \in Candidates(body),
           m.balance # 0
    PROVE  LET r == Residuals(body, m)
               last == Len(body) - 1
           IN  /\ last \in Nat /\ DOMAIN r = 1 .. last
               /\ \A i \in 1 .. last :
                    /\ r[i] \in Nat
                    /\ r[i] = Magnitude(Value(body[i], m.balance) + SignedPair(body[i + 1], m).credit
                                - SignedPair(body[i + 1], m).debit - Value(body[i + 1], m.balance))
               /\ SumOf(r) \in Nat
               /\ SumOf(r) = 0 => \A i \in 1 .. last : r[i] = 0
<1> DEFINE r == Residuals(body, m)  last == Len(body) - 1
<1>1. last \in Nat /\ DOMAIN r = 1 .. last /\ DOMAIN body = 1 .. Len(body) /\ Len(body) \in Nat \ {0}
  BY DEF Readable, Residuals
<1>2. \A i \in 1 .. last :
        r[i] = Magnitude(Value(body[i], m.balance) + SignedPair(body[i + 1], m).credit
                 - SignedPair(body[i + 1], m).debit - Value(body[i + 1], m.balance))
  BY DEF Residuals
<1>3. m.balance \in K
  BY CandidatesAre, ColumnsAre DEF IsCandidate
<1>4. \A i \in 1 .. last : r[i] \in Nat
  <2> SUFFICES ASSUME NEW i \in 1 .. last PROVE r[i] \in Nat
    OBVIOUS
  <2>1. i \in DOMAIN body /\ i + 1 \in DOMAIN body
    BY <1>1
  <2> DEFINE x == Value(body[i], m.balance)  y == Value(body[i + 1], m.balance)
             c == SignedPair(body[i + 1], m).credit  d == SignedPair(body[i + 1], m).debit
  <2>2. x \in Int /\ y \in Int
    BY <1>3, <2>1, AmountsTyped
  <2>3. c \in Nat /\ d \in Nat
    BY <2>1, AmountsTyped
  <2>4. r[i] = Magnitude(x + c - d - y)
    BY <1>2
  <2> HIDE DEF x, y, c, d, r
  <2> QED BY <2>2, <2>3, <2>4 DEF Magnitude
<1> HIDE DEF r
<1>5. IsFiniteSet(1 .. last)
  BY <1>1, FS_Interval
<1>6. SumOf(r) = SumFunctionOnSet(r, 1 .. last)
  BY <1>1 DEF SumOf
<1>7. SumOf(r) \in Nat
  <2> HIDE DEF last
  <2> QED BY <1>4, <1>5, <1>6, SumType
<1>8. ASSUME SumOf(r) = 0, NEW i \in 1 .. last PROVE r[i] = 0
  <2> DEFINE S == 1 .. last
  <2>1. IsFiniteSet(S) /\ (\A x \in S : r[x] \in Nat) /\ SumFunctionOnSet(r, S) = 0 /\ i \in S
    BY <1>4, <1>5, <1>6, <1>8
  <2> HIDE DEF S
  <2> QED BY <2>1, NoTerm
<1> QED BY <1>1, <1>2, <1>4, <1>7, <1>8 DEF r

\* The header evidence of a candidate is a number.
LEMMA SupportTyped ==
    ASSUME NEW names, NEW body, NEW K, Readable(names, body, K), NEW m \in Candidates(body)
    PROVE  HeaderSupport(names, m) \in Nat
<1>1. \A k \in NumericColumns(body) : names[k] \in AmountHeaders
  BY DEF Readable
<1>2. IsCandidate(body, m)
  BY CandidatesAre
<1>3. HeaderScore.amount[names[m.a]] \in Nat
  BY <1>1, <1>2, ScoresAre DEF IsCandidate
<1>4. m.as = "separate" => /\ HeaderScore.debit[names[m.a]] \in Nat
                           /\ HeaderScore.credit[names[m.b]] \in Nat
  BY <1>1, <1>2, ScoresAre DEF IsCandidate
<1>5. m.balance # 0 => HeaderScore.balance[names[m.balance]] \in Nat
  BY <1>1, <1>2, ScoresAre DEF IsCandidate
<1> QED BY <1>3, <1>4, <1>5 DEF HeaderSupport

\* A candidate's place is nine numbers, the first five its merit.
LEMMA PlaceTyped ==
    ASSUME NEW names, NEW body, NEW K, Readable(names, body, K), NEW m \in Candidates(body)
    PROVE  /\ Place(names, body, m) \in Tuples(9)
           /\ \A k \in 1 .. 5 : Place(names, body, m)[k] = Merit(names, body, m)[k]
<1> DEFINE merit == Merit(names, body, m)  listed == Listed(m)
<1>1. \A b \in BOOLEAN : Flag(b) \in Int
  BY DEF Flag
<1>2. Flag(Passed(body, m)) \in Int /\ Flag(Moves(body, m)) \in Int
  BY DEF Flag
<1>3. HeaderSupport(names, m) \in Int
  BY SupportTyped
<1>4. Checkable(body, m) => -SumOf(Residuals(body, m)) \in Int
  <2>1. Checkable(body, m) => SumOf(Residuals(body, m)) \in Nat
    BY ResidualsAre DEF Checkable
  <2> QED BY <2>1
<1>5. merit \in [1 .. 5 -> Int] /\ merit \in Seq(Int) /\ Len(merit) = 5
  <2>1. CASE Checkable(body, m)
    <3> DEFINE p == Flag(Passed(body, m))  v == Flag(Moves(body, m))
               s == -SumOf(Residuals(body, m))  h == HeaderSupport(names, m)
    <3>1. p \in Int /\ v \in Int /\ s \in Int /\ h \in Int
      BY <1>2, <1>3, <1>4, <2>1
    <3>2. merit = <<1, p, v, s, h>>
      BY <2>1 DEF Merit
    <3> HIDE DEF p, v, s, h, merit
    <3> QED BY <3>1, <3>2
  <2>2. CASE ~Checkable(body, m)
    <3> DEFINE v == Flag(Moves(body, m))  h == HeaderSupport(names, m)
    <3>1. v \in Int /\ h \in Int
      BY <1>2, <1>3
    <3>2. merit = <<0, 0, v, 0, h>>
      BY <2>2 DEF Merit
    <3> HIDE DEF v, h, merit
    <3> QED BY <3>1, <3>2
  <2> QED BY <2>1, <2>2
<1>6. listed \in Seq(Int) /\ Len(listed) = 4
  <2>1. IsCandidate(body, m) /\ NumericColumns(body) \subseteq Nat /\ Indicators(body) \subseteq Nat
    BY CandidatesAre, ColumnsAre DEF Readable
  <2>2. m.a \in Int /\ m.b \in Int /\ m.balance \in Int
    BY <2>1 DEF IsCandidate
  <2> DEFINE w == IF m.balance = 0 THEN -100 ELSE -m.balance
             x == CASE m.as = "separate" -> 0 [] m.as = "signed" -> -1 [] OTHER -> -2
             y == -m.a  z == -m.b
  <2>3. w \in Int /\ x \in Int /\ y \in Int /\ z \in Int
    BY <2>1, <2>2 DEF IsCandidate
  <2>4. listed = <<w, x, y, z>>
    BY DEF Listed
  <2> HIDE DEF w, x, y, z, listed
  <2> QED BY <2>3, <2>4
<1> DEFINE s == merit \o listed
<1>7. Place(names, body, m) = s
  BY DEF Place
<1> HIDE DEF merit, listed
<1>8. /\ s \in Seq(Int) /\ Len(s) = Len(merit) + Len(listed)
      /\ \A k \in 1 .. Len(merit) : s[k] = merit[k]
  <2> DEFINE I == Int
  <2>1. merit \in Seq(I) /\ listed \in Seq(I)
    BY <1>5, <1>6
  <2>2. s \in Seq(I) /\ Len(s) = Len(merit) + Len(listed)
        /\ \A k \in 1 .. Len(merit) : s[k] = merit[k]
    <3> HIDE DEF I
    <3> QED BY <2>1, ConcatIs
  <2> HIDE DEF s
  <2> QED BY <2>2
<1> HIDE DEF s
<1>9. Len(s) = 9 /\ \A k \in 1 .. 5 : s[k] = merit[k]
  BY <1>5, <1>6, <1>8
<1>10. s \in Tuples(9)
  <2>1. s \in [1 .. Len(s) -> Int]
    BY <1>8
  <2> QED BY <1>9, <2>1 DEF Tuples
<1> QED BY <1>7, <1>9, <1>10 DEF merit

\* Next to a candidate that reconciles without a residual and reads a movement in
\* most lines, the mapping chosen does too, and the headers support it as much.
LEMMA ChosenIsAsGood ==
    ASSUME NEW names, NEW body, NEW K, Readable(names, body, K), NEW best \in Candidates(body),
           Checkable(body, best), Passed(body, best), Moves(body, best),
           SumOf(Residuals(body, best)) = 0
    PROVE  LET m == Chosen(names, body)
           IN  /\ m \in Candidates(body) /\ Checkable(body, m) /\ Passed(body, m) /\ Moves(body, m)
               /\ \A i \in 1 .. Len(body) - 1 : Residuals(body, m)[i] = 0
               /\ HeaderSupport(names, m) >= HeaderSupport(names, best)
<1> DEFINE m == Chosen(names, body)  x == Place(names, body, m)  y == Place(names, body, best)
<1>1. m \in Candidates(body) /\ AtLeast(x, y)
  <2>1. IsFiniteSet(Candidates(body)) /\ \A c \in Candidates(body) : Place(names, body, c) \in Tuples(9)
    BY ColumnsAre, PlaceTyped
  <2>2. Candidates(body) # {} /\ 9 \in Nat
    OBVIOUS
  <2> QED BY <2>1, <2>2, ChosenIs
<1>2. /\ x \in Tuples(9) /\ y \in Tuples(9)
      /\ \A k \in 1 .. 5 : x[k] = Merit(names, body, m)[k] /\ y[k] = Merit(names, body, best)[k]
  BY <1>1, PlaceTyped
<1> HIDE DEF m
<1>3. y[1] = 1 /\ y[2] = 1 /\ y[3] = 1 /\ y[4] = 0 /\ y[5] = HeaderSupport(names, best)
  <2>1. Merit(names, body, best) = <<1, 1, 1, 0, HeaderSupport(names, best)>>
    BY DEF Merit, Flag
  <2> HIDE DEF y
  <2> QED BY <1>2, <2>1
<1>4. /\ x[1] = IF Checkable(body, m) THEN 1 ELSE 0
      /\ x[2] = IF Checkable(body, m) THEN Flag(Passed(body, m)) ELSE 0
      /\ x[3] = Flag(Moves(body, m))
      /\ x[4] = IF Checkable(body, m) THEN -SumOf(Residuals(body, m)) ELSE 0
      /\ x[5] = HeaderSupport(names, m)
  <2> HIDE DEF x
  <2>1. CASE Checkable(body, m)
    <3>1. Merit(names, body, m) = <<1, Flag(Passed(body, m)), Flag(Moves(body, m)),
                                    -SumOf(Residuals(body, m)), HeaderSupport(names, m)>>
      BY <2>1 DEF Merit
    <3> QED BY <1>2, <2>1, <3>1
  <2>2. CASE ~Checkable(body, m)
    <3>1. Merit(names, body, m) = <<0, 0, Flag(Moves(body, m)), 0, HeaderSupport(names, m)>>
      BY <2>2 DEF Merit
    <3> QED BY <1>2, <2>2, <3>1
  <2> QED BY <2>1, <2>2
<1>5. Flag(Passed(body, m)) <= 1 /\ Flag(Moves(body, m)) <= 1
      /\ (Checkable(body, m) => SumOf(Residuals(body, m)) \in Nat)
  <2>1. Checkable(body, m) => SumOf(Residuals(body, m)) \in Nat
    BY <1>1, ResidualsAre DEF Checkable
  <2>2. Flag(Passed(body, m)) <= 1 /\ Flag(Moves(body, m)) <= 1
    BY DEF Flag
  <2> QED BY <2>1, <2>2
<1>6. x[1] \in Int /\ x[2] \in Int /\ x[3] \in Int /\ x[4] \in Int /\ x[5] \in Int /\ y[5] \in Int
      /\ DOMAIN x = 1 .. 9
  BY <1>2 DEF Tuples
<1>7. x[1] <= 1 /\ x[2] <= 1 /\ x[3] <= 1 /\ x[4] <= 0
  <2>1. x[1] <= 1
    BY <1>4
  <2>2. x[2] <= 1
    BY <1>4, <1>5
  <2>3. x[3] <= 1
    BY <1>4, <1>5
  <2>4. x[4] <= 0
    <3> DEFINE s == SumOf(Residuals(body, m))
    <3>1. CASE Checkable(body, m)
      <4>1. s \in Nat /\ x[4] = -s
        BY <1>4, <1>5, <3>1
      <4> HIDE DEF s, x
      <4> QED BY <4>1
    <3>2. CASE ~Checkable(body, m)
      BY <1>4, <3>2
    <3> QED BY <3>1, <3>2
  <2> QED BY <2>1, <2>2, <2>3, <2>4
<1> HIDE DEF x, y
<1>8. x[1] = 1 /\ x[2] = 1 /\ x[3] = 1 /\ x[4] = 0 /\ x[5] >= y[5]
  <2>1. CASE x = y
    BY <1>3, <1>6, <2>1
  <2>2. CASE x # y
    <3>1. PICK k \in 1 .. 9 : x[k] > y[k] /\ \A j \in 1 .. k - 1 : x[j] = y[j]
      BY <1>1, <1>6, <2>2 DEF AtLeast
    <3>2. k # 1 /\ k # 2 /\ k # 3 /\ k # 4
      BY <1>3, <1>6, <1>7, <3>1
    <3>3. 1 \in 1 .. k - 1 /\ 2 \in 1 .. k - 1 /\ 3 \in 1 .. k - 1 /\ 4 \in 1 .. k - 1
      BY <3>2
    <3>4. x[1] = y[1] /\ x[2] = y[2] /\ x[3] = y[3] /\ x[4] = y[4]
      BY <3>1, <3>3
    <3>5. x[5] >= y[5]
      <4>1. CASE k = 5
        BY <1>6, <3>1, <4>1
      <4>2. CASE k # 5
        <5>1. 5 \in 1 .. k - 1
          BY <3>2, <4>2
        <5> QED BY <1>6, <3>1, <5>1
      <4> QED BY <4>1, <4>2
    <3> QED BY <1>3, <3>4, <3>5
  <2> QED BY <2>1, <2>2
<1>9. Checkable(body, m)
  BY <1>4, <1>8
<1>10. Passed(body, m) /\ Moves(body, m)
  BY <1>4, <1>8, <1>9 DEF Flag
<1>11. SumOf(Residuals(body, m)) = 0
  <2> DEFINE s == SumOf(Residuals(body, m))
  <2>1. s \in Nat /\ -s = 0
    BY <1>4, <1>5, <1>8, <1>9
  <2> HIDE DEF s
  <2>2. s = 0
    BY <2>1
  <2> QED BY <2>2 DEF s
<1>12. \A i \in 1 .. Len(body) - 1 : Residuals(body, m)[i] = 0
  BY <1>1, <1>9, <1>11, ResidualsAre DEF Checkable
<1>13. HeaderSupport(names, m) >= HeaderSupport(names, best)
  BY <1>3, <1>4, <1>8
<1> QED BY <1>1, <1>9, <1>10, <1>12, <1>13 DEF m

-----------------------------------------------------------------------------
(* The layouts: what their columns hold and are called.                    *)

\* The layouts there are.
LEMMA LayoutsAre ==
    \A layout \in Layouts : TwoColumns(layout) \/ layout \in {"signed", "flag", "us", "zeroes"}
BY LayoutsAssumption DEF LayoutsAssumption, Columns, TwoColumns

\* What each column of a layout holds.
LEMMA ContentsAre ==
    /\ \A layout : TwoColumns(layout) => Contents[layout] = <<"debit", "credit", "balance">>
    /\ Contents["signed"] = <<"net", "balance">>
    /\ Contents["flag"] = <<"gross", "mark", "balance">>
    /\ Contents["us"] = <<"net">>
    /\ Contents["zeroes"] = <<"debit", "credit">>
<1>1. /\ Contents["signed"] = <<"net", "balance">>
      /\ Contents["flag"] = <<"gross", "mark", "balance">>
      /\ Contents["us"] = <<"net">>
      /\ Contents["zeroes"] = <<"debit", "credit">>
  BY DEF Contents, Columns
<1>2. /\ Contents["simple"] = <<"debit", "credit", "balance">>
      /\ Contents["swapped"] = <<"debit", "credit", "balance">>
      /\ Contents["indian"] = <<"debit", "credit", "balance">>
  BY DEF Contents, Columns
<1> QED BY <1>1, <1>2 DEF TwoColumns

\* How the columns of a layout are headed.
LEMMA NamesAre ==
    /\ Columns["simple"][1] = "Debit" /\ Columns["simple"][2] = "Credit"
    /\ Columns["simple"][3] = "Balance"
    /\ Columns["swapped"][1] = "Credit" /\ Columns["swapped"][2] = "Debit"
    /\ Columns["swapped"][3] = "Balance"
    /\ Columns["indian"][1] = "Withdrawal (Dr)" /\ Columns["indian"][2] = "Deposit (Cr)"
    /\ Columns["indian"][3] = "Closing Balance"
    /\ Columns["signed"][1] = "Amount" /\ Columns["signed"][2] = "Running Balance"
    /\ Columns["flag"][1] = "Amount" /\ Columns["flag"][3] = "Balance"
    /\ Columns["us"][1] = "Amount"
BY DEF Columns

\* The layouts with a balance.
LEMMA HasBalanceIs ==
    /\ \A layout : TwoColumns(layout) => HasBalance(layout)
    /\ HasBalance("signed") /\ HasBalance("flag") /\ ~HasBalance("us") /\ ~HasBalance("zeroes")
<1>1. \A layout : TwoColumns(layout) => HasBalance(layout)
  <2> SUFFICES ASSUME NEW layout, TwoColumns(layout) PROVE HasBalance(layout)
    OBVIOUS
  <2>1. Contents[layout] = <<"debit", "credit", "balance">>
    BY ContentsAre
  <2>2. 3 \in DOMAIN Contents[layout] /\ Contents[layout][3] = "balance"
    BY <2>1
  <2> QED BY <2>2 DEF HasBalance
<1>2. HasBalance("signed")
  <2>1. 2 \in DOMAIN Contents["signed"] /\ Contents["signed"][2] = "balance"
    BY ContentsAre
  <2> QED BY <2>1 DEF HasBalance
<1>3. HasBalance("flag")
  <2>1. 3 \in DOMAIN Contents["flag"] /\ Contents["flag"][3] = "balance"
    BY ContentsAre
  <2> QED BY <2>1 DEF HasBalance
<1>4. ~HasBalance("us") /\ ~HasBalance("zeroes")
  BY ContentsAre DEF HasBalance
<1> QED BY <1>1, <1>2, <1>3, <1>4

-----------------------------------------------------------------------------
(* The lines of a ledger in a layout.                                      *)

\* A transaction moves money one way.
Transaction ==
    {t \in [date : Calendar, text : Texts, debit : Nat, credit : Nat, balance : Int] :
        \/ t.debit > 0 /\ t.credit = 0
        \/ t.debit = 0 /\ t.credit > 0}

Chained(ts) == \A i \in 1 .. Len(ts) - 1 :
                  ts[i + 1].balance = ts[i].balance + ts[i + 1].credit - ts[i + 1].debit

InOrder(ts) == \A i \in 1 .. Len(ts) - 1 : Before(ts[i].date, ts[i + 1].date)

\* The transactions of a window of the ledger.
Window(ts) == ts \in Seq(Transaction) /\ ts # <<>> /\ Chained(ts) /\ InOrder(ts)

\* What a line of each layout says of a transaction, column by column.
LEMMA TwoColumnLine ==
    ASSUME NEW layout, TwoColumns(layout), NEW t \in Transaction
    PROVE  LET line == Line(layout, t)
           IN  /\ DOMAIN line.cells = 1 .. 3
               /\ line.cells[1] = (IF t.debit = 0 THEN Blank ELSE Number(t.debit))
               /\ line.cells[2] = (IF t.credit = 0 THEN Blank ELSE Number(t.credit))
               /\ line.cells[3] = Number(t.balance)
<1>1. Contents[layout] = <<"debit", "credit", "balance">> /\ layout # "zeroes"
  BY ContentsAre DEF TwoColumns
<1>2. Line(layout, t).cells = [k \in 1 .. 3 |-> WrittenCell(Contents[layout][k], layout, t)]
  BY <1>1 DEF Line
<1>3. /\ Contents[layout][1] = "debit" /\ Contents[layout][2] = "credit"
      /\ Contents[layout][3] = "balance"
  BY <1>1
<1>4. /\ WrittenCell("debit", layout, t) = (IF t.debit = 0 THEN Blank ELSE Number(t.debit))
      /\ WrittenCell("credit", layout, t) = (IF t.credit = 0 THEN Blank ELSE Number(t.credit))
      /\ WrittenCell("balance", layout, t) = Number(t.balance)
  BY <1>1 DEF WrittenCell, Sparse
<1> QED BY <1>2, <1>3, <1>4

\* One signed column of amounts.
LEMMA SignedLine ==
    ASSUME NEW t \in Transaction
    PROVE  LET line == Line("signed", t)
           IN  /\ DOMAIN line.cells = 1 .. 2
               /\ line.cells[1] = Number(t.credit - t.debit)
               /\ line.cells[2] = Number(t.balance)
<1>1. Contents["signed"] = <<"net", "balance">>
  BY ContentsAre
<1>2. Line("signed", t).cells = [k \in 1 .. 2 |-> WrittenCell(Contents["signed"][k], "signed", t)]
  BY <1>1 DEF Line
<1>3. Contents["signed"][1] = "net" /\ Contents["signed"][2] = "balance"
  BY <1>1
<1>4. /\ WrittenCell("net", "signed", t) = Number(t.credit - t.debit)
      /\ WrittenCell("balance", "signed", t) = Number(t.balance)
  BY DEF WrittenCell
<1> QED BY <1>2, <1>3, <1>4

\* Amounts without a sign, and a mark beside them.
LEMMA FlagLine ==
    ASSUME NEW t \in Transaction
    PROVE  LET line == Line("flag", t)
           IN  /\ DOMAIN line.cells = 1 .. 3
               /\ line.cells[1] = Number(t.credit + t.debit)
               /\ line.cells[2] = Mark(IF t.credit > 0 THEN "cr" ELSE "dr")
               /\ line.cells[3] = Number(t.balance)
<1>1. Contents["flag"] = <<"gross", "mark", "balance">>
  BY ContentsAre
<1>2. Line("flag", t).cells = [k \in 1 .. 3 |-> WrittenCell(Contents["flag"][k], "flag", t)]
  BY <1>1 DEF Line
<1>3. /\ Contents["flag"][1] = "gross" /\ Contents["flag"][2] = "mark"
      /\ Contents["flag"][3] = "balance"
  BY <1>1
<1>4. /\ WrittenCell("gross", "flag", t) = Number(t.credit + t.debit)
      /\ WrittenCell("mark", "flag", t) = Mark(IF t.credit > 0 THEN "cr" ELSE "dr")
      /\ WrittenCell("balance", "flag", t) = Number(t.balance)
  BY DEF WrittenCell
<1> QED BY <1>2, <1>3, <1>4

\* One signed column of amounts, and no balance.
LEMMA UsLine ==
    ASSUME NEW t \in Transaction
    PROVE  LET line == Line("us", t)
           IN  /\ DOMAIN line.cells = 1 .. 1
               /\ line.cells[1] = Number(t.credit - t.debit)
<1>1. Contents["us"] = <<"net">>
  BY ContentsAre
<1>2. Line("us", t).cells = [k \in 1 .. 1 |-> WrittenCell(Contents["us"][k], "us", t)]
  BY <1>1 DEF Line
<1>3. Contents["us"][1] = "net"
  BY <1>1
<1>4. WrittenCell("net", "us", t) = Number(t.credit - t.debit)
  BY DEF WrittenCell
<1> QED BY <1>2, <1>3, <1>4

\* Lines are as many as transactions, one for each.
LEMMA LinesAre ==
    ASSUME NEW layout, NEW ts, Window(ts)
    PROVE  /\ Len(ts) \in Nat \ {0} /\ DOMAIN ts = 1 .. Len(ts)
           /\ Len(Lines(layout, ts)) = Len(ts) /\ DOMAIN Lines(layout, ts) = 1 .. Len(ts)
           /\ \A i \in 1 .. Len(ts) : ts[i] \in Transaction /\ Lines(layout, ts)[i] = Line(layout, ts[i])
           /\ \A i \in 1 .. Len(ts) - 1 : i \in 1 .. Len(ts) /\ i + 1 \in 1 .. Len(ts)
<1>1. Len(ts) \in Nat \ {0} /\ DOMAIN ts = 1 .. Len(ts) /\ \A i \in 1 .. Len(ts) : ts[i] \in Transaction
  BY DEF Window
<1>2. Len(Lines(layout, ts)) = Len(ts) /\ DOMAIN Lines(layout, ts) = 1 .. Len(ts)
  BY <1>1 DEF Lines
<1>3. \A i \in 1 .. Len(ts) : Lines(layout, ts)[i] = Line(layout, ts[i])
  BY <1>1 DEF Lines
<1>4. \A i \in 1 .. Len(ts) - 1 : i \in 1 .. Len(ts) /\ i + 1 \in 1 .. Len(ts)
  BY <1>1
<1> QED BY <1>1, <1>2, <1>3, <1>4

-----------------------------------------------------------------------------
(* The columns of numbers and of marks of each layout.                     *)

\* A column of numbers and blanks is one of numbers when it holds a number.
LEMMA KindsAre ==
    ASSUME NEW body, NEW n \in Nat \ {0}, DOMAIN body = 1 .. n, NEW k
    PROVE  /\ (\A i \in 1 .. n : body[i].cells[k].kind = "number") => Kinds(body, k) = {"number"}
           /\ (\A i \in 1 .. n : body[i].cells[k].kind = "mark") => Kinds(body, k) = {"mark"}
           /\ (\A i \in 1 .. n : body[i].cells[k].kind \in {"number", "blank"})
                => /\ Kinds(body, k) # {"mark"}
                   /\ Kinds(body, k) = {"number"} <=> \E i \in 1 .. n : body[i].cells[k].kind = "number"
<1> DEFINE kind == [i \in 1 .. n |-> body[i].cells[k].kind]
<1>1. Kinds(body, k) = {kind[i] : i \in 1 .. n} \ {"blank"}
  BY DEF Kinds
<1>2. 1 \in 1 .. n
  OBVIOUS
<1>3. \A i \in 1 .. n : body[i].cells[k].kind = kind[i]
  OBVIOUS
<1> HIDE DEF kind
<1>4. (\A i \in 1 .. n : kind[i] = "number") => Kinds(body, k) = {"number"}
  BY <1>1, <1>2
<1>5. (\A i \in 1 .. n : kind[i] = "mark") => Kinds(body, k) = {"mark"}
  BY <1>1, <1>2
<1>6. ASSUME \A i \in 1 .. n : kind[i] \in {"number", "blank"}
      PROVE  /\ Kinds(body, k) # {"mark"}
             /\ Kinds(body, k) = {"number"} <=> \E i \in 1 .. n : kind[i] = "number"
  <2>1. Kinds(body, k) \subseteq {"number"} /\ "mark" \notin Kinds(body, k)
    BY <1>1, <1>6
  <2>2. "number" \in Kinds(body, k) <=> \E i \in 1 .. n : kind[i] = "number"
    BY <1>1
  <2> QED BY <2>1, <2>2
<1> QED BY <1>3, <1>4, <1>5, <1>6

\* What is read from a cell.
LEMMA CellsAre ==
    ASSUME NEW v
    PROVE  /\ Number(v).kind = "number" /\ Number(v).value = v /\ Number(v) # Blank
           /\ Mark(v).kind = "mark" /\ Mark(v).value = v /\ Mark(v) # Blank
           /\ Blank.kind = "blank"
BY DEF Number, Mark, Blank

\* With two columns, those of amounts are columns of numbers when money went that
\* way at least once, and are otherwise empty; both have blanks when it went both ways.
LEMMA TwoColumnsAre ==
    ASSUME NEW layout, TwoColumns(layout), NEW ts, Window(ts)
    PROVE  LET body == Lines(layout, ts)
           IN  /\ 1 \in NumericColumns(body) <=> Debits(ts) # {}
               /\ 2 \in NumericColumns(body) <=> Credits(ts) # {}
               /\ 3 \in NumericColumns(body) /\ NumericColumns(body) \subseteq 1 .. 3
               /\ Indicators(body) = {}
<1> DEFINE body == Lines(layout, ts)  n == Len(ts)
<1>1. /\ n \in Nat \ {0} /\ DOMAIN ts = 1 .. n /\ DOMAIN body = 1 .. n
      /\ \A i \in 1 .. n : ts[i] \in Transaction /\ body[i] = Line(layout, ts[i])
  BY LinesAre
<1> HIDE DEF body, n
<1>2. \A i \in 1 .. n :
        /\ DOMAIN body[i].cells = 1 .. 3
        /\ body[i].cells[1] = (IF ts[i].debit = 0 THEN Blank ELSE Number(ts[i].debit))
        /\ body[i].cells[2] = (IF ts[i].credit = 0 THEN Blank ELSE Number(ts[i].credit))
        /\ body[i].cells[3] = Number(ts[i].balance)
        /\ ts[i].debit \in Nat /\ ts[i].credit \in Nat
  <2> SUFFICES ASSUME NEW i \in 1 .. n
               PROVE  /\ DOMAIN body[i].cells = 1 .. 3
                      /\ body[i].cells[1] = (IF ts[i].debit = 0 THEN Blank ELSE Number(ts[i].debit))
                      /\ body[i].cells[2] = (IF ts[i].credit = 0 THEN Blank ELSE Number(ts[i].credit))
                      /\ body[i].cells[3] = Number(ts[i].balance)
                      /\ ts[i].debit \in Nat /\ ts[i].credit \in Nat
    OBVIOUS
  <2>1. ts[i] \in Transaction /\ body[i] = Line(layout, ts[i])
    BY <1>1
  <2>2. ts[i].debit \in Nat /\ ts[i].credit \in Nat
    BY <2>1 DEF Transaction
  <2> QED BY <2>1, <2>2, TwoColumnLine
<1>3. \A i \in 1 .. n :
        /\ body[i].cells[1].kind = (IF ts[i].debit > 0 THEN "number" ELSE "blank")
        /\ body[i].cells[2].kind = (IF ts[i].credit > 0 THEN "number" ELSE "blank")
        /\ body[i].cells[3].kind = "number"
  BY <1>2, CellsAre
<1>4. DOMAIN body[1].cells = 1 .. 3
  BY <1>1, <1>2
<1>5. Kinds(body, 1) # {"mark"} /\ (Kinds(body, 1) = {"number"} <=> Debits(ts) # {})
  <2>1. Debits(ts) # {} <=> \E i \in 1 .. n : ts[i].debit > 0
    BY <1>1 DEF Debits
  <2>2. \A i \in 1 .. n : body[i].cells[1].kind \in {"number", "blank"}
    BY <1>3
  <2>3. Kinds(body, 1) # {"mark"}
        /\ (Kinds(body, 1) = {"number"} <=> \E i \in 1 .. n : body[i].cells[1].kind = "number")
    BY <1>1, <2>2, KindsAre
  <2> QED BY <1>3, <2>1, <2>3
<1>6. Kinds(body, 2) # {"mark"} /\ (Kinds(body, 2) = {"number"} <=> Credits(ts) # {})
  <2>1. Credits(ts) # {} <=> \E i \in 1 .. n : ts[i].credit > 0
    BY <1>1 DEF Credits
  <2>2. \A i \in 1 .. n : body[i].cells[2].kind \in {"number", "blank"}
    BY <1>3
  <2>3. Kinds(body, 2) # {"mark"}
        /\ (Kinds(body, 2) = {"number"} <=> \E i \in 1 .. n : body[i].cells[2].kind = "number")
    BY <1>1, <2>2, KindsAre
  <2> QED BY <1>3, <2>1, <2>3
<1>7. Kinds(body, 3) = {"number"} /\ Kinds(body, 3) # {"mark"}
  BY <1>1, <1>3, KindsAre
<1>8. NumericColumns(body) = {k \in 1 .. 3 : Kinds(body, k) = {"number"}}
      /\ Indicators(body) = {k \in 1 .. 3 : Kinds(body, k) = {"mark"}}
  BY <1>4 DEF NumericColumns, Indicators
<1>9. Indicators(body) = {}
  <2>1. ASSUME NEW k \in 1 .. 3 PROVE Kinds(body, k) # {"mark"}
    <3>1. k = 1 \/ k = 2 \/ k = 3
      OBVIOUS
    <3> QED BY <1>5, <1>6, <1>7, <3>1
  <2> QED BY <1>8, <2>1
<1> QED BY <1>5, <1>6, <1>7, <1>8, <1>9 DEF body

\* Both columns of a signed statement are numeric.
LEMMA SignedColumnsAre ==
    ASSUME NEW ts, Window(ts)
    PROVE  /\ NumericColumns(Lines("signed", ts)) = {1, 2}
           /\ Indicators(Lines("signed", ts)) = {}
<1> DEFINE body == Lines("signed", ts)  n == Len(ts)
<1>1. /\ n \in Nat \ {0} /\ DOMAIN body = 1 .. n
      /\ \A i \in 1 .. n : ts[i] \in Transaction /\ body[i] = Line("signed", ts[i])
  BY LinesAre
<1> HIDE DEF body, n
<1>2. \A i \in 1 .. n : /\ DOMAIN body[i].cells = 1 .. 2
                        /\ body[i].cells[1].kind = "number" /\ body[i].cells[2].kind = "number"
  BY <1>1, SignedLine, CellsAre
<1>3. DOMAIN body[1].cells = 1 .. 2
  BY <1>1, <1>2
<1>4. Kinds(body, 1) = {"number"} /\ Kinds(body, 2) = {"number"}
  BY <1>1, <1>2, KindsAre, SMTT(30)
<1>5. \A k \in 1 .. 2 : k = 1 \/ k = 2
  OBVIOUS
<1>6. {"number"} # {"mark"}
  OBVIOUS
<1> QED BY <1>3, <1>4, <1>5, <1>6 DEF NumericColumns, Indicators, body

\* Under a flag the amounts and the balance are numeric, and the marks are marks.
LEMMA FlagColumnsAre ==
    ASSUME NEW ts, Window(ts)
    PROVE  /\ NumericColumns(Lines("flag", ts)) = {1, 3}
           /\ Indicators(Lines("flag", ts)) = {2}
<1> DEFINE body == Lines("flag", ts)  n == Len(ts)
<1>1. /\ n \in Nat \ {0} /\ DOMAIN body = 1 .. n
      /\ \A i \in 1 .. n : ts[i] \in Transaction /\ body[i] = Line("flag", ts[i])
  BY LinesAre
<1> HIDE DEF body, n
<1>2. \A i \in 1 .. n : /\ DOMAIN body[i].cells = 1 .. 3
                        /\ body[i].cells[1].kind = "number" /\ body[i].cells[2].kind = "mark"
                        /\ body[i].cells[3].kind = "number"
  BY <1>1, FlagLine, CellsAre
<1>3. DOMAIN body[1].cells = 1 .. 3
  BY <1>1, <1>2
<1>4. Kinds(body, 1) = {"number"} /\ Kinds(body, 2) = {"mark"} /\ Kinds(body, 3) = {"number"}
  BY <1>1, <1>2, KindsAre
<1>5. \A k \in 1 .. 3 : k = 1 \/ k = 2 \/ k = 3
  OBVIOUS
<1>6. {"number"} # {"mark"}
  OBVIOUS
<1>7. NumericColumns(body) = {1, 3}
  BY <1>3, <1>4, <1>5, <1>6 DEF NumericColumns
<1>8. Indicators(body) = {2}
  BY <1>3, <1>4, <1>5, <1>6 DEF Indicators
<1> QED BY <1>7, <1>8 DEF body

\* Without a balance the amounts are the only numeric column.
LEMMA UsColumnsAre ==
    ASSUME NEW ts, Window(ts)
    PROVE  /\ NumericColumns(Lines("us", ts)) = {1}
           /\ Indicators(Lines("us", ts)) = {}
<1> DEFINE body == Lines("us", ts)  n == Len(ts)
<1>1. /\ n \in Nat \ {0} /\ DOMAIN body = 1 .. n
      /\ \A i \in 1 .. n : ts[i] \in Transaction /\ body[i] = Line("us", ts[i])
  BY LinesAre
<1> HIDE DEF body, n
<1>2. \A i \in 1 .. n : DOMAIN body[i].cells = 1 .. 1 /\ body[i].cells[1].kind = "number"
  BY <1>1, UsLine, CellsAre
<1>3. DOMAIN body[1].cells = 1 .. 1
  BY <1>1, <1>2
<1>4. Kinds(body, 1) = {"number"}
  BY <1>1, <1>2, KindsAre
<1>5. \A k \in 1 .. 1 : k = 1
  OBVIOUS
<1>6. {"number"} # {"mark"}
  OBVIOUS
<1> QED BY <1>3, <1>4, <1>5, <1>6 DEF NumericColumns, Indicators, body

\* Every heading of an amount or a balance is one the aliases are scored against.
LEMMA ColumnHeaders ==
    /\ "Debit" \in AmountHeaders /\ "Withdrawal (Dr)" \in AmountHeaders
    /\ "Credit" \in AmountHeaders /\ "Deposit (Cr)" \in AmountHeaders
    /\ "Amount" \in AmountHeaders /\ "Balance" \in AmountHeaders
    /\ "Running Balance" \in AmountHeaders /\ "Closing Balance" \in AmountHeaders
BY DEF AmountHeaders

\* The columns of a line are finitely many.
LEMMA FiniteColumns ==
    ASSUME NEW n \in Nat
    PROVE  IsFiniteSet(1 .. n) /\ Cardinality(1 .. n) = n
<1>1. IsFiniteSet(1 .. n)
  BY FS_Interval
<1>2. Cardinality(1 .. n) = IF 1 <= n THEN n - 1 + 1 ELSE 0
  BY FS_Interval
<1> QED BY <1>1, <1>2

\* The lines of every layout with a balance, and of the one with net amounts
\* alone, can be read.
LEMMA TwoColumnsReadable ==
    ASSUME NEW layout, TwoColumns(layout), NEW ts, Window(ts)
    PROVE  Readable(Columns[layout], Lines(layout, ts), 1 .. 3)
<1> DEFINE body == Lines(layout, ts)  n == Len(ts)
<1>1. /\ n \in Nat \ {0} /\ Len(body) = n /\ DOMAIN body = 1 .. n
      /\ \A i \in 1 .. n : ts[i] \in Transaction /\ body[i] = Line(layout, ts[i])
  BY LinesAre
<1>2. \A k \in 1 .. 3 : Columns[layout][k] \in AmountHeaders
  <2>1. \A k \in 1 .. 3 : k = 1 \/ k = 2 \/ k = 3
    OBVIOUS
  <2> QED BY <2>1, NamesAre, ColumnHeaders DEF TwoColumns
<1>3. NumericColumns(body) \subseteq 1 .. 3
  BY TwoColumnsAre
<1> HIDE DEF body, n
<1>4. ASSUME NEW i \in 1 .. n
      PROVE  /\ DOMAIN body[i].cells = 1 .. 3
             /\ \A k \in 1 .. 3 : body[i].cells[k].kind = "number" => body[i].cells[k].value \in Int
  <2>1. ts[i] \in Transaction /\ body[i] = Line(layout, ts[i])
    BY <1>1
  <2>2. ts[i].debit \in Int /\ ts[i].credit \in Int /\ ts[i].balance \in Int
    BY <2>1 DEF Transaction
  <2>3. /\ DOMAIN body[i].cells = 1 .. 3
        /\ body[i].cells[1] = (IF ts[i].debit = 0 THEN Blank ELSE Number(ts[i].debit))
        /\ body[i].cells[2] = (IF ts[i].credit = 0 THEN Blank ELSE Number(ts[i].credit))
        /\ body[i].cells[3] = Number(ts[i].balance)
    BY <2>1, TwoColumnLine
  <2>4. \A k \in 1 .. 3 : k = 1 \/ k = 2 \/ k = 3
    OBVIOUS
  <2> QED BY <2>2, <2>3, <2>4, CellsAre
<1>5. IsFiniteSet(1 .. 3)
  BY FiniteColumns
<1>6. 1 .. 3 \subseteq Nat \ {0}
  OBVIOUS
<1> QED BY <1>1, <1>2, <1>3, <1>4, <1>5, <1>6 DEF Readable, body

\* A signed statement is readable.
LEMMA SignedReadable ==
    ASSUME NEW ts, Window(ts)
    PROVE  Readable(Columns["signed"], Lines("signed", ts), 1 .. 2)
<1> DEFINE body == Lines("signed", ts)  n == Len(ts)
<1>1. /\ n \in Nat \ {0} /\ Len(body) = n /\ DOMAIN body = 1 .. n
      /\ \A i \in 1 .. n : ts[i] \in Transaction /\ body[i] = Line("signed", ts[i])
  BY LinesAre
<1>2. \A k \in {1, 2} : Columns["signed"][k] \in AmountHeaders
  <2>1. Columns["signed"][1] \in AmountHeaders /\ Columns["signed"][2] \in AmountHeaders
    BY NamesAre, ColumnHeaders
  <2> QED BY <2>1
<1>3. NumericColumns(body) = {1, 2}
  BY SignedColumnsAre
<1> HIDE DEF body, n
<1>4. ASSUME NEW i \in 1 .. n
      PROVE  /\ DOMAIN body[i].cells = 1 .. 2
             /\ \A k \in 1 .. 2 : body[i].cells[k].kind = "number" => body[i].cells[k].value \in Int
  <2>1. ts[i] \in Transaction /\ body[i] = Line("signed", ts[i])
    BY <1>1
  <2>2. ts[i].debit \in Int /\ ts[i].credit \in Int /\ ts[i].balance \in Int
    BY <2>1 DEF Transaction
  <2>3. /\ DOMAIN body[i].cells = 1 .. 2
        /\ body[i].cells[1] = Number(ts[i].credit - ts[i].debit)
        /\ body[i].cells[2] = Number(ts[i].balance)
    BY <2>1, SignedLine
  <2>4. \A k \in 1 .. 2 : k = 1 \/ k = 2
    OBVIOUS
  <2> QED BY <2>2, <2>3, <2>4, CellsAre
<1>5. IsFiniteSet(1 .. 2)
  BY FiniteColumns
<1>6. 1 .. 2 \subseteq Nat \ {0}
  OBVIOUS
<1> QED BY <1>1, <1>2, <1>3, <1>4, <1>5, <1>6 DEF Readable, body

\* A flagged statement is readable.
LEMMA FlagReadable ==
    ASSUME NEW ts, Window(ts)
    PROVE  Readable(Columns["flag"], Lines("flag", ts), 1 .. 3)
<1> DEFINE body == Lines("flag", ts)  n == Len(ts)
<1>1. /\ n \in Nat \ {0} /\ Len(body) = n /\ DOMAIN body = 1 .. n
      /\ \A i \in 1 .. n : ts[i] \in Transaction /\ body[i] = Line("flag", ts[i])
  BY LinesAre
<1>2. \A k \in {1, 3} : Columns["flag"][k] \in AmountHeaders
  <2>1. Columns["flag"][1] \in AmountHeaders /\ Columns["flag"][3] \in AmountHeaders
    BY NamesAre, ColumnHeaders
  <2> QED BY <2>1
<1>3. NumericColumns(body) = {1, 3}
  BY FlagColumnsAre
<1> HIDE DEF body, n
<1>4. ASSUME NEW i \in 1 .. n
      PROVE  /\ DOMAIN body[i].cells = 1 .. 3
             /\ \A k \in 1 .. 3 : body[i].cells[k].kind = "number" => body[i].cells[k].value \in Int
  <2>1. ts[i] \in Transaction /\ body[i] = Line("flag", ts[i])
    BY <1>1
  <2>2. ts[i].debit \in Int /\ ts[i].credit \in Int /\ ts[i].balance \in Int
    BY <2>1 DEF Transaction
  <2>3. /\ DOMAIN body[i].cells = 1 .. 3
        /\ body[i].cells[1] = Number(ts[i].credit + ts[i].debit)
        /\ body[i].cells[2] = Mark(IF ts[i].credit > 0 THEN "cr" ELSE "dr")
        /\ body[i].cells[3] = Number(ts[i].balance)
    BY <2>1, FlagLine
  <2>4. \A k \in 1 .. 3 : k = 1 \/ k = 2 \/ k = 3
    OBVIOUS
  <2>5. body[i].cells[2].kind # "number"
    BY <2>3, CellsAre
  <2> QED BY <2>2, <2>3, <2>4, <2>5, CellsAre
<1>5. IsFiniteSet(1 .. 3)
  BY FiniteColumns
<1>6. 1 .. 3 \subseteq Nat \ {0}
  OBVIOUS
<1> QED BY <1>1, <1>2, <1>3, <1>4, <1>5, <1>6 DEF Readable, body

\* A statement without a balance is readable.
LEMMA UsReadable ==
    ASSUME NEW ts, Window(ts)
    PROVE  Readable(Columns["us"], Lines("us", ts), 1 .. 1)
<1> DEFINE body == Lines("us", ts)  n == Len(ts)
<1>1. /\ n \in Nat \ {0} /\ Len(body) = n /\ DOMAIN body = 1 .. n
      /\ \A i \in 1 .. n : ts[i] \in Transaction /\ body[i] = Line("us", ts[i])
  BY LinesAre
<1>2. Columns["us"][1] \in AmountHeaders
  BY NamesAre, ColumnHeaders
<1>3. NumericColumns(body) = {1}
  BY UsColumnsAre
<1> HIDE DEF body, n
<1>4. ASSUME NEW i \in 1 .. n
      PROVE  /\ DOMAIN body[i].cells = 1 .. 1
             /\ \A k \in 1 .. 1 : body[i].cells[k].kind = "number" => body[i].cells[k].value \in Int
  <2>1. ts[i] \in Transaction /\ body[i] = Line("us", ts[i])
    BY <1>1
  <2>2. ts[i].debit \in Int /\ ts[i].credit \in Int
    BY <2>1 DEF Transaction
  <2>3. DOMAIN body[i].cells = 1 .. 1 /\ body[i].cells[1] = Number(ts[i].credit - ts[i].debit)
    BY <2>1, UsLine
  <2>4. \A k \in 1 .. 1 : k = 1
    OBVIOUS
  <2> QED BY <2>2, <2>3, <2>4, CellsAre
<1>5. IsFiniteSet(1 .. 1)
  BY FiniteColumns
<1>6. 1 .. 1 \subseteq Nat \ {0}
  OBVIOUS
<1> QED BY <1>1, <1>2, <1>3, <1>4, <1>5, <1>6 DEF Readable, body

-----------------------------------------------------------------------------
(* The mapping that reads the lines right.                                 *)

\* A mapping reads every line as the transaction it was written from.
Right(body, ts, m) ==
    /\ m.balance # 0
    /\ \A i \in 1 .. Len(ts) :
          /\ body[i].cells[m.balance] # Blank
          /\ Value(body[i], m.balance) = ts[i].balance
          /\ SignedPair(body[i], m) = [debit |-> ts[i].debit, credit |-> ts[i].credit]

\* Such a mapping reconciles, without a residual, and every line of it moves money.
LEMMA RightIsGood ==
    ASSUME NEW names, NEW layout, NEW ts, Window(ts), Len(ts) > 1, NEW K,
           Readable(names, Lines(layout, ts), K),
           NEW m \in Candidates(Lines(layout, ts)), Right(Lines(layout, ts), ts, m)
    PROVE  LET body == Lines(layout, ts)
           IN  /\ Checkable(body, m) /\ Passed(body, m) /\ Moves(body, m)
               /\ SumOf(Residuals(body, m)) = 0
<1> DEFINE body == Lines(layout, ts)  n == Len(ts)  r == Residuals(body, m)
<1>1. /\ n \in Nat \ {0} /\ Len(body) = n /\ DOMAIN body = 1 .. n
      /\ \A i \in 1 .. n : ts[i] \in Transaction
      /\ \A i \in 1 .. n - 1 : i \in 1 .. n /\ i + 1 \in 1 .. n
  BY LinesAre
<1>2. m.balance # 0
      /\ \A i \in 1 .. n :
          /\ body[i].cells[m.balance] # Blank
          /\ Value(body[i], m.balance) = ts[i].balance
          /\ SignedPair(body[i], m) = [debit |-> ts[i].debit, credit |-> ts[i].credit]
  BY DEF Right
<1>3. n - 1 \in Nat /\ DOMAIN r = 1 .. n - 1
      /\ \A i \in 1 .. n - 1 :
            r[i] = Magnitude(Value(body[i], m.balance) + SignedPair(body[i + 1], m).credit
                             - SignedPair(body[i + 1], m).debit - Value(body[i + 1], m.balance))
  <2> HIDE DEF n
  <2>1. m.balance # 0 /\ Len(body) = n
    BY <1>1, <1>2
  <2>2. Len(body) - 1 \in Nat /\ DOMAIN r = 1 .. Len(body) - 1
    BY <2>1, ResidualsAre
  <2>3. \A i \in 1 .. Len(body) - 1 :
            r[i] = Magnitude(Value(body[i], m.balance) + SignedPair(body[i + 1], m).credit
                             - SignedPair(body[i + 1], m).debit - Value(body[i + 1], m.balance))
    BY <2>1, ResidualsAre, SMTT(30)
  <2> QED BY <2>1, <2>2, <2>3
<1>4. \A i \in 1 .. n - 1 : ts[i + 1].balance = ts[i].balance + ts[i + 1].credit - ts[i + 1].debit
  BY DEF Window, Chained
<1> HIDE DEF body, n, r
<1>5. \A i \in 1 .. n : ts[i].debit \in Nat /\ ts[i].credit \in Nat /\ ts[i].balance \in Int
                        /\ (ts[i].debit > 0 \/ ts[i].credit > 0)
  BY <1>1 DEF Transaction
<1>50. \A i \in 1 .. n : /\ SignedPair(body[i], m).debit = ts[i].debit
                         /\ SignedPair(body[i], m).credit = ts[i].credit
  <2> SUFFICES ASSUME NEW i \in 1 .. n
               PROVE  /\ SignedPair(body[i], m).debit = ts[i].debit
                      /\ SignedPair(body[i], m).credit = ts[i].credit
    OBVIOUS
  <2>1. SignedPair(body[i], m) = [debit |-> ts[i].debit, credit |-> ts[i].credit]
    BY <1>2
  <2> QED BY <2>1
<1>6. \A i \in 1 .. n - 1 : r[i] = 0
  <2> SUFFICES ASSUME NEW i \in 1 .. n - 1 PROVE r[i] = 0
    OBVIOUS
  <2> DEFINE a == ts[i].balance  b == ts[i + 1].balance  c == ts[i + 1].credit  d == ts[i + 1].debit
  <2>1. i \in 1 .. n /\ i + 1 \in 1 .. n
    BY <1>1
  <2>2. a \in Int /\ b \in Int /\ c \in Int /\ d \in Int
    BY <1>5, <2>1
  <2>3. b = a + c - d
    BY <1>4
  <2>4. SignedPair(body[i + 1], m).credit = c /\ SignedPair(body[i + 1], m).debit = d
    BY <1>50, <2>1
  <2>5. r[i] = Magnitude(a + c - d - b)
    BY <1>2, <1>3, <2>1, <2>4
  <2> HIDE DEF a, b, c, d
  <2>6. a + c - d - b = 0
    BY <2>2, <2>3
  <2> QED BY <2>5, <2>6 DEF Magnitude
<1>7. Checkable(body, m)
  BY <1>1, <1>2 DEF Checkable
<1>8. Passed(body, m)
  <2>1. \A i \in 1 .. n - 1 : r[i] <= 1
    BY <1>6
  <2>2. Len(body) > 1
    BY <1>1 DEF n
  <2> QED BY <1>3, <1>7, <2>1, <2>2 DEF Passed, Tolerance, r
<1>9. Moves(body, m)
  <2> DEFINE moving == {i \in DOMAIN body : LET p == SignedPair(body[i], m)
                                            IN  p.debit > 0 \/ p.credit > 0}
  <2>1. moving = 1 .. n
    <3>1. \A i \in 1 .. n : SignedPair(body[i], m).debit > 0 \/ SignedPair(body[i], m).credit > 0
      BY <1>5, <1>50
    <3> QED BY <1>1, <3>1
  <2>2. Cardinality(1 .. n) = n
    BY <1>1, FiniteColumns
  <2>3. 2 * n > n
    BY <1>1
  <2>4. Moves(body, m) <=> 2 * Cardinality(moving) > Len(body)
    BY DEF Moves
  <2> HIDE DEF moving
  <2> QED BY <1>1, <2>1, <2>2, <2>3, <2>4
<1>10. SumOf(r) = 0
  <2>1. IsFiniteSet(1 .. n - 1)
    BY <1>3, FiniteColumns
  <2>2. SumFunctionOnSet(r, 1 .. n - 1) = 0
    BY <1>6, <2>1, SumZero
  <2> QED BY <1>3, <2>2 DEF SumOf
<1> QED BY <1>7, <1>8, <1>9, <1>10 DEF body, r

\* What is read from the columns of a layout with two amount columns.
LEMMA TwoColumnValues ==
    ASSUME NEW layout, TwoColumns(layout), NEW ts, Window(ts), NEW i \in 1 .. Len(ts)
    PROVE  LET line == Lines(layout, ts)[i]
           IN  /\ Value(line, 1) = ts[i].debit /\ Value(line, 2) = ts[i].credit
               /\ Value(line, 3) = ts[i].balance /\ line.cells[3] # Blank
               /\ ts[i].debit = 0 => line.cells[1] = Blank
               /\ ts[i].credit = 0 => line.cells[2] = Blank
               /\ ts[i].debit \in Nat /\ ts[i].credit \in Nat /\ ts[i].balance \in Int
               /\ \/ ts[i].debit > 0 /\ ts[i].credit = 0
                  \/ ts[i].debit = 0 /\ ts[i].credit > 0
<1> DEFINE line == Lines(layout, ts)[i]  t == ts[i]
<1>1. t \in Transaction /\ line = Line(layout, t)
  BY LinesAre
<1> HIDE DEF line, t
<1>2. /\ line.cells[1] = (IF t.debit = 0 THEN Blank ELSE Number(t.debit))
      /\ line.cells[2] = (IF t.credit = 0 THEN Blank ELSE Number(t.credit))
      /\ line.cells[3] = Number(t.balance)
  BY <1>1, TwoColumnLine
<1>3. /\ t.debit \in Nat /\ t.credit \in Nat /\ t.balance \in Int
      /\ \/ t.debit > 0 /\ t.credit = 0
         \/ t.debit = 0 /\ t.credit > 0
  BY <1>1 DEF Transaction
<1>4. Value(line, 1) = t.debit
  BY <1>2, <1>3, CellsAre DEF Value
<1>5. Value(line, 2) = t.credit
  BY <1>2, <1>3, CellsAre DEF Value
<1>6. Value(line, 3) = t.balance /\ line.cells[3] # Blank
  BY <1>2, CellsAre DEF Value
<1> QED BY <1>2, <1>3, <1>4, <1>5, <1>6 DEF line, t

\* What is read from the columns of a signed statement.
LEMMA SignedValues ==
    ASSUME NEW ts, Window(ts), NEW i \in 1 .. Len(ts)
    PROVE  LET line == Lines("signed", ts)[i]
           IN  /\ Value(line, 1) = ts[i].credit - ts[i].debit
               /\ Value(line, 2) = ts[i].balance /\ line.cells[2] # Blank
               /\ ts[i].debit \in Nat /\ ts[i].credit \in Nat /\ ts[i].balance \in Int
               /\ \/ ts[i].debit > 0 /\ ts[i].credit = 0
                  \/ ts[i].debit = 0 /\ ts[i].credit > 0
<1> DEFINE line == Lines("signed", ts)[i]  t == ts[i]
<1>1. t \in Transaction /\ line = Line("signed", t)
  BY LinesAre
<1> HIDE DEF line, t
<1>2. line.cells[1] = Number(t.credit - t.debit) /\ line.cells[2] = Number(t.balance)
  BY <1>1, SignedLine
<1>3. /\ t.debit \in Nat /\ t.credit \in Nat /\ t.balance \in Int
      /\ \/ t.debit > 0 /\ t.credit = 0
         \/ t.debit = 0 /\ t.credit > 0
  BY <1>1 DEF Transaction
<1>4. Value(line, 1) = t.credit - t.debit
  BY <1>2, CellsAre DEF Value
<1>5. Value(line, 2) = t.balance /\ line.cells[2] # Blank
  BY <1>2, CellsAre DEF Value
<1> QED BY <1>3, <1>4, <1>5 DEF line, t

\* What is read from the columns of a flagged statement.
LEMMA FlagValues ==
    ASSUME NEW ts, Window(ts), NEW i \in 1 .. Len(ts)
    PROVE  LET line == Lines("flag", ts)[i]
           IN  /\ Value(line, 1) = ts[i].credit + ts[i].debit
               /\ line.cells[2].value = (IF ts[i].credit > 0 THEN "cr" ELSE "dr")
               /\ Value(line, 3) = ts[i].balance /\ line.cells[3] # Blank
               /\ ts[i].debit \in Nat /\ ts[i].credit \in Nat /\ ts[i].balance \in Int
               /\ \/ ts[i].debit > 0 /\ ts[i].credit = 0
                  \/ ts[i].debit = 0 /\ ts[i].credit > 0
<1> DEFINE line == Lines("flag", ts)[i]  t == ts[i]
<1>1. t \in Transaction /\ line = Line("flag", t)
  BY LinesAre
<1> HIDE DEF line, t
<1>2. /\ line.cells[1] = Number(t.credit + t.debit)
      /\ line.cells[2] = Mark(IF t.credit > 0 THEN "cr" ELSE "dr")
      /\ line.cells[3] = Number(t.balance)
  BY <1>1, FlagLine
<1>3. /\ t.debit \in Nat /\ t.credit \in Nat /\ t.balance \in Int
      /\ \/ t.debit > 0 /\ t.credit = 0
         \/ t.debit = 0 /\ t.credit > 0
  BY <1>1 DEF Transaction
<1>4. Value(line, 1) = t.credit + t.debit
  BY <1>2, CellsAre DEF Value
<1>5. line.cells[2].value = IF t.credit > 0 THEN "cr" ELSE "dr"
  BY <1>2, CellsAre
<1>6. Value(line, 3) = t.balance /\ line.cells[3] # Blank
  BY <1>2, CellsAre DEF Value
<1> QED BY <1>3, <1>4, <1>5, <1>6 DEF line, t

Separate(a, b, balance) == [as |-> "separate", a |-> a, b |-> b, balance |-> balance]
Signed(a, balance) == [as |-> "signed", a |-> a, b |-> 0, balance |-> balance]
Indicated(a, b, balance) == [as |-> "indicator", a |-> a, b |-> b, balance |-> balance]

\* What a mapping of each convention reads.
LEMMA PairsAre ==
    ASSUME NEW line, NEW a, NEW b, NEW balance
    PROVE  /\ SignedPair(line, Separate(a, b, balance))
                = [debit |-> Magnitude(Value(line, a)), credit |-> Magnitude(Value(line, b))]
           /\ SignedPair(line, Signed(a, balance))
                = IF Value(line, a) < 0 THEN [debit |-> -Value(line, a), credit |-> 0]
                                        ELSE [debit |-> 0, credit |-> Value(line, a)]
           /\ SignedPair(line, Indicated(a, b, balance))
                = IF line.cells[b].value = "dr" THEN [debit |-> Magnitude(Value(line, a)), credit |-> 0]
                                                ELSE [debit |-> 0, credit |-> Magnitude(Value(line, a))]
BY DEF SignedPair, Separate, Signed, Indicated

\* Every candidate is one of the three.
LEMMA MappingsAre ==
    ASSUME NEW body, NEW m \in Candidates(body)
    PROVE  /\ IsCandidate(body, m)
           /\ m.as = "separate" => m = Separate(m.a, m.b, m.balance)
           /\ m.as = "signed" => m = Signed(m.a, m.balance)
           /\ m.as = "indicator" => m = Indicated(m.a, m.b, m.balance)
<1> DEFINE N == NumericColumns(body)  I == Indicators(body)
<1>1. IsCandidate(body, m)
  BY CandidatesAre
<1>2. m \in [as : {"separate", "signed", "indicator"}, a : N, b : N \union I \union {0}, balance : N \union {0}]
  BY CandidatesAre
<1>3. m = [as |-> m.as, a |-> m.a, b |-> m.b, balance |-> m.balance]
  <2> HIDE DEF N, I
  <2> QED BY <1>2
<1>4. m.as = "signed" => m.b = 0
  BY <1>1 DEF IsCandidate
<1> QED BY <1>1, <1>3, <1>4 DEF Separate, Signed, Indicated

\* The mappings that any body with such columns is offered.
LEMMA OfferedAre ==
    ASSUME NEW body, NEW a \in NumericColumns(body), NEW balance \in NumericColumns(body) \union {0},
           a # balance
    PROVE  /\ Signed(a, balance) \in Candidates(body)
           /\ \A b \in NumericColumns(body) :
                 b # a /\ b # balance => Separate(a, b, balance) \in Candidates(body)
           /\ \A b \in Indicators(body) : Indicated(a, b, balance) \in Candidates(body)
<1> DEFINE N == NumericColumns(body)  I == Indicators(body)
           All == [as : {"separate", "signed", "indicator"}, a : N, b : N \union I \union {0},
                   balance : N \union {0}]
<1>1. \A m : m \in Candidates(body) <=> m \in All /\ IsCandidate(body, m)
  BY CandidatesAre
<1>2. Signed(a, balance) \in All /\ IsCandidate(body, Signed(a, balance))
  BY DEF Signed, IsCandidate
<1>3. ASSUME NEW b \in N, b # a, b # balance
      PROVE  Separate(a, b, balance) \in All /\ IsCandidate(body, Separate(a, b, balance))
  BY <1>3 DEF Separate, IsCandidate
<1>4. ASSUME NEW b \in I
      PROVE  Indicated(a, b, balance) \in All /\ IsCandidate(body, Indicated(a, b, balance))
  BY <1>4 DEF Indicated, IsCandidate
<1> HIDE DEF All
<1> QED BY <1>1, <1>2, <1>3, <1>4

\* The scores of a header, as names of their own.
DebitScore(h) == HeaderScore.debit[h]
CreditScore(h) == HeaderScore.credit[h]
AmountScore(h) == HeaderScore.amount[h]
BalanceScore(h) == HeaderScore.balance[h]

\* The support of the mappings of each convention.
LEMMA SeparateSupport ==
    ASSUME NEW names, NEW a, NEW b, NEW balance, balance # 0
    PROVE  HeaderSupport(names, Separate(a, b, balance))
             = BalanceScore(names[balance]) + (DebitScore(names[a]) + CreditScore(names[b]))
BY DEF HeaderSupport, Separate, BalanceScore, DebitScore, CreditScore

\* The support of a signed mapping.
LEMMA SignedSupport ==
    ASSUME NEW names, NEW a, NEW balance, balance # 0
    PROVE  HeaderSupport(names, Signed(a, balance))
             = BalanceScore(names[balance]) + AmountScore(names[a])
BY DEF HeaderSupport, Signed, BalanceScore, AmountScore

\* The support of a mapping with a flag.
LEMMA IndicatedSupport ==
    ASSUME NEW names, NEW a, NEW b, NEW balance, balance # 0
    PROVE  HeaderSupport(names, Indicated(a, b, balance))
             = BalanceScore(names[balance]) + AmountScore(names[a])
BY DEF HeaderSupport, Indicated, BalanceScore, AmountScore

\* How well a header may score.
Full == 1000 .. 1000
Strong == 500 .. 1000
Middling == 300 .. 500
Weak == 0 .. 370

\* How the headers score.
LEMMA DebitScores ==
    \A h \in {"Debit", "Withdrawal (Dr)", "Credit"} : DebitScore(h) \in Strong
<1>1. DebitScore("Debit") \in Strong /\ DebitScore("Withdrawal (Dr)") \in Strong
      /\ DebitScore("Credit") \in Strong
  BY DEF DebitScore, HeaderScore, AmountHeaders, Strong
<1> QED BY <1>1

\* Whatever heads an amount of two columns scores well as a credit, even a debit.
LEMMA CreditScores ==
    \A h \in {"Credit", "Deposit (Cr)", "Debit"} : CreditScore(h) \in Strong
<1>1. CreditScore("Credit") \in Strong /\ CreditScore("Deposit (Cr)") \in Strong
      /\ CreditScore("Debit") \in Strong
  BY DEF CreditScore, HeaderScore, AmountHeaders, Strong
<1> QED BY <1>1

\* As a single amount, two columns score low and a balance no better than middling.
LEMMA AmountScores ==
    /\ \A h \in {"Debit", "Withdrawal (Dr)", "Credit", "Deposit (Cr)"} : AmountScore(h) \in Weak
    /\ \A h \in {"Balance", "Closing Balance", "Running Balance"} : AmountScore(h) \in Middling
    /\ \A h \in {"Amount"} : AmountScore(h) \in Full
<1>1. AmountScore("Debit") \in Weak /\ AmountScore("Withdrawal (Dr)") \in Weak
      /\ AmountScore("Credit") \in Weak /\ AmountScore("Deposit (Cr)") \in Weak
  BY DEF AmountScore, HeaderScore, AmountHeaders, Weak
<1>2. AmountScore("Balance") \in Middling /\ AmountScore("Closing Balance") \in Middling
      /\ AmountScore("Running Balance") \in Middling
  BY DEF AmountScore, HeaderScore, AmountHeaders, Middling
<1>3. AmountScore("Amount") \in Full
  BY DEF AmountScore, HeaderScore, AmountHeaders, Full
<1> QED BY <1>1, <1>2, <1>3

\* As a balance, an amount scores low.
LEMMA BalanceScores ==
    /\ \A h \in {"Balance", "Closing Balance", "Running Balance"} : BalanceScore(h) \in Full
    /\ \A h \in {"Debit", "Credit", "Deposit (Cr)", "Amount"} : BalanceScore(h) \in Weak
<1>1. BalanceScore("Balance") \in Full /\ BalanceScore("Closing Balance") \in Full
      /\ BalanceScore("Running Balance") \in Full
  BY DEF BalanceScore, HeaderScore, AmountHeaders, Full
<1>2. BalanceScore("Debit") \in Weak /\ BalanceScore("Credit") \in Weak
      /\ BalanceScore("Deposit (Cr)") \in Weak /\ BalanceScore("Amount") \in Weak
  BY DEF BalanceScore, HeaderScore, AmountHeaders, Weak
<1> QED BY <1>1, <1>2

\* The scores of the columns of a layout with two of amounts.
LEMMA TwoColumnScores ==
    ASSUME NEW layout, TwoColumns(layout)
    PROVE  /\ BalanceScore(Columns[layout][3]) \in Full
           /\ BalanceScore(Columns[layout][2]) \in Weak
           /\ DebitScore(Columns[layout][1]) \in Strong
           /\ CreditScore(Columns[layout][2]) \in Strong
           /\ AmountScore(Columns[layout][1]) \in Weak
           /\ AmountScore(Columns[layout][2]) \in Weak
           /\ AmountScore(Columns[layout][3]) \in Middling
<1> DEFINE x == Columns[layout][1]  y == Columns[layout][2]  z == Columns[layout][3]
<1>1. /\ x \in {"Debit", "Withdrawal (Dr)", "Credit"} /\ y \in {"Credit", "Deposit (Cr)", "Debit"}
      /\ z \in {"Balance", "Closing Balance"}
  BY NamesAre DEF TwoColumns
<1> HIDE DEF x, y, z
<1>2. x \in {"Debit", "Withdrawal (Dr)", "Credit", "Deposit (Cr)"}
      /\ y \in {"Debit", "Withdrawal (Dr)", "Credit", "Deposit (Cr)"}
      /\ y \in {"Debit", "Credit", "Deposit (Cr)", "Amount"}
      /\ z \in {"Balance", "Closing Balance", "Running Balance"}
  BY <1>1
<1>3. DebitScore(x) \in Strong /\ CreditScore(y) \in Strong
  BY <1>1, DebitScores, CreditScores
<1>4. AmountScore(x) \in Weak /\ AmountScore(y) \in Weak /\ AmountScore(z) \in Middling
  BY <1>2, AmountScores
<1>5. BalanceScore(z) \in Full /\ BalanceScore(y) \in Weak
  BY <1>2, BalanceScores
<1> QED BY <1>3, <1>4, <1>5 DEF x, y, z

\* Money went both ways under two columns: the mapping chosen reads every line right.
LEMMA ChosenTwoWays ==
    ASSUME NEW layout, TwoColumns(layout), NEW ts, Window(ts), Len(ts) > 1,
           Debits(ts) # {}, Credits(ts) # {}
    PROVE  LET body == Lines(layout, ts)
               m == Chosen(Columns[layout], body)
           IN  Right(body, ts, m) /\ Passed(body, m)
<1> DEFINE body == Lines(layout, ts)  n == Len(ts)  names == Columns[layout]
           best == Separate(1, 2, 3)  m == Chosen(names, body)
<1>1. /\ n \in Nat \ {0} /\ DOMAIN ts = 1 .. n /\ Len(body) = n /\ DOMAIN body = 1 .. n /\ n > 1
  BY LinesAre
<1>2. /\ 1 \in NumericColumns(body) /\ 2 \in NumericColumns(body) /\ 3 \in NumericColumns(body)
      /\ NumericColumns(body) \subseteq 1 .. 3 /\ Indicators(body) = {}
  BY TwoColumnsAre
<1>3. \A i \in 1 .. n :
         /\ Value(body[i], 1) = ts[i].debit /\ Value(body[i], 2) = ts[i].credit
         /\ Value(body[i], 3) = ts[i].balance /\ body[i].cells[3] # Blank
         /\ ts[i].debit = 0 => body[i].cells[1] = Blank
         /\ ts[i].credit = 0 => body[i].cells[2] = Blank
         /\ ts[i].debit \in Nat /\ ts[i].credit \in Nat /\ ts[i].balance \in Int
         /\ \/ ts[i].debit > 0 /\ ts[i].credit = 0
            \/ ts[i].debit = 0 /\ ts[i].credit > 0
  BY TwoColumnValues
<1>4. Readable(names, body, 1 .. 3)
  BY TwoColumnsReadable
<1>5. best \in Candidates(body)
  <2>1. 1 \in NumericColumns(body) /\ 3 \in NumericColumns(body) \union {0} /\ 1 # 3
    BY <1>2
  <2>2. 2 \in NumericColumns(body) /\ 2 # 1 /\ 2 # 3
    BY <1>2
  <2> HIDE DEF body
  <2> QED BY <2>1, <2>2, OfferedAre
<1>6. Right(body, ts, best)
  <2>1. best.balance = 3
    BY DEF Separate
  <2>2. ASSUME NEW i \in 1 .. n
        PROVE  SignedPair(body[i], best) = [debit |-> ts[i].debit, credit |-> ts[i].credit]
    <3>1. SignedPair(body[i], best) = [debit |-> Magnitude(Value(body[i], 1)),
                                       credit |-> Magnitude(Value(body[i], 2))]
      BY PairsAre
    <3>2. Magnitude(ts[i].debit) = ts[i].debit /\ Magnitude(ts[i].credit) = ts[i].credit
      BY <1>3 DEF Magnitude
    <3> HIDE DEF body, best
    <3> QED BY <1>3, <3>1, <3>2
  <2> HIDE DEF body, best
  <2> QED BY <1>3, <2>1, <2>2 DEF Right
<1>7. Checkable(body, best) /\ Passed(body, best) /\ Moves(body, best) /\ SumOf(Residuals(body, best)) = 0
  <2> HIDE DEF names, best
  <2> QED BY <1>1, <1>4, <1>5, <1>6, RightIsGood
<1>8. /\ m \in Candidates(body) /\ Checkable(body, m) /\ Passed(body, m) /\ Moves(body, m)
      /\ \A i \in 1 .. Len(body) - 1 : Residuals(body, m)[i] = 0
      /\ HeaderSupport(names, m) >= HeaderSupport(names, best)
  <2> HIDE DEF names, best, body
  <2> QED BY <1>4, <1>5, <1>7, ChosenIsAsGood
<1> HIDE DEF m, body
<1>9. /\ IsCandidate(body, m)
      /\ m.as = "separate" => m = Separate(m.a, m.b, m.balance)
      /\ m.as = "signed" => m = Signed(m.a, m.balance)
  BY <1>8, MappingsAre
<1>10. m.balance = 3
  <2>1. m.balance \in NumericColumns(body) /\ \A i \in 1 .. n : body[i].cells[m.balance] # Blank
    BY <1>1, <1>8, <1>9 DEF Checkable, IsCandidate
  <2>2. \E i \in 1 .. n : ts[i].credit > 0
    BY <1>1 DEF Credits
  <2>3. \E i \in 1 .. n : ts[i].debit > 0
    BY <1>1 DEF Debits
  <2>4. \E i \in 1 .. n : body[i].cells[1] = Blank
    BY <1>3, <2>2
  <2>5. \E i \in 1 .. n : body[i].cells[2] = Blank
    BY <1>3, <2>3
  <2>6. m.balance \in 1 .. 3 /\ m.balance # 1 /\ m.balance # 2
    BY <1>2, <2>1, <2>4, <2>5
  <2> QED BY <2>6
<1>11. m.a \in 1 .. 3 /\ m.a # 3
  BY <1>2, <1>9, <1>10 DEF IsCandidate
<1>12. m.a = 1 \/ m.a = 2
  BY <1>11
<1>13. m.as # "indicator"
  BY <1>2, <1>9 DEF IsCandidate
<1>14. m.as # "signed"
  <2> SUFFICES ASSUME m.as = "signed" PROVE FALSE
    OBVIOUS
  <2>1. HeaderSupport(names, m) = BalanceScore(names[3]) + AmountScore(names[m.a])
    <3>1. m = Signed(m.a, 3)
      BY <1>9, <1>10
    <3>2. HeaderSupport(names, Signed(m.a, 3)) = BalanceScore(names[3]) + AmountScore(names[m.a])
      BY SignedSupport
    <3> QED BY <3>1, <3>2
  <2>2. HeaderSupport(names, best) = BalanceScore(names[3])
                                     + (DebitScore(names[1]) + CreditScore(names[2]))
    BY SeparateSupport
  <2>3. /\ BalanceScore(names[3]) \in Full
        /\ AmountScore(names[1]) \in Weak /\ AmountScore(names[2]) \in Weak
        /\ DebitScore(names[1]) \in Strong /\ CreditScore(names[2]) \in Strong
    BY TwoColumnScores
  <2>4. AmountScore(names[m.a]) \in Weak
    BY <1>12, <2>3
  <2> DEFINE a == AmountScore(names[m.a])  d == DebitScore(names[1])
             c == CreditScore(names[2])  b == BalanceScore(names[3])
             x == HeaderSupport(names, m)  y == HeaderSupport(names, best)
  <2>5. x = b + a /\ y = b + (d + c) /\ b \in Full /\ a \in Weak /\ d \in Strong /\ c \in Strong
        /\ x >= y
    BY <1>8, <2>1, <2>2, <2>3, <2>4
  <2> HIDE DEF a, b, c, d, x, y
  <2> QED BY <2>5, SMTT(30) DEF Full, Strong, Weak
<1>15. m.as = "separate" /\ m.b \in 1 .. 3 /\ m.b # 3 /\ m.b # m.a
  BY <1>2, <1>9, <1>10, <1>13, <1>14 DEF IsCandidate
<1>16. m.a = 1
  <2> SUFFICES ASSUME m.a = 2 PROVE FALSE
    BY <1>12
  <2>1. m = Separate(2, 1, 3)
    <3>1. m.b = 1
      BY <1>15
    <3> QED BY <1>9, <1>10, <1>15, <3>1
  <2>2. SignedPair(body[2], m) = [debit |-> Magnitude(Value(body[2], 2)),
                                  credit |-> Magnitude(Value(body[2], 1))]
    BY <2>1, PairsAre
  <2>3. 1 \in 1 .. Len(body) - 1 /\ 1 \in 1 .. n /\ 2 \in 1 .. n
    BY <1>1
  <2>4. Residuals(body, m)[1]
          = Magnitude(Value(body[1], m.balance) + SignedPair(body[1 + 1], m).credit
                      - SignedPair(body[1 + 1], m).debit - Value(body[1 + 1], m.balance))
    <3>1. m.balance # 0
      BY <1>10
    <3> HIDE DEF names
    <3> QED BY <1>4, <1>8, <2>3, <3>1, ResidualsAre
  <2> DEFINE c == ts[2].credit  d == ts[2].debit  x == ts[1].balance  y == ts[2].balance
  <2>5. /\ c \in Nat /\ d \in Nat /\ x \in Int /\ y \in Int
        /\ ((d > 0 /\ c = 0) \/ (d = 0 /\ c > 0))
        /\ Value(body[2], 1) = d /\ Value(body[2], 2) = c
        /\ Value(body[1], 3) = x /\ Value(body[2], 3) = y
    BY <1>3, <2>3
  <2>6. y = x + c - d
    <3>1. ts[1 + 1].balance = ts[1].balance + ts[1 + 1].credit - ts[1 + 1].debit
      BY <1>1 DEF Window, Chained
    <3> QED BY <3>1
  <2> HIDE DEF c, d, x, y
  <2>7. SignedPair(body[2], m).credit = d /\ SignedPair(body[2], m).debit = c
    BY <2>2, <2>5 DEF Magnitude
  <2>8. Magnitude(x + d - c - y) = 0
    <3>1. Residuals(body, m)[1] = 0
      BY <1>8, <2>3
    <3>2. 1 + 1 = 2
      OBVIOUS
    <3> QED BY <1>10, <2>4, <2>5, <2>7, <3>1, <3>2
  <2> QED BY <2>5, <2>6, <2>8 DEF Magnitude
<1>17. m = best
  <2>1. m.b = 2
    BY <1>15, <1>16
  <2> QED BY <1>9, <1>10, <1>15, <1>16, <2>1
<1> QED BY <1>6, <1>8, <1>17 DEF m, body

\* Deposits alone under two columns: the same.
LEMMA ChosenDeposits ==
    ASSUME NEW layout, TwoColumns(layout), NEW ts, Window(ts), Len(ts) > 1,
           Debits(ts) = {}
    PROVE  LET body == Lines(layout, ts)
               m == Chosen(Columns[layout], body)
           IN  Right(body, ts, m) /\ Passed(body, m)
<1> DEFINE body == Lines(layout, ts)  n == Len(ts)  names == Columns[layout]
           best == Signed(2, 3)  m == Chosen(names, body)
<1>1. /\ n \in Nat \ {0} /\ DOMAIN ts = 1 .. n /\ Len(body) = n /\ DOMAIN body = 1 .. n /\ n > 1
  BY LinesAre
<1>3. \A i \in 1 .. n :
         /\ Value(body[i], 1) = ts[i].debit /\ Value(body[i], 2) = ts[i].credit
         /\ Value(body[i], 3) = ts[i].balance /\ body[i].cells[3] # Blank
         /\ ts[i].debit \in Nat /\ ts[i].credit \in Nat /\ ts[i].balance \in Int
         /\ \/ ts[i].debit > 0 /\ ts[i].credit = 0
            \/ ts[i].debit = 0 /\ ts[i].credit > 0
  BY TwoColumnValues
<1>2. /\ 1 \notin NumericColumns(body) /\ 2 \in NumericColumns(body) /\ 3 \in NumericColumns(body)
      /\ NumericColumns(body) \subseteq 1 .. 3 /\ Indicators(body) = {}
  <2>1. 1 \in 1 .. n /\ ~(ts[1].debit > 0)
    BY <1>1 DEF Debits
  <2>2. ts[1].credit > 0
    <3> HIDE DEF body, n
    <3> QED BY <1>3, <2>1
  <2>3. Credits(ts) # {}
    BY <1>1, <2>1, <2>2 DEF Credits
  <2> QED BY <2>3, TwoColumnsAre
<1>4. Readable(names, body, 1 .. 3)
  BY TwoColumnsReadable
<1>5. best \in Candidates(body)
  <2>1. 2 \in NumericColumns(body) /\ 3 \in NumericColumns(body) \union {0} /\ 2 # 3
    BY <1>2
  <2> HIDE DEF body
  <2> QED BY <2>1, OfferedAre
<1>6. Right(body, ts, best)
  <2>1. best.balance = 3
    BY DEF Signed
  <2>2. ASSUME NEW i \in 1 .. n
        PROVE  SignedPair(body[i], best) = [debit |-> ts[i].debit, credit |-> ts[i].credit]
    <3>1. SignedPair(body[i], best) = IF Value(body[i], 2) < 0
                                      THEN [debit |-> -Value(body[i], 2), credit |-> 0]
                                      ELSE [debit |-> 0, credit |-> Value(body[i], 2)]
      BY PairsAre
    <3>2. ts[i].debit = 0 /\ ts[i].credit \in Nat /\ Value(body[i], 2) = ts[i].credit
      <4>1. ~(ts[i].debit > 0)
        BY <1>1 DEF Debits
      <4> HIDE DEF body, n
      <4> QED BY <1>3, <4>1
    <3>3. ~(ts[i].credit < 0)
      BY <3>2
    <3> HIDE DEF body, best
    <3> QED BY <3>1, <3>2, <3>3
  <2> HIDE DEF body, best
  <2> QED BY <1>3, <2>1, <2>2 DEF Right
<1>7. Checkable(body, best) /\ Passed(body, best) /\ Moves(body, best) /\ SumOf(Residuals(body, best)) = 0
  <2> HIDE DEF names, best
  <2> QED BY <1>1, <1>4, <1>5, <1>6, RightIsGood
<1>8. /\ m \in Candidates(body) /\ Checkable(body, m) /\ Passed(body, m)
      /\ HeaderSupport(names, m) >= HeaderSupport(names, best)
  <2> HIDE DEF names, best, body
  <2> QED BY <1>4, <1>5, <1>7, ChosenIsAsGood
<1> HIDE DEF m, body
<1>9. /\ IsCandidate(body, m)
      /\ m.as = "signed" => m = Signed(m.a, m.balance)
  BY <1>8, MappingsAre
<1>10. /\ m.balance \in {2, 3} /\ m.a \in {2, 3} /\ m.a # m.balance /\ m.as = "signed"
  <2>1. \A k \in NumericColumns(body) : k = 2 \/ k = 3
    BY <1>2
  <2>2. m.balance \in {2, 3} /\ m.a \in {2, 3} /\ m.a # m.balance
    BY <1>8, <1>9, <2>1 DEF Checkable, IsCandidate
  <2>3. m.as # "indicator"
    BY <1>2, <1>9 DEF IsCandidate
  <2>4. m.as # "separate"
    BY <1>9, <2>1, <2>2 DEF IsCandidate
  <2> QED BY <1>9, <2>2, <2>3, <2>4 DEF IsCandidate
<1>11. m.balance # 2
  <2> SUFFICES ASSUME m.balance = 2 PROVE FALSE
    OBVIOUS
  <2>1. m = Signed(3, 2)
    BY <1>9, <1>10
  <2>2. HeaderSupport(names, m) = BalanceScore(names[2]) + AmountScore(names[3])
    BY <2>1, SignedSupport
  <2>3. HeaderSupport(names, best) = BalanceScore(names[3]) + AmountScore(names[2])
    BY SignedSupport
  <2>4. /\ BalanceScore(names[3]) \in Full /\ AmountScore(names[2]) \in Weak
        /\ AmountScore(names[3]) \in Middling /\ BalanceScore(names[2]) \in Weak
    BY TwoColumnScores
  <2> DEFINE p == BalanceScore(names[3])  q == AmountScore(names[2])
             r == AmountScore(names[3])  s == BalanceScore(names[2])
             x == HeaderSupport(names, m)  y == HeaderSupport(names, best)
  <2>5. x = s + r /\ y = p + q /\ p \in Full /\ q \in Weak /\ r \in Middling /\ s \in Weak /\ x >= y
    BY <1>8, <2>2, <2>3, <2>4
  <2> HIDE DEF p, q, r, s, x, y
  <2> QED BY <2>5 DEF Full, Middling, Weak
<1>12. m = best
  BY <1>9, <1>10, <1>11
<1> QED BY <1>6, <1>8, <1>12 DEF m, body

\* One signed column of amounts: the mapping chosen reads every line right.
LEMMA ChosenSigned ==
    ASSUME NEW ts, Window(ts), Len(ts) > 1
    PROVE  LET body == Lines("signed", ts)
               m == Chosen(Columns["signed"], body)
           IN  Right(body, ts, m) /\ Passed(body, m)
<1> DEFINE body == Lines("signed", ts)  n == Len(ts)  names == Columns["signed"]
           best == Signed(1, 2)  m == Chosen(names, body)
<1>1. /\ n \in Nat \ {0} /\ DOMAIN ts = 1 .. n /\ Len(body) = n /\ DOMAIN body = 1 .. n /\ n > 1
  BY LinesAre
<1>2. NumericColumns(body) = {1, 2} /\ Indicators(body) = {}
  BY SignedColumnsAre
<1>3. \A i \in 1 .. n :
         /\ Value(body[i], 1) = ts[i].credit - ts[i].debit
         /\ Value(body[i], 2) = ts[i].balance /\ body[i].cells[2] # Blank
         /\ ts[i].debit \in Nat /\ ts[i].credit \in Nat /\ ts[i].balance \in Int
         /\ \/ ts[i].debit > 0 /\ ts[i].credit = 0
            \/ ts[i].debit = 0 /\ ts[i].credit > 0
  BY SignedValues
<1>4. Readable(names, body, 1 .. 2)
  BY SignedReadable
<1>5. best \in Candidates(body)
  <2>1. 1 \in NumericColumns(body) /\ 2 \in NumericColumns(body) \union {0} /\ 1 # 2
    BY <1>2
  <2> HIDE DEF body
  <2> QED BY <2>1, OfferedAre
<1>6. Right(body, ts, best)
  <2>1. best.balance = 2
    BY DEF Signed
  <2>2. ASSUME NEW i \in 1 .. n
        PROVE  SignedPair(body[i], best) = [debit |-> ts[i].debit, credit |-> ts[i].credit]
    <3> DEFINE v == Value(body[i], 1)  d == ts[i].debit  c == ts[i].credit
    <3>1. SignedPair(body[i], best) = IF v < 0 THEN [debit |-> -v, credit |-> 0]
                                              ELSE [debit |-> 0, credit |-> v]
      BY PairsAre
    <3>2. v = c - d /\ d \in Nat /\ c \in Nat /\ ((d > 0 /\ c = 0) \/ (d = 0 /\ c > 0))
      BY <1>3
    <3> HIDE DEF v, d, c, body, best
    <3>3. CASE d > 0 /\ c = 0
      <4>1. v < 0 /\ -v = d
        BY <3>2, <3>3
      <4> QED BY <3>1, <3>3, <4>1 DEF d, c
    <3>4. CASE d = 0 /\ c > 0
      <4>1. ~(v < 0) /\ v = c
        BY <3>2, <3>4
      <4> QED BY <3>1, <3>4, <4>1 DEF d, c
    <3> QED BY <3>2, <3>3, <3>4
  <2> HIDE DEF body, best
  <2> QED BY <1>3, <2>1, <2>2 DEF Right
<1>7. Checkable(body, best) /\ Passed(body, best) /\ Moves(body, best) /\ SumOf(Residuals(body, best)) = 0
  <2> HIDE DEF names, best
  <2> QED BY <1>1, <1>4, <1>5, <1>6, RightIsGood
<1>8. /\ m \in Candidates(body) /\ Checkable(body, m) /\ Passed(body, m)
      /\ HeaderSupport(names, m) >= HeaderSupport(names, best)
  <2> HIDE DEF names, best, body
  <2> QED BY <1>4, <1>5, <1>7, ChosenIsAsGood
<1> HIDE DEF m, body
<1>9. /\ IsCandidate(body, m)
      /\ m.as = "signed" => m = Signed(m.a, m.balance)
  BY <1>8, MappingsAre
<1>10. /\ m.balance \in {1, 2} /\ m.a \in {1, 2} /\ m.a # m.balance /\ m.as = "signed"
  <2>2. m.balance \in {1, 2} /\ m.a \in {1, 2} /\ m.a # m.balance
    BY <1>2, <1>8, <1>9 DEF Checkable, IsCandidate
  <2>3. m.as # "indicator"
    BY <1>2, <1>9 DEF IsCandidate
  <2>4. m.as # "separate"
    BY <1>2, <1>9, <2>2 DEF IsCandidate
  <2> QED BY <1>9, <2>2, <2>3, <2>4 DEF IsCandidate
<1>11. m.balance # 1
  <2> SUFFICES ASSUME m.balance = 1 PROVE FALSE
    OBVIOUS
  <2>1. m = Signed(2, 1)
    BY <1>9, <1>10
  <2>2. HeaderSupport(names, m) = BalanceScore(names[1]) + AmountScore(names[2])
    BY <2>1, SignedSupport
  <2>3. HeaderSupport(names, best) = BalanceScore(names[2]) + AmountScore(names[1])
    BY SignedSupport
  <2>4. names[1] = "Amount" /\ names[2] = "Running Balance"
    BY NamesAre
  <2> DEFINE p == BalanceScore("Running Balance")  q == AmountScore("Amount")
             r == AmountScore("Running Balance")  s == BalanceScore("Amount")
             x == HeaderSupport(names, m)  y == HeaderSupport(names, best)
  <2>5. p \in Full /\ q \in Full /\ r \in Middling /\ s \in Weak
    BY AmountScores, BalanceScores
  <2>6. x = s + r /\ y = p + q /\ x >= y
    BY <1>8, <2>2, <2>3, <2>4
  <2> HIDE DEF p, q, r, s, x, y
  <2> QED BY <2>5, <2>6 DEF Full, Middling, Weak
<1>12. m = best
  BY <1>9, <1>10, <1>11
<1> QED BY <1>6, <1>8, <1>12 DEF m, body

\* A column of marks: the mapping chosen takes the last column for the balance and
\* the first for the amounts, with the marks or, when it reconciles, without.
LEMMA ChosenFlag ==
    ASSUME NEW ts, Window(ts), Len(ts) > 1
    PROVE  LET body == Lines("flag", ts)
               m == Chosen(Columns["flag"], body)
           IN  /\ Passed(body, m)
               /\ \/ Right(body, ts, m)
                  \/ /\ \A i \in 2 .. Len(ts) : ts[i].debit = 0
                     /\ \A i \in 1 .. Len(ts) :
                          SignedPair(body[i], m) = [debit |-> 0, credit |-> ts[i].credit + ts[i].debit]
<1> DEFINE body == Lines("flag", ts)  n == Len(ts)  names == Columns["flag"]
           best == Indicated(1, 2, 3)  m == Chosen(names, body)
<1>1. /\ n \in Nat \ {0} /\ DOMAIN ts = 1 .. n /\ Len(body) = n /\ DOMAIN body = 1 .. n /\ n > 1
  BY LinesAre
<1>2. NumericColumns(body) = {1, 3} /\ Indicators(body) = {2}
  BY FlagColumnsAre
<1>3. \A i \in 1 .. n :
         /\ Value(body[i], 1) = ts[i].credit + ts[i].debit
         /\ body[i].cells[2].value = (IF ts[i].credit > 0 THEN "cr" ELSE "dr")
         /\ Value(body[i], 3) = ts[i].balance /\ body[i].cells[3] # Blank
         /\ ts[i].debit \in Nat /\ ts[i].credit \in Nat /\ ts[i].balance \in Int
         /\ \/ ts[i].debit > 0 /\ ts[i].credit = 0
            \/ ts[i].debit = 0 /\ ts[i].credit > 0
  BY FlagValues
<1>4. Readable(names, body, 1 .. 3)
  BY FlagReadable
<1>5. best \in Candidates(body)
  <2>1. 1 \in NumericColumns(body) /\ 3 \in NumericColumns(body) \union {0} /\ 1 # 3
        /\ 2 \in Indicators(body)
    BY <1>2
  <2> HIDE DEF body
  <2> QED BY <2>1, OfferedAre
<1>6. Right(body, ts, best)
  <2>1. best.balance = 3
    BY DEF Indicated
  <2>2. ASSUME NEW i \in 1 .. n
        PROVE  SignedPair(body[i], best) = [debit |-> ts[i].debit, credit |-> ts[i].credit]
    <3> DEFINE v == Value(body[i], 1)  d == ts[i].debit  c == ts[i].credit
               mark == body[i].cells[2].value
    <3>1. SignedPair(body[i], best) = IF mark = "dr" THEN [debit |-> Magnitude(v), credit |-> 0]
                                                     ELSE [debit |-> 0, credit |-> Magnitude(v)]
      BY PairsAre
    <3>2. /\ v = c + d /\ d \in Nat /\ c \in Nat /\ ((d > 0 /\ c = 0) \/ (d = 0 /\ c > 0))
          /\ mark = IF c > 0 THEN "cr" ELSE "dr"
      BY <1>3
    <3> HIDE DEF v, d, c, mark, body, best
    <3>0. Magnitude(v) = v
      BY <3>2 DEF Magnitude
    <3>3. CASE d > 0 /\ c = 0
      <4>1. mark = "dr" /\ v = d
        BY <3>2, <3>3
      <4> QED BY <3>0, <3>1, <3>3, <4>1 DEF d, c
    <3>4. CASE d = 0 /\ c > 0
      <4>1. mark # "dr" /\ v = c
        BY <3>2, <3>4
      <4> QED BY <3>0, <3>1, <3>4, <4>1 DEF d, c
    <3> QED BY <3>2, <3>3, <3>4
  <2> HIDE DEF body, best
  <2> QED BY <1>3, <2>1, <2>2 DEF Right
<1>7. Checkable(body, best) /\ Passed(body, best) /\ Moves(body, best) /\ SumOf(Residuals(body, best)) = 0
  <2> HIDE DEF names, best
  <2> QED BY <1>1, <1>4, <1>5, <1>6, RightIsGood
<1>8. /\ m \in Candidates(body) /\ Checkable(body, m) /\ Passed(body, m)
      /\ \A i \in 1 .. Len(body) - 1 : Residuals(body, m)[i] = 0
      /\ HeaderSupport(names, m) >= HeaderSupport(names, best)
  <2> HIDE DEF names, best, body
  <2> QED BY <1>4, <1>5, <1>7, ChosenIsAsGood
<1> HIDE DEF m, body
<1>9. /\ IsCandidate(body, m)
      /\ m.as = "signed" => m = Signed(m.a, m.balance)
      /\ m.as = "indicator" => m = Indicated(m.a, m.b, m.balance)
  BY <1>8, MappingsAre
<1>10. /\ m.balance \in {1, 3} /\ m.a \in {1, 3} /\ m.a # m.balance
       /\ m.as = "signed" \/ (m.as = "indicator" /\ m.b = 2)
  <2>2. m.balance \in {1, 3} /\ m.a \in {1, 3} /\ m.a # m.balance
    BY <1>2, <1>8, <1>9 DEF Checkable, IsCandidate
  <2>3. m.as = "indicator" => m.b = 2
    BY <1>2, <1>9 DEF IsCandidate
  <2>4. m.as # "separate"
    BY <1>2, <1>9, <2>2 DEF IsCandidate
  <2> QED BY <1>9, <2>2, <2>3, <2>4 DEF IsCandidate
<1>11. m.balance # 1
  <2> SUFFICES ASSUME m.balance = 1 PROVE FALSE
    OBVIOUS
  <2>1. m = Signed(3, 1) \/ m = Indicated(3, 2, 1)
    BY <1>9, <1>10
  <2>2. HeaderSupport(names, m) = BalanceScore(names[1]) + AmountScore(names[3])
    <3>1. HeaderSupport(names, Signed(3, 1)) = BalanceScore(names[1]) + AmountScore(names[3])
      BY SignedSupport
    <3>2. HeaderSupport(names, Indicated(3, 2, 1)) = BalanceScore(names[1]) + AmountScore(names[3])
      BY IndicatedSupport
    <3> QED BY <2>1, <3>1, <3>2
  <2>3. HeaderSupport(names, best) = BalanceScore(names[3]) + AmountScore(names[1])
    BY IndicatedSupport
  <2>4. names[1] = "Amount" /\ names[3] = "Balance"
    BY NamesAre
  <2> DEFINE p == BalanceScore("Balance")  q == AmountScore("Amount")
             r == AmountScore("Balance")  s == BalanceScore("Amount")
             x == HeaderSupport(names, m)  y == HeaderSupport(names, best)
  <2>5. p \in Full /\ q \in Full /\ r \in Middling /\ s \in Weak
    BY AmountScores, BalanceScores
  <2>6. x = s + r /\ y = p + q /\ x >= y
    BY <1>8, <2>2, <2>3, <2>4
  <2> HIDE DEF p, q, r, s, x, y
  <2> QED BY <2>5, <2>6 DEF Full, Middling, Weak
<1>12. m.balance = 3 /\ m.a = 1
  BY <1>10, <1>11
<1>13. CASE m.as = "indicator"
  <2>1. m = best
    BY <1>9, <1>10, <1>12, <1>13
  <2> QED BY <1>6, <1>8, <2>1 DEF m, body
<1>14. CASE m.as = "signed"
  <2>1. m = Signed(1, 3)
    BY <1>9, <1>12, <1>14
  <2>2. ASSUME NEW i \in 1 .. n
        PROVE  SignedPair(body[i], m) = [debit |-> 0, credit |-> ts[i].credit + ts[i].debit]
    <3>1. SignedPair(body[i], m) = IF Value(body[i], 1) < 0
                                   THEN [debit |-> -Value(body[i], 1), credit |-> 0]
                                   ELSE [debit |-> 0, credit |-> Value(body[i], 1)]
      BY <2>1, PairsAre
    <3>2. Value(body[i], 1) = ts[i].credit + ts[i].debit /\ ~(ts[i].credit + ts[i].debit < 0)
      BY <1>3
    <3> QED BY <3>1, <3>2
  <2>3. ASSUME NEW i \in 2 .. n PROVE ts[i].debit = 0
    <3> DEFINE k == i - 1
    <3>1. k \in 1 .. n - 1 /\ k + 1 = i /\ k \in 1 .. n /\ i \in 1 .. n
      BY <1>1
    <3>2. Residuals(body, m)[k]
            = Magnitude(Value(body[k], m.balance) + SignedPair(body[k + 1], m).credit
                        - SignedPair(body[k + 1], m).debit - Value(body[k + 1], m.balance))
      <4>1. m.balance # 0 /\ k \in 1 .. Len(body) - 1
        BY <1>1, <1>12, <3>1
      <4> HIDE DEF names, k
      <4> QED BY <1>4, <1>8, <4>1, ResidualsAre
    <3>3. Residuals(body, m)[k] = 0
      BY <1>1, <1>8, <3>1
    <3> DEFINE c == ts[i].credit  d == ts[i].debit  x == ts[k].balance  y == ts[i].balance
    <3>4. /\ c \in Nat /\ d \in Nat /\ x \in Int /\ y \in Int
          /\ Value(body[k], 3) = x /\ Value(body[i], 3) = y
      BY <1>3, <3>1
    <3>5. y = x + c - d
      <4>1. ts[k + 1].balance = ts[k].balance + ts[k + 1].credit - ts[k + 1].debit
        BY <3>1 DEF Window, Chained
      <4> QED BY <3>1, <4>1
    <3>6. SignedPair(body[i], m).credit = c + d /\ SignedPair(body[i], m).debit = 0
      <4>1. SignedPair(body[i], m) = [debit |-> 0, credit |-> c + d]
        BY <2>2, <3>1
      <4> HIDE DEF c, d
      <4> QED BY <4>1
    <3> HIDE DEF c, d, x, y, k
    <3>7. Magnitude(x + (c + d) - 0 - y) = 0
      BY <1>12, <3>1, <3>2, <3>3, <3>4, <3>6
    <3>8. d = 0
      BY <3>4, <3>5, <3>7 DEF Magnitude
    <3> QED BY <3>8 DEF d
  <2> QED BY <1>8, <2>2, <2>3 DEF m, body
<1> QED BY <1>10, <1>13, <1>14

\* Net amounts alone: nothing to check them on.
LEMMA ChosenUs ==
    ASSUME NEW ts, Window(ts)
    PROVE  ~Checkable(Lines("us", ts), Chosen(Columns["us"], Lines("us", ts)))
<1> DEFINE body == Lines("us", ts)  names == Columns["us"]  m == Chosen(names, body)
<1>1. Readable(names, body, 1 .. 1)
  BY UsReadable
<1>2. NumericColumns(body) = {1} /\ Indicators(body) = {}
  BY UsColumnsAre
<1>3. Candidates(body) # {}
  <2>1. 1 \in NumericColumns(body) /\ 0 \in NumericColumns(body) \union {0} /\ 1 # 0
    BY <1>2
  <2> HIDE DEF body
  <2> QED BY <2>1, OfferedAre
<1>4. m \in Candidates(body)
  <2>1. IsFiniteSet(Candidates(body)) /\ \A c \in Candidates(body) : Place(names, body, c) \in Tuples(9)
    <3> HIDE DEF body, names
    <3> QED BY <1>1, ColumnsAre, PlaceTyped
  <2> HIDE DEF body, names
  <2> QED BY <1>3, <2>1, ChosenIs
<1> HIDE DEF m, body
<1>5. IsCandidate(body, m)
  BY <1>4, MappingsAre
<1>6. m.balance = 0
  BY <1>2, <1>5 DEF IsCandidate
<1> QED BY <1>6 DEF Checkable, m, body

-----------------------------------------------------------------------------
(* The dates, and the parse as a whole.                                    *)

\* Under the format it was written in, a date reads back.
LEMMA DateReadsBack ==
    ASSUME NEW layout \in Layouts, NEW date \in Calendar
    PROVE  /\ DateFormat[layout] \in {"iso", "dmy", "mdy"}
           /\ ReadDate(DateFormat[layout], WrittenDate(DateFormat[layout], date)) = date
           /\ date # <<0, 0>>
<1> DEFINE f == DateFormat[layout]
<1>1. f \in {"iso", "dmy", "mdy"}
  BY LayoutsAre DEF DateFormat, TwoColumns
<1>2. date[1] \in 1 .. Months /\ date[2] \in 1 .. Days /\ date = <<date[1], date[2]>>
  BY DEF Calendar
<1>3. date # <<0, 0>>
  BY <1>2
<1> HIDE DEF f
<1>4. ASSUME f \in {"iso", "dmy", "mdy"} PROVE ReadDate(f, WrittenDate(f, date)) = date
  <2> DEFINE x == date[1]  y == date[2]
  <2>1. date = <<x, y>> /\ <<x, y>> \in Calendar
    BY <1>2 DEF Calendar
  <2> HIDE DEF x, y
  <2>2. CASE f = "iso"
    <3>1. WrittenDate(f, date) = <<"iso", x, y>>
      BY <2>2 DEF WrittenDate, x, y
    <3>2. ReadDate(f, <<"iso", x, y>>) = <<x, y>>
      BY <2>1, <2>2 DEF ReadDate
    <3> QED BY <2>1, <3>1, <3>2
  <2>3. CASE f = "mdy"
    <3>1. WrittenDate(f, date) = <<"slash", x, y>>
      BY <2>3 DEF WrittenDate, x, y
    <3>2. ReadDate(f, <<"slash", x, y>>) = <<x, y>>
      BY <2>1, <2>3 DEF ReadDate
    <3> QED BY <2>1, <3>1, <3>2
  <2>4. CASE f = "dmy"
    <3>1. WrittenDate(f, date) = <<"slash", y, x>>
      BY <2>4 DEF WrittenDate, x, y
    <3>2. ReadDate(f, <<"slash", y, x>>) = <<x, y>>
      BY <2>1, <2>4 DEF ReadDate
    <3> QED BY <2>1, <3>1, <3>2
  <2> QED BY <1>4, <2>2, <2>3, <2>4
<1> QED BY <1>1, <1>3, <1>4 DEF f

\* Dates in order, under a warning or read as they are.
LEMMA DatesAre ==
    ASSUME NEW layout \in Layouts, NEW ts, Window(ts), ~DateWarning(Lines(layout, ts)),
           NEW i \in 1 .. Len(ts)
    PROVE  ReadDate(ChosenFormat(Lines(layout, ts)), Lines(layout, ts)[i].date) = ts[i].date
<1> DEFINE body == Lines(layout, ts)  n == Len(ts)  f == DateFormat[layout]
<1>1. /\ n \in Nat \ {0} /\ Len(body) = n /\ DOMAIN body = 1 .. n
      /\ \A j \in 1 .. n : ts[j] \in Transaction /\ body[j] = Line(layout, ts[j])
      /\ \A j \in 1 .. n - 1 : j \in 1 .. n /\ j + 1 \in 1 .. n
  BY LinesAre
<1>2. \A j \in 1 .. n : ts[j].date \in Calendar /\ body[j].date = WrittenDate(f, ts[j].date)
  BY <1>1 DEF Transaction, Line
<1>3. \A j \in 1 .. n : ReadDate(f, body[j].date) = ts[j].date /\ ts[j].date # <<0, 0>>
  BY <1>2, DateReadsBack, ZenonT(60)
<1>4. f \in {"iso", "dmy", "mdy"}
  <2>1. ts[1].date \in Calendar
    BY <1>1, <1>2
  <2> QED BY <2>1, DateReadsBack
<1>5. ~DateWarning(body)
  OBVIOUS
<1>6. \A j \in 1 .. n - 1 : Before(ts[j].date, ts[j + 1].date)
  BY DEF Window, InOrder
<1> HIDE DEF body, f, n
<1>7. f \in Viable(body)
  BY <1>1, <1>3, <1>4 DEF Viable
<1>8. Ordered(body, f)
  BY <1>1, <1>3, <1>6 DEF Ordered
<1>9. f \in FormatPool(body)
  BY <1>7, <1>8 DEF FormatPool
<1>10. ChosenFormat(body) = f
  BY <1>5, <1>9 DEF DateWarning
<1> QED BY <1>3, <1>10 DEF body, n

\* The text of some lines under their header, as they are parsed.
LEMMA ParseIs ==
    ASSUME NEW layout, NEW ts, Window(ts)
    PROVE  LET parse == Parse(<<Header(layout)>> \o Lines(layout, ts))
               body == Lines(layout, ts)
               m == Chosen(Columns[layout], body)
           IN  /\ DOMAIN parse.rows = 1 .. Len(ts) /\ Len(parse.rows) = Len(ts)
               /\ \A i \in 1 .. Len(ts) :
                     parse.rows[i] = [date |-> ReadDate(ChosenFormat(body), body[i].date),
                                      text |-> ts[i].text,
                                      debit |-> SignedPair(body[i], m).debit,
                                      credit |-> SignedPair(body[i], m).credit]
               /\ parse.rejected <=> Checkable(body, m) /\ ~Passed(body, m)
               /\ parse.warned <=> DateWarning(body)
<1> DEFINE body == Lines(layout, ts)  n == Len(ts)  h == Header(layout)
           S == {h} \union {body[i] : i \in 1 .. n}
           text == <<h>> \o body  m == Chosen(Columns[layout], body)
           Row(i) == [date |-> ReadDate(ChosenFormat(body), body[i].date), text |-> body[i].text,
                      debit |-> SignedPair(body[i], m).debit, credit |-> SignedPair(body[i], m).credit]
<1>1. /\ n \in Nat \ {0} /\ Len(body) = n /\ DOMAIN body = 1 .. n
      /\ \A j \in 1 .. n : ts[j] \in Transaction /\ body[j] = Line(layout, ts[j])
  BY LinesAre
<1>2. h \in S /\ body \in Seq(S)
  <2>1. body = [i \in 1 .. n |-> body[i]]
    BY <1>1 DEF Lines
  <2> HIDE DEF body, n
  <2> QED BY <1>1, <2>1
<1>3. text[1] = h /\ Tail(text) = body
  <2> HIDE DEF S, h, body
  <2>1. text \in Seq(S) /\ Len(text) = Len(body) + 1 /\ text[1] = h /\ text # <<>>
        /\ SubSeq(text, 2, Len(text)) = body
    BY <1>2, UnderHeader
  <2> HIDE DEF text
  <2>2. Tail(text) = SubSeq(text, 2, Len(text))
    BY <2>1
  <2> QED BY <2>1, <2>2
<1>4. text[1].names = Columns[layout]
  BY <1>3 DEF Header
<1> DEFINE parse == Parse(text)
<1>5. /\ parse.rows = [i \in DOMAIN body |-> Row(i)]
      /\ parse.rejected = (Checkable(body, m) /\ ~Passed(body, m))
      /\ parse.warned = DateWarning(body)
  <2> HIDE DEF body, text
  <2> QED BY <1>3, <1>4 DEF Parse
<1>6. \A i \in 1 .. n : body[i].text = ts[i].text
  BY <1>1 DEF Line
<1> HIDE DEF parse
<1>7. /\ DOMAIN parse.rows = 1 .. n /\ Len(parse.rows) = n
      /\ \A i \in 1 .. n : parse.rows[i] = Row(i)
  <2> HIDE DEF Row, body, n
  <2> QED BY <1>1, <1>5
<1> QED BY <1>5, <1>6, <1>7 DEF parse, text, h

\* What the pages of some lines say once joined: the lines under one header, when
\* none was lost.
LEMMA TextIs ==
    ASSUME NEW layout, NEW ts, Window(ts)
    PROVE  LET pages == Pages(layout, ts)
               text == Joined(pages)
               whole == <<Header(layout)>> \o Lines(layout, ts)
           IN  /\ Len(Parse(text).rows) = Len(ts) => text = whole
               /\ (\A p \in DOMAIN pages : p > 1 => ~(Shared(pages[1], pages[p]) > 1)) => text = whole
<1> DEFINE list == Lines(layout, ts)  n == Len(ts)  h == Header(layout)
           S == {h} \union {list[i] : i \in 1 .. n}
           pages == Pages(layout, ts)  text == Joined(pages)
<1>1. n \in Nat \ {0} /\ Len(list) = n /\ DOMAIN list = 1 .. n
  BY LinesAre
<1>2. h \in S /\ list \in Seq(S) /\ list # <<>>
  <2>1. list = [i \in 1 .. n |-> list[i]]
    BY <1>1 DEF Lines
  <2> HIDE DEF list, n
  <2> QED BY <1>1, <2>1
<1>3. pages = PagesOf(h, list)
  BY PagesAre DEF Window
<1> HIDE DEF S, h, list, pages
<1>4. /\ text \in Seq(S) /\ text # <<>>
      /\ Len(text) = Len(list) + 1 => text = <<h>> \o list
      /\ (\A p \in DOMAIN pages : p > 1 => ~(Shared(pages[1], pages[p]) > 1)) => text = <<h>> \o list
  BY <1>2, <1>3, JoinedIs
<1> HIDE DEF text
<1>5. Len(Parse(text).rows) = Len(text) - 1
  <2>1. Tail(text) \in Seq(S) /\ Len(Tail(text)) = Len(text) - 1
    BY <1>4
  <2> DEFINE body == Tail(text)
  <2>2. \E r : Parse(text).rows = [i \in DOMAIN body |-> r[i]]
    <3> DEFINE rows == Parse(text).rows
    <3>1. rows = [i \in DOMAIN body |-> rows[i]]
      BY DEF Parse
    <3> QED BY <3>1
  <2>3. DOMAIN body = 1 .. Len(body) /\ Len(body) \in Nat
    BY <2>1
  <2> HIDE DEF body
  <2>4. Len(Parse(text).rows) = Len(body)
    BY <2>2, <2>3
  <2> QED BY <2>1, <2>4 DEF body
<1>6. Len(Parse(text).rows) = n => Len(text) = Len(list) + 1
  <2>1. Len(text) \in Nat
    BY <1>4
  <2> QED BY <1>1, <1>5, <2>1
<1> QED BY <1>4, <1>6 DEF text, pages, list, h

-----------------------------------------------------------------------------
(* The invariant.                                                          *)

\* The ledger runs on, in date and in balance.
Recorded == ledger \in Seq(Transaction) /\ Chained(ledger) /\ InOrder(ledger)

\* A pull holds the parse of the pages of the window it asked for, and the ledger
\* is closed once it is made.
Faithful ==
    \/ pull = NoPull
    \/ /\ pull.made /\ pull.from \in 1 .. Len(ledger) /\ pull.layout \in Layouts
       /\ pull.damage = "none" => pull.parse = Parse(Joined(Pages(pull.layout, Asked)))

StatementInv == Recorded /\ Faithful

\* One more transaction, not before the last, from the last balance.
LEMMA OneMore ==
    ASSUME NEW ts \in Seq(Transaction), Chained(ts), InOrder(ts), NEW t \in Transaction,
           ts # <<>> => /\ Before(ts[Len(ts)].date, t.date)
                        /\ t.balance = ts[Len(ts)].balance + t.credit - t.debit
    PROVE  Append(ts, t) \in Seq(Transaction) /\ Chained(Append(ts, t)) /\ InOrder(Append(ts, t))
<1> DEFINE n == Len(ts)  all == Append(ts, t)
<1>1. /\ n \in Nat /\ all \in Seq(Transaction) /\ Len(all) = n + 1 /\ all[n + 1] = t
      /\ \A i \in 1 .. n : all[i] = ts[i]
      /\ n # 0 => ts # <<>>
  OBVIOUS
<1>2. /\ \A i \in 1 .. n - 1 : ts[i + 1].balance = ts[i].balance + ts[i + 1].credit - ts[i + 1].debit
      /\ \A i \in 1 .. n - 1 : Before(ts[i].date, ts[i + 1].date)
  BY DEF Chained, InOrder
<1>3. n # 0 => Before(ts[n].date, t.date) /\ t.balance = ts[n].balance + t.credit - t.debit
  BY <1>1
<1> HIDE DEF all, n
<1>4. ASSUME NEW i \in 1 .. n
      PROVE  /\ all[i + 1].balance = all[i].balance + all[i + 1].credit - all[i + 1].debit
             /\ Before(all[i].date, all[i + 1].date)
  <2>1. CASE i = n
    <3>1. n # 0 /\ all[i] = ts[n] /\ all[i + 1] = t
      BY <1>1, <2>1
    <3> QED BY <1>3, <3>1
  <2>2. CASE i # n
    <3>1. i \in 1 .. n - 1 /\ i + 1 \in 1 .. n
      BY <1>1, <2>2
    <3>2. all[i] = ts[i] /\ all[i + 1] = ts[i + 1]
      BY <1>1, <3>1
    <3> QED BY <1>2, <3>1, <3>2
  <2> QED BY <2>1, <2>2
<1>5. Len(all) - 1 = n
  BY <1>1
<1> QED BY <1>1, <1>4, <1>5 DEF Chained, InOrder, all

\* The end of a ledger is a window of it.
LEMMA EndIsWindow ==
    ASSUME NEW ts \in Seq(Transaction), Chained(ts), InOrder(ts), NEW k \in 1 .. Len(ts)
    PROVE  Window(SubSeq(ts, k, Len(ts)))
<1> DEFINE n == Len(ts)  end == SubSeq(ts, k, n)
<1>1. n \in Nat /\ k \in 1 .. n
  OBVIOUS
<1>2. /\ end \in Seq(Transaction) /\ Len(end) = n - k + 1
      /\ \A i \in 1 .. n - k + 1 : end[i] = ts[k + i - 1]
  <2>1. k \in 1 .. Len(ts) + 1 /\ n \in k - 1 .. Len(ts)
    BY <1>1
  <2> QED BY <2>1, PartIs
<1>3. /\ \A i \in 1 .. n - 1 : ts[i + 1].balance = ts[i].balance + ts[i + 1].credit - ts[i + 1].debit
      /\ \A i \in 1 .. n - 1 : Before(ts[i].date, ts[i + 1].date)
  BY DEF Chained, InOrder
<1> HIDE DEF end, n
<1>4. end # <<>>
  BY <1>1, <1>2
<1>5. ASSUME NEW i \in 1 .. Len(end) - 1
      PROVE  /\ end[i + 1].balance = end[i].balance + end[i + 1].credit - end[i + 1].debit
             /\ Before(end[i].date, end[i + 1].date)
  <2> DEFINE j == k + i - 1
  <2>1. i \in 1 .. n - k + 1 /\ i + 1 \in 1 .. n - k + 1 /\ j \in 1 .. n - 1 /\ k + (i + 1) - 1 = j + 1
    BY <1>1, <1>2
  <2>2. end[i] = ts[j] /\ end[i + 1] = ts[j + 1]
    <3>1. end[i + 1] = ts[k + (i + 1) - 1]
      BY <1>2, <2>1
    <3> QED BY <1>2, <2>1, <3>1
  <2> HIDE DEF j
  <2> QED BY <1>3, <2>1, <2>2
<1> QED BY <1>2, <1>4, <1>5 DEF Window, Chained, InOrder, end, n

\* Initially the ledger is empty and nothing was pulled.
LEMMA StatementInit == Init => StatementInv
<1> SUFFICES ASSUME Init PROVE StatementInv
  OBVIOUS
<1>1. ledger = <<>> /\ pull = NoPull
  BY DEF Init
<1>2. ledger \in Seq(Transaction) /\ Len(ledger) = 0
  BY <1>1
<1>3. \A i : i \notin 1 .. Len(ledger) - 1
  BY <1>2
<1> QED BY <1>1, <1>2, <1>3 DEF StatementInv, Recorded, Faithful, Chained, InOrder

\* A transaction keeps the ledger running on.
LEMMA StatementTransact ==
    ASSUME StatementInv, NEW date \in Dates, NEW text \in Texts, NEW amount \in Amounts,
           NEW debit, NEW credit,
           (debit = amount /\ credit = 0) \/ (debit = 0 /\ credit = amount),
           Transact(date, text, debit, credit)
    PROVE  StatementInv'
<1> DEFINE balance == (IF ledger = <<>> THEN Opening ELSE Last(ledger).balance) + credit - debit
           t == [date |-> date, text |-> text, debit |-> debit, credit |-> credit, balance |-> balance]
<1>1. /\ ledger \in Seq(Transaction) /\ Chained(ledger) /\ InOrder(ledger)
      /\ ~pull.made /\ pull' = pull /\ ledger' = Append(ledger, t)
      /\ ledger # <<>> => Before(Last(ledger).date, date)
  BY DEF StatementInv, Recorded, Transact
<1>2. debit \in Nat /\ credit \in Nat /\ ((debit > 0 /\ credit = 0) \/ (debit = 0 /\ credit > 0))
  BY ParserAssumption DEF ParserAssumption
<1>3. ledger # <<>> => ledger[Len(ledger)].balance \in Int
  <2>1. ledger # <<>> => ledger[Len(ledger)] \in Transaction
    BY <1>1
  <2> QED BY <2>1 DEF Transaction
<1>4. balance \in Int
  BY <1>2, <1>3, ParserAssumption DEF ParserAssumption, Last
<1>5. date \in Calendar
  BY ParserAssumption DEF ParserAssumption, Calendar
<1>6. t \in Transaction
  <2> HIDE DEF balance
  <2> QED BY <1>2, <1>4, <1>5 DEF Transaction
<1>7. ledger # <<>> => /\ Before(ledger[Len(ledger)].date, t.date)
                       /\ t.balance = ledger[Len(ledger)].balance + t.credit - t.debit
  BY <1>1 DEF Last
<1> HIDE DEF t
<1>8. Recorded'
  BY <1>1, <1>6, <1>7, OneMore DEF Recorded
<1>9. pull' = NoPull
  BY <1>1 DEF StatementInv, Faithful
<1> QED BY <1>8, <1>9 DEF StatementInv, Faithful

\* A pull leaves the ledger alone and parses the pages of what it asked for.
LEMMA StatementPull ==
    ASSUME StatementInv, NEW layout \in Layouts, NEW i \in DOMAIN ledger,
           NEW damage \in {"none", "altered", "missing"}, NEW k, Pull(layout, i, damage, k)
    PROVE  StatementInv'
<1> DEFINE end == SubSeq(ledger, i, Len(ledger))
           parse == Parse(Joined(Pages(layout, Damaged(end, damage, k - i + 1))))
<1>1. ledger \in Seq(Transaction) /\ Chained(ledger) /\ InOrder(ledger) /\ ledger' = ledger
  BY DEF StatementInv, Recorded, Pull
<1>2. pull' = [made |-> TRUE, from |-> i, layout |-> layout, damage |-> damage, lost |-> k,
               parse |-> parse]
  BY DEF Pull
<1>3. damage = "none" => parse = Parse(Joined(Pages(layout, end)))
  BY DEF Damaged
<1> HIDE DEF parse
<1>4. /\ pull'.made /\ pull'.from = i /\ pull'.layout = layout /\ pull'.damage = damage
      /\ pull'.parse = parse
  BY <1>2
<1>5. i \in 1 .. Len(ledger)
  BY <1>1
<1>6. Asked' = end
  BY <1>1, <1>4 DEF Asked
<1> HIDE DEF end
<1>7. Faithful'
  BY <1>1, <1>3, <1>4, <1>5, <1>6 DEF Faithful
<1> QED BY <1>1, <1>7 DEF StatementInv, Recorded

\* The invariant is inductive.
LEMMA StatementStep == StatementInv /\ [Next]_vars => StatementInv'
<1> SUFFICES ASSUME StatementInv, [Next]_vars PROVE StatementInv'
  OBVIOUS
<1>1. ASSUME NEW date \in Dates, NEW text \in Texts, NEW amount \in Amounts,
             Transact(date, text, amount, 0) \/ Transact(date, text, 0, amount)
      PROVE  StatementInv'
  <2>1. CASE Transact(date, text, amount, 0)
    BY <2>1, StatementTransact
  <2>2. CASE Transact(date, text, 0, amount)
    BY <2>2, StatementTransact
  <2> QED BY <1>1, <2>1, <2>2
<1>2. ASSUME NEW layout \in Layouts, NEW i \in DOMAIN ledger, Pull(layout, i, "none", i)
      PROVE  StatementInv'
  BY <1>2, StatementPull
<1>3. ASSUME NEW layout \in Layouts, NEW i \in DOMAIN ledger, NEW damage \in {"altered", "missing"},
             NEW k \in i .. Len(ledger), Pull(layout, i, damage, k)
      PROVE  StatementInv'
  BY <1>3, StatementPull
<1>4. CASE UNCHANGED vars
  BY <1>4 DEF vars, StatementInv, Recorded, Faithful, Asked
<1> QED BY <1>1, <1>2, <1>3, <1>4 DEF Next

\* Every state of the ledger and of the pull is one of these.
THEOREM StatementCorrect == ParserSpec => []StatementInv
BY StatementInit, StatementStep, PTL DEF ParserSpec

\* An undamaged pull is of a window of the ledger, and parses its pages.
LEMMA IntactPull ==
    ASSUME StatementInv, Intact
    PROVE  /\ Window(Asked) /\ pull.layout \in Layouts
           /\ pull.parse = Parse(Joined(Pages(pull.layout, Asked)))
<1>1. pull.made /\ pull.damage = "none"
  BY DEF Intact
<1>2. pull # NoPull
  BY <1>1 DEF NoPull
<1>3. /\ pull.from \in 1 .. Len(ledger) /\ pull.layout \in Layouts
      /\ pull.parse = Parse(Joined(Pages(pull.layout, Asked)))
  BY <1>1, <1>2 DEF StatementInv, Faithful
<1>4. Window(Asked)
  BY <1>3, EndIsWindow DEF StatementInv, Recorded, Asked
<1> QED BY <1>3, <1>4

\* What the parse of a pull says when no page lost more than its header, or when it
\* has as many rows as were asked for.
LEMMA IntactParse ==
    ASSUME StatementInv, Intact, ~Swallowed \/ Len(pull.parse.rows) = Len(Asked)
    PROVE  LET body == Lines(pull.layout, Asked)
               m == Chosen(Columns[pull.layout], body)
           IN  /\ DOMAIN pull.parse.rows = 1 .. Len(Asked) /\ Len(pull.parse.rows) = Len(Asked)
               /\ \A i \in 1 .. Len(Asked) :
                     pull.parse.rows[i] = [date |-> ReadDate(ChosenFormat(body), body[i].date),
                                           text |-> Asked[i].text,
                                           debit |-> SignedPair(body[i], m).debit,
                                           credit |-> SignedPair(body[i], m).credit]
               /\ pull.parse.rejected <=> Checkable(body, m) /\ ~Passed(body, m)
               /\ pull.parse.warned <=> DateWarning(body)
<1> DEFINE ts == Asked  layout == pull.layout  text == Joined(Pages(layout, ts))
           whole == <<Header(layout)>> \o Lines(layout, ts)
<1>1. Window(ts) /\ pull.parse = Parse(text)
  BY IntactPull
<1>2. text = whole
  <2>1. CASE ~Swallowed
    <3>1. \A p \in DOMAIN Pages(layout, ts) :
             p > 1 => ~(Shared(Pages(layout, ts)[1], Pages(layout, ts)[p]) > 1)
      BY <2>1 DEF Swallowed
    <3> HIDE DEF ts, layout
    <3> QED BY <1>1, <3>1, TextIs
  <2>2. CASE Len(pull.parse.rows) = Len(Asked)
    <3>1. Len(Parse(text).rows) = Len(ts)
      BY <1>1, <2>2
    <3> HIDE DEF ts, layout
    <3> QED BY <1>1, <3>1, TextIs
  <2> QED BY <2>1, <2>2
<1>3. pull.parse = Parse(whole)
  BY <1>1, <1>2
<1> HIDE DEF text
<1> QED BY <1>1, <1>3, ParseIs

\* The mapping chosen for an undamaged pull that can be tested: it reads right every
\* line that the balance can vouch for, and is refused nothing.
LEMMA IntactChoice ==
    ASSUME StatementInv, Intact, Tested, ~WithdrawalsAlone
    PROVE  LET body == Lines(pull.layout, Asked)
               m == Chosen(Columns[pull.layout], body)
           IN  /\ Passed(body, m)
               /\ \A i \in 1 .. Len(Asked) :
                     \/ SignedPair(body[i], m) = [debit |-> Asked[i].debit, credit |-> Asked[i].credit]
                     \/ i = 1 /\ FirstRowBlind
<1> DEFINE ts == Asked  layout == pull.layout  body == Lines(layout, ts)
           m == Chosen(Columns[layout], body)
<1>1. Window(ts) /\ layout \in Layouts
  BY IntactPull
<1>2. Len(ts) > 1 /\ HasBalance(layout) /\ (TwoColumns(layout) => Credits(ts) # {})
  BY DEF Tested, WithdrawalsAlone
<1>3. DOMAIN ts = 1 .. Len(ts) /\ Len(ts) \in Nat
  BY <1>1, LinesAre
<1>4. \A i \in 1 .. Len(ts) : /\ ts[i].debit \in Nat /\ ts[i].credit \in Nat
                              /\ (ts[i].debit > 0 /\ ts[i].credit = 0) \/ (ts[i].debit = 0 /\ ts[i].credit > 0)
  BY <1>1, LinesAre DEF Transaction
<1> DEFINE Holds == /\ Passed(body, m)
                    /\ \A i \in 1 .. Len(ts) :
                         \/ SignedPair(body[i], m) = [debit |-> ts[i].debit, credit |-> ts[i].credit]
                         \/ i = 1 /\ FirstRowBlind
<1>5. ASSUME Right(body, ts, m) /\ Passed(body, m) PROVE Holds
  <2> HIDE DEF ts, body, m
  <2> QED BY <1>5 DEF Right
<1>6. CASE TwoColumns(layout)
  <2>1. Right(body, ts, m) /\ Passed(body, m)
    <3> HIDE DEF ts, layout
    <3>1. CASE Debits(ts) # {}
      BY <1>1, <1>2, <1>6, <3>1, ChosenTwoWays
    <3>2. CASE Debits(ts) = {}
      BY <1>1, <1>2, <1>6, <3>2, ChosenDeposits
    <3> QED BY <3>1, <3>2
  <2> QED BY <1>5, <2>1
<1>7. CASE layout = "signed"
  <2>1. Right(body, ts, m) /\ Passed(body, m)
    <3> HIDE DEF ts, layout
    <3> QED BY <1>1, <1>2, <1>7, ChosenSigned
  <2> QED BY <1>5, <2>1
<1>8. CASE layout = "flag"
  <2>1. /\ Passed(body, m)
        /\ \/ Right(body, ts, m)
           \/ /\ \A i \in 2 .. Len(ts) : ts[i].debit = 0
              /\ \A i \in 1 .. Len(ts) :
                   SignedPair(body[i], m) = [debit |-> 0, credit |-> ts[i].credit + ts[i].debit]
    <3> HIDE DEF ts, layout
    <3> QED BY <1>1, <1>2, <1>8, ChosenFlag
  <2>2. CASE Right(body, ts, m)
    BY <1>5, <2>1, <2>2
  <2>3. CASE /\ \A i \in 2 .. Len(ts) : ts[i].debit = 0
             /\ \A i \in 1 .. Len(ts) :
                   SignedPair(body[i], m) = [debit |-> 0, credit |-> ts[i].credit + ts[i].debit]
    <3>1. ts[1].debit > 0 => FirstRowBlind
      <4> SUFFICES ASSUME ts[1].debit > 0 PROVE FirstRowBlind
        OBVIOUS
      <4>1. \A i \in 1 .. Len(ts) : ts[i].debit > 0 <=> i = 1
        <5> SUFFICES ASSUME NEW i \in 1 .. Len(ts) PROVE ts[i].debit > 0 <=> i = 1
          OBVIOUS
        <5>1. i # 1 => i \in 2 .. Len(ts)
          BY <1>3
        <5> HIDE DEF ts
        <5>2. i # 1 => ts[i].debit = 0
          BY <2>3, <5>1
        <5> QED BY <5>2
      <4>2. 1 \in 1 .. Len(ts)
        BY <1>2, <1>3
      <4> HIDE DEF ts
      <4>3. Debits(ts) = {1}
        BY <1>3, <4>1, <4>2 DEF Debits
      <4> QED BY <1>8, <4>3 DEF FirstRowBlind, ts
    <3>2. ASSUME NEW i \in 1 .. Len(ts)
          PROVE  \/ SignedPair(body[i], m) = [debit |-> ts[i].debit, credit |-> ts[i].credit]
                 \/ i = 1 /\ FirstRowBlind
      <4> HIDE DEF ts, body, m
      <4>1. SignedPair(body[i], m) = [debit |-> 0, credit |-> ts[i].credit + ts[i].debit]
        BY <2>3
      <4>2. CASE ts[i].debit = 0
        <5>1. ts[i].credit + ts[i].debit = ts[i].credit
          BY <1>4, <4>2
        <5> QED BY <4>1, <4>2, <5>1
      <4>3. CASE ts[i].debit # 0
        <5>1. i = 1
          <6>1. i # 1 => i \in 2 .. Len(ts)
            BY <1>3
          <6> QED BY <2>3, <4>3, <6>1
        <5>2. ts[1].debit > 0
          BY <1>4, <4>3, <5>1
        <5> QED BY <3>1, <5>1, <5>2
      <4> QED BY <4>2, <4>3
    <3> QED BY <2>1, <3>2
  <2> QED BY <2>1, <2>2, <2>3
<1>9. layout # "us" /\ layout # "zeroes"
  BY <1>2, HasBalanceIs
<1>10. TwoColumns(layout) \/ layout \in {"signed", "flag", "us", "zeroes"}
  <2> HIDE DEF layout
  <2> QED BY <1>1, LayoutsAre
<1> QED BY <1>6, <1>7, <1>8, <1>9, <1>10, Zenon

-----------------------------------------------------------------------------
(* The requirements.                                                       *)

\* In a state of the invariant only what RefusesOnly allows is refused.
LEMMA RefusesOnlyOf == StatementInv => RefusesOnly
<1> SUFFICES ASSUME StatementInv, Intact, pull.parse.rejected, ~Swallowed,
                    ~(HasBalance(pull.layout) /\ Len(Asked) = 1),
                    ~(TwoColumns(pull.layout) /\ (Debits(Asked) = {} \/ Credits(Asked) = {})),
                    pull.layout # "zeroes"
             PROVE  FALSE
  BY DEF RefusesOnly
<1> DEFINE body == Lines(pull.layout, Asked)  m == Chosen(Columns[pull.layout], body)
<1>1. Checkable(body, m) /\ ~Passed(body, m)
  BY IntactParse
<1>2. Window(Asked) /\ pull.layout \in Layouts
  BY IntactPull
<1>3. pull.layout # "us"
  <2> SUFFICES ASSUME pull.layout = "us" PROVE FALSE
    OBVIOUS
  <2> QED BY <1>1, <1>2, ChosenUs
<1>4. HasBalance(pull.layout)
  BY <1>2, <1>3, HasBalanceIs, LayoutsAre
<1>5. Len(Asked) \in Nat \ {0}
  BY <1>2, LinesAre
<1>6. Tested
  BY <1>4, <1>5, SMTT(30) DEF Tested
<1>7. ~WithdrawalsAlone
  BY DEF WithdrawalsAlone
<1>8. Passed(body, m)
  BY <1>6, <1>7, IntactChoice
<1> QED BY <1>1, <1>8

\* In a state of the invariant what is accepted and checked reads back.
LEMMA ReadsBackOf == StatementInv => ReadsBackWhatIsChecked
<1> SUFFICES ASSUME StatementInv, Intact, Tested, ~Swallowed, ~WithdrawalsAlone
             PROVE  /\ Len(pull.parse.rows) = Len(Asked)
                    /\ \A i \in DOMAIN Asked : Reads(pull.parse.rows[i], Asked[i]) \/ (i = 1 /\ FirstRowBlind)
  BY DEF ReadsBackWhatIsChecked
<1> DEFINE body == Lines(pull.layout, Asked)  m == Chosen(Columns[pull.layout], body)
<1>1. /\ Len(pull.parse.rows) = Len(Asked)
      /\ \A i \in 1 .. Len(Asked) :
            pull.parse.rows[i] = [date |-> ReadDate(ChosenFormat(body), body[i].date),
                                  text |-> Asked[i].text,
                                  debit |-> SignedPair(body[i], m).debit,
                                  credit |-> SignedPair(body[i], m).credit]
  BY IntactParse
<1>2. \A i \in 1 .. Len(Asked) :
         \/ SignedPair(body[i], m) = [debit |-> Asked[i].debit, credit |-> Asked[i].credit]
         \/ i = 1 /\ FirstRowBlind
  BY IntactChoice
<1>3. DOMAIN Asked = 1 .. Len(Asked)
  BY IntactPull, LinesAre
<1> HIDE DEF body, m
<1>4. ASSUME NEW i \in 1 .. Len(Asked)
      PROVE  Reads(pull.parse.rows[i], Asked[i]) \/ (i = 1 /\ FirstRowBlind)
  <2> SUFFICES ASSUME ~(i = 1 /\ FirstRowBlind) PROVE Reads(pull.parse.rows[i], Asked[i])
    OBVIOUS
  <2> DEFINE pair == SignedPair(body[i], m)  row == pull.parse.rows[i]  t == Asked[i]
  <2>1. pair = [debit |-> t.debit, credit |-> t.credit]
    BY <1>2
  <2>2. row = [date |-> ReadDate(ChosenFormat(body), body[i].date), text |-> t.text,
               debit |-> pair.debit, credit |-> pair.credit]
    BY <1>1
  <2> HIDE DEF pair, row, t
  <2>3. Reads(row, t)
    BY <2>1, <2>2 DEF Reads
  <2> QED BY <2>3 DEF row, t
<1> QED BY <1>1, <1>3, <1>4

\* In a state of the invariant dates are right or flagged.
LEMMA DatesRightOf == StatementInv => DatesRightOrFlagged
<1> SUFFICES ASSUME StatementInv, Intact, ~pull.parse.warned, Len(pull.parse.rows) = Len(Asked),
                    NEW i \in DOMAIN Asked
             PROVE  pull.parse.rows[i].date = Asked[i].date
  BY DEF DatesRightOrFlagged
<1> DEFINE body == Lines(pull.layout, Asked)  m == Chosen(Columns[pull.layout], body)
<1>1. Window(Asked) /\ pull.layout \in Layouts
  BY IntactPull
<1>2. i \in 1 .. Len(Asked)
  BY <1>1, LinesAre
<1>3. /\ pull.parse.rows[i] = [date |-> ReadDate(ChosenFormat(body), body[i].date),
                               text |-> Asked[i].text,
                               debit |-> SignedPair(body[i], m).debit,
                               credit |-> SignedPair(body[i], m).credit]
      /\ ~DateWarning(body)
  BY <1>2, IntactParse
<1>4. ReadDate(ChosenFormat(body), body[i].date) = Asked[i].date
  BY <1>1, <1>2, <1>3, DatesAre
<1> HIDE DEF body, m
<1> QED BY <1>3, <1>4

\* In a state of the invariant an overlap posts nothing twice, if no page lost a line.
LEMMA OverlapOf == StatementInv => (~Swallowed => OverlapPostsNothingTwice)
<1> SUFFICES ASSUME StatementInv, ~Swallowed, Intact, Tested, ~FirstRowBlind, ~WithdrawalsAlone,
                    ~pull.parse.warned, NEW record \in Records(pull.parse)
             PROVE  \E i \in DOMAIN Asked : record = RecordId(Asked[i])
  BY DEF OverlapPostsNothingTwice
<1>1. Window(Asked) /\ DOMAIN Asked = 1 .. Len(Asked)
  BY IntactPull, LinesAre
<1>2. DOMAIN pull.parse.rows = 1 .. Len(Asked) /\ Len(pull.parse.rows) = Len(Asked)
  BY IntactParse
<1>3. PICK i \in 1 .. Len(Asked) : record = RecordId(pull.parse.rows[i])
  BY <1>2 DEF Records
<1>4. pull.parse.rows[i].date = Asked[i].date
  BY <1>1, <1>2, DatesRightOf DEF DatesRightOrFlagged
<1>5. Reads(pull.parse.rows[i], Asked[i])
  <2>1. ~pull.parse.rejected
    <3>1. pull.parse.rejected => Records(pull.parse) = {}
      BY DEF Records
    <3> QED BY <3>1
  <2> QED BY <1>1, <2>1, ReadsBackOf DEF ReadsBackWhatIsChecked
<1>6. RecordId(pull.parse.rows[i]) = RecordId(Asked[i])
  BY <1>4, <1>5 DEF RecordId, Reads
<1> QED BY <1>1, <1>3, <1>6

\* A true statement is refused only for want of a row to check, for an amount column
\* that is empty all the way down, for a page that lost a line it shares with the
\* first, or for zeroes where there is no balance.
THEOREM RefusesOnlyHolds == ParserSpec => []RefusesOnly
BY StatementCorrect, RefusesOnlyOf, PTL

\* Whatever the layout and whatever the amounts, what was accepted and checked against
\* the balance says what the ledger says, row for row.
THEOREM ReadsBackHolds == ParserSpec => []ReadsBackWhatIsChecked
BY StatementCorrect, ReadsBackOf, PTL

\* No day is read for another without a warning, for any calendar and any ledger.
THEOREM DatesHold == ParserSpec => []DatesRightOrFlagged
BY StatementCorrect, DatesRightOf, PTL

\* Pulling the same days again posts nothing that is not a transaction of the ledger
\* under its own identifier, of every pull none of whose pages lost a line.
THEOREM OverlapHolds == ParserSpec => [](~Swallowed => OverlapPostsNothingTwice)
BY StatementCorrect, OverlapOf, PTL
=============================================================================
