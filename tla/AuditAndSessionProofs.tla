------------------------- MODULE AuditAndSessionProofs -------------------------
(***************************************************************************)
(* Two components that share no state and no fact.                         *)
(*                                                                         *)
(* AuditChain: what the hash chain guarantees for a log of any length,     *)
(* whatever it records, for any number of threads that approve.  They may  *)
(* fork it, and ChainInv says that forking it is all they can do to it.    *)
(*                                                                         *)
(* TabSession: for any number of tabs, users, pages and tokens, the state  *)
(* is well typed, a request goes out under the session on screen, and a    *)
(* page's data belongs to that session unless sign-ins were crossed.       *)
(***************************************************************************)
EXTENDS AuditChain, TabSession, SequenceTheorems, WellFoundedInduction, TLAPS

-----------------------------------------------------------------------------
(* Types.                                                                  *)

\* A new entry is well formed, and so is the hash it commits to.
LEMMA EntryIsLink ==
    ASSUME NEW s \in Nat, NEW c \in Contents, NEW p \in Hashes
    PROVE  EntryHash(s, c, p) \in Hashes /\ Entry(s, c, p) \in Links
<1>1. EntryHash(s, c, p) \in Hashes
  BY AppendProperties DEF EntryHash, Hashes
<1> QED BY <1>1 DEF Entry, Links

\* An entry is its four fields.
LEMMA LinkFields ==
    ASSUME NEW k \in Links
    PROVE  /\ k.sequence \in Nat /\ k.content \in Contents
           /\ k.previous \in Hashes /\ k.hash \in Hashes
           /\ \A c \in Contents : [k EXCEPT !.content = c] \in Links
           /\ \A m \in Links : /\ k.sequence = m.sequence /\ k.content = m.content
                              /\ k.previous = m.previous /\ k.hash = m.hash
                              => k = m
BY DEF Links

\* The head of a log is the genesis hash or the hash of its last entry.
LEMMA HeadHashType ==
    ASSUME NEW log \in Seq(Links)
    PROVE  HeadHash(log) \in Hashes
<1>1. CASE log = <<>>
  BY <1>1 DEF HeadHash, GenesisHash, Hashes
<1>2. CASE log # <<>>
  <2>1. log[Len(log)] \in Links
    BY <1>2
  <2> QED BY <1>2, <2>1 DEF HeadHash, Links
<1> QED BY <1>1, <1>2

\* What is left of a log when a tail is cut off is a prefix of it.
LEMMA PrefixOfLog ==
    ASSUME NEW log \in Seq(Links), NEW n \in 0..Len(log)
    PROVE  /\ SubSeq(log, 1, n) \in Seq(Links)
           /\ Len(SubSeq(log, 1, n)) = n
           /\ \A i \in 1..n : SubSeq(log, 1, n)[i] = log[i]
<1>1. /\ n \in Int /\ 1 \in Int /\ n - 1 + 1 = n
      /\ \A i \in 1..n : log[i] \in Links /\ 1 + i - 1 = i
  OBVIOUS
<1> QED BY <1>1, SubSeqProperties

\* Every local, every entry and every hash has its type, for any number of threads.
THEOREM AuditTypeCorrect == AuditSpec => []AuditTypeOK
<1> USE DEF AuditTypeOK
<1>0. GenesisHash \in Hashes
  BY DEF GenesisHash, Hashes
<1>1. AuditInit => AuditTypeOK
  BY <1>0 DEF AuditInit
<1>2. AuditTypeOK /\ [AuditNext]_auditVars => AuditTypeOK'
  <2> SUFFICES ASSUME AuditTypeOK, [AuditNext]_auditVars PROVE AuditTypeOK'
    OBVIOUS
  <2>1. ASSUME NEW a \in Approvers, ReadLength(a) PROVE AuditTypeOK'
    BY <2>1 DEF ReadLength
  <2>2. ASSUME NEW a \in Approvers, ReadHead(a) PROVE AuditTypeOK'
    <3>1. HeadHash(entries) \in Hashes
      BY HeadHashType
    <3> QED BY <2>2, <3>1 DEF ReadHead
  <2>3. ASSUME NEW a \in Approvers, NEW c \in Contents, AppendEntry(a, c) PROVE AuditTypeOK'
    <3>1. Entry(seq[a], c, prev[a]) \in Links
      BY EntryIsLink
    <3> QED BY <1>0, <2>3, <3>1 DEF AppendEntry
  <2>4. ASSUME NEW i \in DOMAIN entries, NEW c \in Contents, EditContent(i, c) PROVE AuditTypeOK'
    <3>0. entries[i] \in Links
      OBVIOUS
    <3>1. [entries[i] EXCEPT !.content = c] \in Links
      BY <3>0, LinkFields
    <3>2. entries' \in Seq(Links)
      BY <2>4, <3>1 DEF EditContent
    <3> QED BY <2>4, <3>2 DEF EditContent
  <2>5. ASSUME NEW i \in DOMAIN entries, NEW c \in Contents, EditAndReseal(i, c) PROVE AuditTypeOK'
    <3>0. entries[i] \in Links
      OBVIOUS
    <3>1. entries[i].sequence \in Nat /\ entries[i].previous \in Hashes
      BY <3>0, LinkFields
    <3>2. Entry(entries[i].sequence, c, entries[i].previous) \in Links
      BY <3>1, EntryIsLink
    <3>3. entries' \in Seq(Links)
      BY <2>5, <3>2 DEF EditAndReseal
    <3> QED BY <2>5, <3>3 DEF EditAndReseal
  <2>6. ASSUME NEW i \in DOMAIN entries, NEW c \in Contents, ForgeTail(i, c) PROVE AuditTypeOK'
    <3> DEFINE kept == SubSeq(entries, 1, i - 1)
    <3>1. i - 1 \in 0..Len(entries) /\ i - 1 \in Nat
      OBVIOUS
    <3>2. kept \in Seq(Links)
      BY <3>1, PrefixOfLog
    <3> HIDE DEF kept
    <3>3. Entry(i - 1, c, HeadHash(kept)) \in Links
      BY <3>1, <3>2, HeadHashType, EntryIsLink
    <3>4. Append(kept, Entry(i - 1, c, HeadHash(kept))) \in Seq(Links)
      BY <3>2, <3>3, AppendProperties
    <3>5. entries' = Append(kept, Entry(i - 1, c, HeadHash(kept)))
      BY <2>6 DEF ForgeTail, kept
    <3>6. edits' = Append(edits, "forged") /\ UNCHANGED <<pc, seq, prev, appended, published>>
      BY <2>6 DEF ForgeTail
    <3> QED BY <3>4, <3>5, <3>6
  <2>7. CASE Publish
    BY <2>7 DEF Publish
  <2>8. CASE AuditRestart
    BY <1>0, <2>8 DEF AuditRestart
  <2>9. CASE UNCHANGED auditVars
    BY <2>9 DEF auditVars
  <2> QED BY <2>1, <2>2, <2>3, <2>4, <2>5, <2>6, <2>7, <2>8, <2>9
          DEF AuditNext, Approve, Insider
<1> QED BY <1>1, <1>2, PTL DEF AuditSpec

-----------------------------------------------------------------------------
(* What a published head hash pins down.                                   *)

\* Every set of naturals that is not empty has a least element.
LEMMA LeastNatural ==
    ASSUME NEW S \in SUBSET Nat, S # {}
    PROVE  \E k \in S : \A m \in S : k <= m
<1> DEFINE R == OpToRel(<, Nat)
<1>1. IsWellFoundedOn(R, Nat)
  BY NatLessThanWellFounded
<1>2. \E k \in S : \A m \in S : ~(<<m, k>> \in R)
  <2> HIDE DEF R
  <2> QED BY <1>1, WFMin
<1>3. \A m, k \in Nat : m < k => <<m, k>> \in R
  BY DEF OpToRel
<1> HIDE DEF R
<1>4. PICK k \in S : \A m \in S : ~(<<m, k>> \in R)
  BY <1>2
<1>5. \A m \in S : ~(m < k)
  BY <1>3, <1>4
<1> QED BY <1>5

\* Two entries that verify and have the same hash are the same entry, and
\* commit to the same preceding hash.
LEMMA SameHashSameEntry ==
    ASSUME NEW a \in Seq(Links), NEW b \in Seq(Links), Valid(a), Valid(b),
           NEW i \in DOMAIN a, i \in DOMAIN b, a[i].hash = b[i].hash
    PROVE  a[i] = b[i]
<1>1. /\ a[i].hash = EntryHash(a[i].sequence, a[i].content, a[i].previous)
      /\ b[i].hash = EntryHash(b[i].sequence, b[i].content, b[i].previous)
  BY DEF Valid, Broken, Sealed
<1>2. a[i] \in Links /\ b[i] \in Links
  OBVIOUS
<1> DEFINE pa == a[i].previous  pb == b[i].previous
           la == <<a[i].sequence, a[i].content>>  lb == <<b[i].sequence, b[i].content>>
<1>3. /\ pa \in Seq(Nat \X Contents) /\ pb \in Seq(Nat \X Contents)
      /\ la \in Nat \X Contents /\ lb \in Nat \X Contents
  BY <1>2, LinkFields DEF Hashes
<1>4. Append(pa, la) = Append(pb, lb)
  BY <1>1 DEF EntryHash
<1>5. pa = pb /\ la = lb
  <2> HIDE DEF pa, pb, la, lb
  <2> QED BY <1>3, <1>4, AppendInjective, SMTT(40)
<1>6. /\ a[i].sequence = b[i].sequence /\ a[i].content = b[i].content
      /\ a[i].previous = b[i].previous
  BY <1>5
<1> QED BY <1>2, <1>6, LinkFields

\* Two logs of one length that verify and show the same head hash are the same
\* log: the head hash determines everything before it.
LEMMA HeadPinsLog ==
    ASSUME NEW a \in Seq(Links), NEW b \in Seq(Links), Valid(a), Valid(b),
           Len(a) = Len(b), HeadHash(a) = HeadHash(b)
    PROVE  a = b
<1> DEFINE n == Len(a)
           Differ == {k \in 0..n - 1 : a[n - k] # b[n - k]}
<1>1. n \in Nat /\ DOMAIN a = 1..n /\ DOMAIN b = 1..n
  OBVIOUS
<1>2. ASSUME Differ # {} PROVE FALSE
  <2>1. PICK k \in Differ : \A m \in Differ : k <= m
    <3>1. Differ \subseteq Nat
      BY <1>1
    <3> HIDE DEF Differ
    <3> QED BY <1>2, <3>1, LeastNatural
  <2> DEFINE i == n - k
  <2>2. i \in 1..n /\ k \in Nat /\ a[i] # b[i]
    BY <1>1, <2>1
  <2>3. a[i].hash = b[i].hash
    <3>1. CASE k = 0
      BY <1>1, <2>2, <3>1 DEF HeadHash
    <3>2. CASE k > 0
      <4>1. k - 1 \in 0..n - 1 /\ k - 1 \notin Differ /\ n - (k - 1) = i + 1 /\ i + 1 \in 1..n
        BY <1>1, <2>1, <2>2, <3>2, SMTT(40)
      <4>2. a[i + 1] = b[i + 1]
        BY <4>1
      <4>3. a[i + 1].previous = a[i].hash /\ b[i + 1].previous = b[i].hash
        BY <1>1, <2>2, <4>1, SMTT(40) DEF Valid, Broken, Linked, Preceding
      <4> QED BY <4>2, <4>3
    <3> QED BY <2>2, <3>1, <3>2
  <2> QED BY <1>1, <2>2, <2>3, SameHashSameEntry
<1>3. \A i \in 1..n : a[i] = b[i]
  <2> TAKE i \in 1..n
  <2>1. n - i \in 0..n - 1 /\ n - (n - i) = i
    BY <1>1
  <2> QED BY <1>2, <2>1
<1> QED BY <1>1, <1>3

\* Cutting a verified log short leaves a verified log.
LEMMA PrefixValid ==
    ASSUME NEW log \in Seq(Links), Valid(log), NEW n \in 0..Len(log)
    PROVE  Valid(SubSeq(log, 1, n))
<1> DEFINE pre == SubSeq(log, 1, n)
<1>1. pre \in Seq(Links) /\ Len(pre) = n /\ \A i \in 1..n : pre[i] = log[i]
  BY PrefixOfLog
<1> HIDE DEF pre
<1>2. ASSUME NEW i \in 1..n PROVE Linked(pre, i) /\ Sealed(pre, i)
  <2>1. i \in DOMAIN log /\ pre[i] = log[i]
    BY <1>1
  <2>2. Preceding(pre, i) = Preceding(log, i)
    BY <1>1 DEF Preceding
  <2>3. Linked(log, i) /\ Sealed(log, i)
    BY <2>1 DEF Valid, Broken
  <2> QED BY <2>1, <2>2, <2>3 DEF Linked, Sealed
<1>3. DOMAIN pre = 1..n
  BY <1>1
<1>4. Valid(pre)
  BY <1>2, <1>3 DEF Valid, Broken
<1> QED BY <1>4 DEF pre

\* "Publish the head hash somewhere the attacker does not control": against any
\* edit, reseal or forgery, a log that still verifies and still shows the
\* published hash in its place agrees with the published log up to it.
THEOREM AnchoredAlways == AuditSpec => []Anchored
<1>1. AuditTypeOK => Anchored
  <2> SUFFICES ASSUME AuditTypeOK, published # Nothing, Valid(published), Valid(entries),
                      Len(entries) >= Len(published),
                      entries[Len(published)].hash = HeadHash(published)
               PROVE  SubSeq(entries, 1, Len(published)) = published
    BY DEF Anchored
  <2> DEFINE n == Len(published)
             pre == SubSeq(entries, 1, n)
  <2>1. published \in Seq(Links) /\ entries \in Seq(Links) /\ n \in 0..Len(entries)
    BY DEF AuditTypeOK
  <2>2. pre \in Seq(Links) /\ Len(pre) = n /\ \A i \in 1..n : pre[i] = entries[i]
    BY <2>1, PrefixOfLog
  <2>3. Valid(pre)
    BY <2>1, PrefixValid
  <2> HIDE DEF pre
  <2>4. HeadHash(pre) = HeadHash(published)
    <3>1. CASE n = 0
      BY <2>1, <2>2, <3>1 DEF HeadHash
    <3>2. CASE n # 0
      <4>1. n \in 1..n /\ pre # <<>> /\ published # <<>>
        BY <2>1, <2>2, <3>2
      <4> QED BY <2>2, <4>1 DEF HeadHash
    <3> QED BY <3>1, <3>2
  <2>5. pre = published
    BY <2>1, <2>2, <2>3, <2>4, HeadPinsLog
  <2> QED BY <2>5 DEF pre
<1> QED BY <1>1, AuditTypeCorrect, PTL

-----------------------------------------------------------------------------
(* What verify() finds, while approvals overlap as they please.            *)

\* No hash was touched: whatever the insider did, it was to contents only.
OnlyContents == \A n \in DOMAIN edits : edits[n] = "content"

\* A hash some entry of the log may rightly link to
Known(h) == h = GenesisHash \/ \E j \in DOMAIN entries : h = entries[j].hash

\* What a thread inside append() holds for the head was the head once, every
\* entry commits to what append() was asked to log, and unless two entries link
\* to one hash each links to the one before it.
ChainInv ==
    OnlyContents =>
        /\ \A a \in Approvers : pc[a] = "append" => Known(prev[a])
        /\ Len(appended) = Len(entries)
        /\ \A i \in DOMAIN entries :
              entries[i].hash = EntryHash(entries[i].sequence, appended[i], entries[i].previous)
        /\ ~Forked => \A i \in DOMAIN entries : Linked(entries, i)

\* An edit of either other kind is remembered for good.
LEMMA OtherEditsCount ==
    ASSUME AuditTypeOK, NEW kind \in {"resealed", "forged"}, edits' = Append(edits, kind)
    PROVE  ~OnlyContents'
<1>1. edits \in Seq({"content", "resealed", "forged"})
  BY DEF AuditTypeOK
<1>2. Len(edits) + 1 \in DOMAIN edits' /\ edits'[Len(edits) + 1] = kind
  BY <1>1
<1> QED BY <1>2 DEF OnlyContents

\* In a log whose entries each link to the one before, every known hash but the
\* head is taken: an entry that links to one forks the log.
LEMMA OnlyTheHeadIsFree ==
    ASSUME AuditTypeOK, \A i \in DOMAIN entries : Linked(entries, i),
           NEW h, Known(h), \A i \in DOMAIN entries : entries[i].previous # h
    PROVE  h = HeadHash(entries)
<1> DEFINE n == Len(entries)
<1>1. n \in Nat /\ DOMAIN entries = 1..n /\ (entries = <<>> <=> n = 0)
  BY DEF AuditTypeOK
<1>2. CASE h = GenesisHash
  <2>1. 1 \notin DOMAIN entries
    BY <1>2 DEF Linked, Preceding
  <2> QED BY <1>1, <1>2, <2>1 DEF HeadHash
<1>3. ASSUME NEW j \in DOMAIN entries, h = entries[j].hash PROVE h = HeadHash(entries)
  <2>1. j + 1 \notin DOMAIN entries
    BY <1>1, <1>3 DEF Linked, Preceding
  <2>2. j = n /\ n # 0
    BY <1>1, <2>1
  <2> QED BY <1>1, <1>3, <2>2 DEF HeadHash
<1> QED BY <1>2, <1>3 DEF Known

\* The inductive invariant of the chain holds in every state.
LEMMA ChainInvariant == AuditSpec => []ChainInv
<1>1. AuditInit => ChainInv
  BY DEF AuditInit, ChainInv
<1>2. AuditTypeOK /\ AuditTypeOK' /\ ChainInv /\ [AuditNext]_auditVars => ChainInv'
  <2> SUFFICES ASSUME AuditTypeOK, AuditTypeOK', ChainInv, [AuditNext]_auditVars, OnlyContents'
               PROVE  ChainInv'
    BY DEF ChainInv
  <2>1. ASSUME NEW a \in Approvers, ReadLength(a) PROVE ChainInv'
    BY <2>1 DEF ReadLength, ChainInv, OnlyContents, AuditTypeOK, Known, Forked, Linked, Preceding
  <2>2. ASSUME NEW a \in Approvers, ReadHead(a) PROVE ChainInv'
    <3>1. Known(HeadHash(entries))
      <4>1. entries # <<>> => Len(entries) \in DOMAIN entries
        BY DEF AuditTypeOK
      <4> QED BY <4>1 DEF Known, HeadHash
    <3>2. \A b \in Approvers : pc'[b] = "append" => Known(prev'[b])
      BY <2>2, <3>1 DEF ReadHead, ChainInv, OnlyContents, AuditTypeOK
    <3> QED BY <2>2, <3>2 DEF ReadHead, ChainInv, OnlyContents, Known, Forked, Linked, Preceding
  <2>3. ASSUME NEW a \in Approvers, NEW c \in Contents, AppendEntry(a, c) PROVE ChainInv'
    <3> DEFINE new == Len(entries) + 1
               e == Entry(seq[a], c, prev[a])
    <3>1. /\ OnlyContents /\ edits' = edits
          /\ entries' = Append(entries, e) /\ appended' = Append(appended, c)
          /\ Known(prev[a])
          /\ \A b \in Approvers : pc'[b] = "append" => pc[b] = "append" /\ prev'[b] = prev[b]
          /\ Len(appended) = Len(entries)
      BY <2>3 DEF AppendEntry, ChainInv, OnlyContents, AuditTypeOK
    <3>2. entries \in Seq(Links) /\ appended \in Seq(Contents) /\ e \in Links
      BY EntryIsLink DEF AuditTypeOK
    <3>3. e.previous = prev[a] /\ e.hash = EntryHash(e.sequence, c, prev[a])
      BY DEF Entry
    <3> HIDE DEF e
    <3>4. /\ DOMAIN entries' = DOMAIN entries \cup {new}
          /\ Len(entries') = new /\ Len(appended') = new
          /\ entries'[new] = e /\ appended'[new] = c
          /\ \A i \in DOMAIN entries : entries'[i] = entries[i] /\ appended'[i] = appended[i]
      BY <3>1, <3>2
    <3>5. \A b \in Approvers : pc'[b] = "append" => Known(prev[b])'
      BY <3>1, <3>4 DEF ChainInv, Known
    <3>6. \A i \in DOMAIN entries' :
              entries'[i].hash = EntryHash(entries'[i].sequence, appended'[i], entries'[i].previous)
      BY <3>1, <3>3, <3>4 DEF ChainInv
    <3>7. ASSUME ~Forked' PROVE \A i \in DOMAIN entries' : Linked(entries', i)
      <4>0. new \notin DOMAIN entries
        BY <3>2
      <4>1. ~Forked /\ \A i \in DOMAIN entries : entries[i].previous # prev[a]
        BY <3>3, <3>4, <3>7, <4>0 DEF Forked
      <4>2. \A i \in DOMAIN entries : Linked(entries, i)
        BY <3>1, <4>1 DEF ChainInv
      <4>3. prev[a] = HeadHash(entries)
        BY <3>1, <4>1, <4>2, OnlyTheHeadIsFree
      <4>4. \A i \in DOMAIN entries : Linked(entries', i)
        BY <3>2, <3>4, <4>2 DEF Linked, Preceding
      <4>5. Linked(entries', new)
        BY <3>2, <3>3, <3>4, <4>3 DEF Linked, Preceding, HeadHash
      <4> QED BY <3>4, <4>4, <4>5
    <3> QED BY <3>4, <3>5, <3>6, <3>7 DEF ChainInv
  <2>4. ASSUME NEW k \in DOMAIN entries, NEW c \in Contents, EditContent(k, c) PROVE ChainInv'
    <3>1. OnlyContents
      <4>1. edits' = Append(edits, "content") /\ edits \in Seq({"content", "resealed", "forged"})
        BY <2>4 DEF EditContent, AuditTypeOK
      <4>2. \A n \in DOMAIN edits : n \in DOMAIN edits' /\ edits'[n] = edits[n]
        BY <4>1
      <4> QED BY <4>2 DEF OnlyContents
    <3>2. /\ DOMAIN entries' = DOMAIN entries /\ Len(entries') = Len(entries)
          /\ \A i \in DOMAIN entries : /\ entries'[i].sequence = entries[i].sequence
                                       /\ entries'[i].previous = entries[i].previous
                                       /\ entries'[i].hash = entries[i].hash
      BY <2>4 DEF EditContent, AuditTypeOK, Links
    <3>3. Forked' <=> Forked
      BY <3>2 DEF Forked
    <3>4. \A i \in DOMAIN entries : Linked(entries', i) <=> Linked(entries, i)
      BY <3>2 DEF Linked, Preceding, AuditTypeOK
    <3>5. \A h : Known(h)' <=> Known(h)
      BY <3>2 DEF Known
    <3>6. UNCHANGED <<pc, seq, prev, appended>>
      BY <2>4 DEF EditContent
    <3> QED BY <3>1, <3>2, <3>3, <3>4, <3>5, <3>6 DEF ChainInv
  <2>5. ASSUME NEW k \in DOMAIN entries, NEW c \in Contents,
               EditAndReseal(k, c) \/ ForgeTail(k, c)
        PROVE  FALSE
    BY <2>5, OtherEditsCount DEF EditAndReseal, ForgeTail
  <2>6. CASE Publish
    BY <2>6 DEF Publish, ChainInv, OnlyContents, Known, Forked, Linked, Preceding
  <2>7. CASE AuditRestart
    BY <2>7 DEF AuditRestart, ChainInv, OnlyContents, AuditTypeOK
  <2>8. CASE UNCHANGED auditVars
    BY <2>8 DEF auditVars, ChainInv, OnlyContents, Known, Forked, Linked, Preceding
  <2> QED BY <2>1, <2>2, <2>3, <2>4, <2>5, <2>6, <2>7, <2>8
          DEF AuditNext, Approve, Insider
<1> QED BY <1>1, <1>2, AuditTypeCorrect, PTL DEF AuditSpec

\* However many approvals overlap, an insider who rewrites past contents is found
\* at every entry he touched and nowhere else, and nobody is found in a log nobody
\* edited, unless two approvals forked it.
THEOREM EditsAlwaysLocated == AuditSpec => []EditsLocated
<1>1. AuditTypeOK /\ ChainInv => EditsLocated
  <2> SUFFICES ASSUME AuditTypeOK, ChainInv, OnlyContents, ~Forked, NEW i \in DOMAIN entries
               PROVE  (~Linked(entries, i) \/ ~Sealed(entries, i))
                          <=> entries[i].content # appended[i]
    BY DEF EditsLocated, OnlyContents, Broken
  <2> DEFINE p == entries[i].previous
             was == <<entries[i].sequence, appended[i]>>
             now == <<entries[i].sequence, entries[i].content>>
  <2>1. /\ entries[i].hash = EntryHash(entries[i].sequence, appended[i], p)
        /\ i \in DOMAIN appended
        /\ Linked(entries, i)
    BY DEF ChainInv, AuditTypeOK
  <2>3. entries[i] \in Links /\ appended[i] \in Contents
    BY <2>1 DEF AuditTypeOK
  <2>4. p \in Seq(Nat \X Contents) /\ was \in Nat \X Contents /\ now \in Nat \X Contents
    BY <2>3, LinkFields DEF Hashes
  <2>5. Sealed(entries, i) <=> Append(p, was) = Append(p, now)
    BY <2>1 DEF Sealed, EntryHash
  <2>6. Append(p, was) = Append(p, now) <=> was = now
    <3> HIDE DEF p, was, now
    <3> QED BY <2>4, AppendInjective
  <2>7. was = now <=> appended[i] = entries[i].content
    OBVIOUS
  <2> QED BY <2>1, <2>5, <2>6, <2>7
<1> QED BY <1>1, AuditTypeCorrect, ChainInvariant, PTL

-----------------------------------------------------------------------------
\* A token issued stays issued, and the new one is the next index.
LEMMA IssueAppends ==
    ASSUME issued \in Seq(Users), NEW u \in Users, Issue(u)
    PROVE  /\ issued' \in Seq(Users)
           /\ Tokens \subseteq Tokens' /\ Len(issued) + 1 \in Tokens'
  BY DEF Issue, Tokens

\* What Render leaves behind is well typed: a request carries what the tab has.
LEMMA RenderTyped ==
    ASSUME TabTypeOK, NEW t \in Tabs, Render(t), Tokens \subseteq Tokens',
           memory' \in [Tabs -> TokenOrNone'], storage' \in TokenOrNone'
    PROVE  /\ asked' \in [Tabs -> TokenOrNone']
           /\ shown' \in [Tabs -> TokenOrNone']
<1>1. Carried(t)' \in TokenOrNone'
  BY DEF Carried
<1>2. TokenOrNone \subseteq TokenOrNone'
  BY DEF TokenOrNone
<1> QED
  BY <1>1, <1>2 DEF TabTypeOK, Render, TokenOrNone

\* Type correctness: every variable keeps the shape the code gives it, and in
\* particular no tab or storage ever holds a token the backend did not issue.
THEOREM TabTypeCorrect == TabSpec => []TabTypeOK
<1> USE TabAssumption
<1>1. TabInit => TabTypeOK
  BY DEF TabInit, TabTypeOK, Tokens, TokenOrNone
<1>2. TabTypeOK /\ [TabNext]_allVars => TabTypeOK'
  <2> SUFFICES ASSUME TabTypeOK, [TabNext]_allVars
               PROVE  TabTypeOK'
    OBVIOUS
  <2>u. CASE UNCHANGED allVars
    BY <2>u DEF TabTypeOK, allVars, serverVars, tabVars, pageVars, Tokens, TokenOrNone
  <2>e. ASSUME NEW k \in Tokens, Expire(k) PROVE TabTypeOK'
    BY <2>e DEF Expire, TabTypeOK, tabVars, pageVars, Tokens, TokenOrNone
  <2>d. ASSUME NEW u \in Users, Disable(u) PROVE TabTypeOK'
    BY <2>d DEF Disable, TabTypeOK, tabVars, pageVars, Tokens, TokenOrNone
  <2>t. ASSUME NEW t \in Tabs, Tab(t) PROVE TabTypeOK'
    <3> USE DEF TabTypeOK
    <3>1. ASSUME NEW p \in Pages \cup {Login}, Open(t, p) PROVE TabTypeOK'
      BY <3>1 DEF Open, serverVars, Tokens, TokenOrNone
    <3>2. ASSUME NEW p \in Pages \cup {Login}, Navigate(t, p) PROVE TabTypeOK'
      <4>1. asked' \in [Tabs -> TokenOrNone'] /\ shown' \in [Tabs -> TokenOrNone']
        BY <3>2, RenderTyped DEF Navigate, serverVars, Tokens, TokenOrNone
      <4> QED BY <3>2, <4>1 DEF Navigate, serverVars, Tokens, TokenOrNone
    <3>3. CASE BootSucceeds(t)
      <4>1. issued[bearer[t]] \in Users
        BY <3>3 DEF BootSucceeds, Tokens
      <4>2. /\ issued' \in Seq(Users)
            /\ Tokens \subseteq Tokens' /\ Len(issued) + 1 \in Tokens'
        BY <3>3, <4>1, IssueAppends DEF BootSucceeds
      <4>3. /\ memory' \in [Tabs -> TokenOrNone'] /\ storage' \in TokenOrNone'
            /\ session' \in [Tabs -> TokenOrNone']
        BY <3>3, <4>2 DEF BootSucceeds, Adopt, Store, TokenOrNone
      <4>4. asked' \in [Tabs -> TokenOrNone'] /\ shown' \in [Tabs -> TokenOrNone']
        BY <3>3, <4>2, <4>3, RenderTyped DEF BootSucceeds
      <4> QED BY <3>3, <4>2, <4>3, <4>4 DEF BootSucceeds, Issue, TokenOrNone
    <3>4. CASE BootFails(t)
      <4>1. /\ memory' \in [Tabs -> TokenOrNone'] /\ storage' \in TokenOrNone'
            /\ session' \in [Tabs -> TokenOrNone'] /\ Tokens' = Tokens
        BY <3>4 DEF BootFails, Forget, Store, serverVars, Tokens, TokenOrNone
      <4>2. asked' \in [Tabs -> TokenOrNone'] /\ shown' \in [Tabs -> TokenOrNone']
        BY <3>4, <4>1, RenderTyped DEF BootFails
      <4> QED BY <3>4, <4>1, <4>2 DEF BootFails, serverVars, TokenOrNone
    <3>5. ASSUME NEW u \in Users, SubmitSignIn(t, u) PROVE TabTypeOK'
      <4>1. asked' \in [Tabs -> TokenOrNone'] /\ shown' \in [Tabs -> TokenOrNone']
        BY <3>5, RenderTyped DEF SubmitSignIn, serverVars, Tokens, TokenOrNone
      <4>2. [user |-> u, next |-> next[t]] \in SignIns
        BY DEF SignIns
      <4> QED
        BY <3>5, <4>1, <4>2 DEF SubmitSignIn, serverVars, Tokens, TokenOrNone
    <3>6. ASSUME NEW s \in signins[t], SignInSucceeds(t, s) PROVE TabTypeOK'
      <4>1. s \in SignIns /\ s.user \in Users /\ s.next \in Pages
        BY DEF SignIns
      <4>2. /\ issued' \in Seq(Users)
            /\ Tokens \subseteq Tokens' /\ Len(issued) + 1 \in Tokens'
        BY <3>6, <4>1, IssueAppends DEF SignInSucceeds
      <4>3. /\ memory' \in [Tabs -> TokenOrNone'] /\ storage' \in TokenOrNone'
            /\ session' \in [Tabs -> TokenOrNone']
        BY <3>6, <4>2 DEF SignInSucceeds, Adopt, Store, TokenOrNone
      <4>4. asked' \in [Tabs -> TokenOrNone'] /\ shown' \in [Tabs -> TokenOrNone']
        BY <3>6, <4>2, <4>3, RenderTyped DEF SignInSucceeds
      <4>5. /\ signins' \in [Tabs -> SUBSET SignIns]
            /\ form' \in [Tabs -> SignIns \cup {None}]
            /\ place' \in [Tabs -> Pages \cup {Login}]
            /\ next' \in [Tabs -> Pages]
        BY <3>6, <4>1 DEF SignInSucceeds
      <4>6. UNCHANGED <<expired, inactive, boot, bearer, crossed>>
        BY <3>6 DEF SignInSucceeds, Issue
      <4> QED BY <4>2, <4>3, <4>4, <4>5, <4>6 DEF TokenOrNone
    <3>7. ASSUME NEW s \in signins[t], SignInFails(t, s) PROVE TabTypeOK'
      <4>1. asked' \in [Tabs -> TokenOrNone'] /\ shown' \in [Tabs -> TokenOrNone']
        BY <3>7, RenderTyped DEF SignInFails, serverVars, Tokens, TokenOrNone
      <4> QED BY <3>7, <4>1 DEF SignInFails, serverVars, Tokens, TokenOrNone
    <3>8. CASE SignOut(t)
      <4>1. /\ memory' \in [Tabs -> TokenOrNone'] /\ storage' \in TokenOrNone'
            /\ session' \in [Tabs -> TokenOrNone'] /\ Tokens' = Tokens
        BY <3>8 DEF SignOut, Forget, Store, serverVars, Tokens, TokenOrNone
      <4>2. asked' \in [Tabs -> TokenOrNone'] /\ shown' \in [Tabs -> TokenOrNone']
        BY <3>8, <4>1, RenderTyped DEF SignOut
      <4>3. place[t] \in Pages
        BY <3>8 DEF SignOut
      <4>4. next' \in [Tabs -> Pages] /\ place' \in [Tabs -> Pages \cup {Login}]
        <5>1. PICK p \in {Home, place[t]} : next' = [next EXCEPT ![t] = p]
          BY <3>8 DEF SignOut
        <5>2. p \in Pages
          BY <4>3
        <5> QED BY <5>1, <5>2, <3>8 DEF SignOut
      <4>5. UNCHANGED <<issued, expired, inactive, boot, bearer, signins, form, crossed>>
        BY <3>8 DEF SignOut, serverVars
      <4> QED BY <4>1, <4>2, <4>4, <4>5 DEF TokenOrNone
    <3>9. CASE GuardSendsToLogin(t)
      <4>1. asked' \in [Tabs -> TokenOrNone'] /\ shown' \in [Tabs -> TokenOrNone']
        BY <3>9, RenderTyped DEF GuardSendsToLogin, serverVars, Tokens, TokenOrNone
      <4> QED BY <3>9, <4>1 DEF GuardSendsToLogin, serverVars, Tokens, TokenOrNone
    <3>10. CASE GuardSendsBack(t)
      <4>1. asked' \in [Tabs -> TokenOrNone'] /\ shown' \in [Tabs -> TokenOrNone']
        BY <3>10, RenderTyped DEF GuardSendsBack, serverVars, Tokens, TokenOrNone
      <4> QED BY <3>10, <4>1 DEF GuardSendsBack, serverVars, Tokens, TokenOrNone
    <3>11. CASE PageAnswers(t) \/ PageFails(t) \/ Reload(t)
      <4>1. UNCHANGED <<serverVars, storage, tabVars>>
        BY <3>11 DEF PageAnswers, PageFails, Reload
      <4>2. asked' \in [Tabs -> TokenOrNone] /\ shown' \in [Tabs -> TokenOrNone]
        BY <3>11 DEF PageAnswers, PageFails, Reload, Carried, TokenOrNone
      <4> QED BY <4>1, <4>2 DEF tabVars, serverVars, Tokens, TokenOrNone
    <3>12. CASE PageRefused(t)
      <4>1. /\ memory' \in [Tabs -> TokenOrNone'] /\ storage' \in TokenOrNone'
            /\ session' \in [Tabs -> TokenOrNone'] /\ Tokens' = Tokens
        BY <3>12 DEF PageRefused, Forget, Store, serverVars, Tokens, TokenOrNone
      <4>2. asked' \in [Tabs -> TokenOrNone'] /\ shown' \in [Tabs -> TokenOrNone']
        BY <3>12, <4>1, RenderTyped DEF PageRefused
      <4> QED BY <3>12, <4>1, <4>2 DEF PageRefused, serverVars, TokenOrNone
    <3> QED
      BY <2>t, <3>1, <3>2, <3>3, <3>4, <3>5, <3>6, <3>7, <3>8, <3>9, <3>10, <3>11, <3>12
      DEF Tab, BootAnswers, Guard
  <2> QED
    BY <2>u, <2>e, <2>d, <2>t DEF TabNext
<1> QED
  BY <1>1, <1>2, PTL DEF TabSpec

-----------------------------------------------------------------------------
\* Whatever the other tabs do to the storage, a tab with a session goes on
\* using that session's token.
THEOREM SessionHoldsItsToken == TabSpec => []RequestsUnderTheSession
<1>1. TabInit => RequestsUnderTheSession
  BY DEF TabInit, RequestsUnderTheSession
<1>2. TabTypeOK /\ RequestsUnderTheSession /\ [TabNext]_allVars => RequestsUnderTheSession'
  <2> SUFFICES ASSUME TabTypeOK, RequestsUnderTheSession, [TabNext]_allVars
               PROVE  RequestsUnderTheSession'
    OBVIOUS
  <2> USE DEF RequestsUnderTheSession
  <2>1. CASE UNCHANGED <<memory, session>>
    BY <2>1
  <2>2. ASSUME NEW t \in Tabs, NEW p \in Pages \cup {Login}, Open(t, p)
        PROVE  RequestsUnderTheSession'
    BY <2>2 DEF Open, TabTypeOK
  <2>3. ASSUME NEW t \in Tabs, NEW k, Adopt(t, k)
        PROVE  RequestsUnderTheSession'
    BY <2>3 DEF Adopt, Store, TabTypeOK
  <2>4. ASSUME NEW t \in Tabs, Forget(t)
        PROVE  RequestsUnderTheSession'
    BY <2>4 DEF Forget, Store, TabTypeOK
  <2>5. ASSUME NEW t \in Tabs, Tab(t)
        PROVE  \/ UNCHANGED <<memory, session>>
               \/ \E p \in Pages \cup {Login} : Open(t, p)
               \/ Adopt(t, Len(issued) + 1)
               \/ Forget(t)
    BY <2>5 DEF Tab, Navigate, BootAnswers, BootSucceeds, BootFails, Guard,
                GuardSendsToLogin, GuardSendsBack, SignOut, SubmitSignIn, SignInSucceeds,
                SignInFails, PageAnswers, PageRefused, PageFails, Reload, tabVars
  <2> QED
    BY <2>1, <2>2, <2>3, <2>4, <2>5
    DEF TabNext, Expire, Disable, tabVars, allVars
<1> QED
  BY <1>1, <1>2, TabTypeCorrect, PTL DEF TabSpec

-----------------------------------------------------------------------------
(* PageBelongsToSession is not inductive: nothing in it says that a tab     *)
(* whose page is mounted has no sign-in outstanding.                        *)

\* The answers that will set the session of an uncrossed tab: at most one, and
\* none once there is a session.
OneAnswerDue(t) ==
    /\ boot[t] = "checking" => session[t] = None /\ signins[t] = {}
    /\ session[t] # None => signins[t] = {}
    /\ \A s1, s2 \in signins[t] : s1 = s2

PageInv(t) ==
    /\ ~Mounted(t) => asked[t] = None /\ shown[t] = None
    /\ boot[t] = "closed" => session[t] = None /\ signins[t] = {}
    /\ ~crossed[t] =>
          /\ OneAnswerDue(t)
          /\ asked[t] # None => asked[t] = session[t]
          /\ shown[t] # None => shown[t] = session[t]

\* A tab whose own state and page are untouched keeps the invariant.
LEMMA PageUntouched ==
    ASSUME NEW t \in Tabs, PageInv(t),
           boot'[t] = boot[t], session'[t] = session[t], place'[t] = place[t],
           signins'[t] = signins[t], crossed'[t] = crossed[t],
           asked'[t] = asked[t], shown'[t] = shown[t]
    PROVE  PageInv(t)'
  BY DEF PageInv, OneAnswerDue, Mounted

\* A step that renders the tab keeps the invariant, if it keeps the sign-ins in
\* order and does not change the session under a mounted page.
LEMMA RenderKeepsPage ==
    ASSUME TabTypeOK, NEW t \in Tabs, PageInv(t), RequestsUnderTheSession', Render(t),
           boot'[t] = "closed" => session'[t] = None /\ signins'[t] = {},
           ~crossed'[t] => /\ OneAnswerDue(t)' /\ ~crossed[t]
                           /\ Mounted(t) /\ Mounted(t)' => session'[t] = session[t]
    PROVE  PageInv(t)'
<1>1. Mounted(t)' => Carried(t)' = session'[t]
  BY DEF Mounted, Carried, RequestsUnderTheSession
<1>2. CASE Mounted(t) /\ Mounted(t)' /\ place'[t] = place[t]
  <2>1. asked'[t] = asked[t] /\ shown'[t] = shown[t]
    BY <1>2 DEF Render, TabTypeOK
  <2> QED
    BY <1>2, <2>1 DEF PageInv
<1>3. CASE ~(Mounted(t) /\ Mounted(t)' /\ place'[t] = place[t])
  <2>1. /\ asked'[t] = IF Mounted(t)' THEN Carried(t)' ELSE None
        /\ shown'[t] = None
    BY <1>3 DEF Render, TabTypeOK
  <2> QED
    BY <1>1, <2>1 DEF PageInv
<1> QED
  BY <1>2, <1>3

\* The inductive invariant of the pages holds in every state.
LEMMA PageInvariant == TabSpec => [](\A t \in Tabs : PageInv(t))
<1> DEFINE Inv == \A t \in Tabs : PageInv(t)
<1>1. TabInit => Inv
  BY DEF TabInit, PageInv, OneAnswerDue, Mounted
<1>2. TabTypeOK /\ RequestsUnderTheSession' /\ Inv /\ [TabNext]_allVars => Inv'
  <2> SUFFICES ASSUME TabTypeOK, RequestsUnderTheSession', Inv, [TabNext]_allVars,
                      NEW t \in Tabs
               PROVE  PageInv(t)'
    OBVIOUS
  <2>p. PageInv(t)
    OBVIOUS
  <2>1. CASE UNCHANGED <<tabVars, pageVars>>
    BY <2>1, <2>p, PageUntouched DEF tabVars, pageVars
  <2>2. ASSUME NEW o \in Tabs, o # t, Tab(o)
        PROVE  PageInv(t)'
    <3>1. /\ boot'[t] = boot[t] /\ session'[t] = session[t] /\ place'[t] = place[t]
          /\ signins'[t] = signins[t] /\ crossed'[t] = crossed[t]
      BY <2>2, ZenonT(60) DEF Tab, Open, Navigate, BootAnswers, BootSucceeds, BootFails, Guard,
                  GuardSendsToLogin, GuardSendsBack, SignOut, SubmitSignIn,
                  SignInSucceeds, SignInFails, PageAnswers, PageRefused, PageFails,
                  Reload, tabVars, Adopt, Forget, TabTypeOK
    <3>2. asked'[t] = asked[t] /\ shown'[t] = shown[t]
      BY <2>2 DEF Tab, Open, Navigate, BootAnswers, BootSucceeds, BootFails, Guard,
                  GuardSendsToLogin, GuardSendsBack, SignOut, SubmitSignIn,
                  SignInSucceeds, SignInFails, PageAnswers, PageRefused, PageFails,
                  Reload, Render, TabTypeOK
    <3> QED
      BY <2>p, <3>1, <3>2, PageUntouched
  <2>3. CASE Tab(t)
    <3>1. ASSUME NEW p \in Pages \cup {Login}, Open(t, p) PROVE PageInv(t)'
      BY <3>1 DEF Open, PageInv, OneAnswerDue, Mounted, TabTypeOK
    <3>2. ASSUME NEW p \in Pages \cup {Login}, Navigate(t, p) PROVE PageInv(t)'
      <4>1. /\ boot' = boot /\ session' = session /\ signins' = signins
            /\ crossed' = crossed /\ Render(t)
        BY <3>2 DEF Navigate
      <4> QED BY <4>1, <2>p, RenderKeepsPage DEF PageInv, OneAnswerDue
    <3>3. CASE BootSucceeds(t)
      <4>1. /\ boot[t] = "checking" /\ boot'[t] = "done" /\ signins' = signins
            /\ crossed' = crossed /\ Render(t)
        BY <3>3 DEF BootSucceeds, TabTypeOK
      <4>2. ~Mounted(t)
        BY <4>1 DEF Mounted
      <4> QED BY <4>1, <4>2, <2>p, RenderKeepsPage DEF PageInv, OneAnswerDue
    <3>4. CASE BootFails(t)
      <4>1. /\ boot[t] = "checking" /\ boot'[t] = "done" /\ signins' = signins
            /\ crossed' = crossed /\ Render(t)
        BY <3>4 DEF BootFails, TabTypeOK
      <4>2. ~Mounted(t)
        BY <4>1 DEF Mounted
      <4> QED BY <4>1, <4>2, <2>p, RenderKeepsPage DEF PageInv, OneAnswerDue
    <3>5. ASSUME NEW u \in Users, SubmitSignIn(t, u) PROVE PageInv(t)'
      <4>1. /\ boot[t] # "closed" /\ boot' = boot /\ session' = session /\ Render(t)
            /\ crossed'[t] = (crossed[t] \/ boot[t] = "checking" \/ signins[t] # {}
                              \/ session[t] # None)
            /\ signins'[t] = signins[t] \cup {[user |-> u, next |-> next[t]]}
        BY <3>5 DEF SubmitSignIn, TabTypeOK
      <4> QED BY <4>1, <2>p, RenderKeepsPage DEF PageInv, OneAnswerDue
    <3>6. ASSUME NEW s \in signins[t], SignInSucceeds(t, s) PROVE PageInv(t)'
      <4>1. /\ boot' = boot /\ crossed' = crossed /\ Render(t)
            /\ signins'[t] = signins[t] \ {s}
        BY <3>6 DEF SignInSucceeds, TabTypeOK
      <4>2. boot[t] # "closed"
        BY <2>p DEF PageInv
      <4>3. ~crossed[t] => /\ session[t] = None /\ boot[t] # "checking"
                           /\ signins'[t] = {}
        BY <4>1, <2>p DEF PageInv, OneAnswerDue
      <4>4. ~crossed[t] => ~Mounted(t)
        BY <4>3 DEF Mounted
      <4> QED BY <4>1, <4>2, <4>3, <4>4, <2>p, RenderKeepsPage DEF OneAnswerDue
    <3>7. ASSUME NEW s \in signins[t], SignInFails(t, s) PROVE PageInv(t)'
      <4>1. /\ boot' = boot /\ session' = session /\ crossed' = crossed /\ Render(t)
            /\ signins'[t] = signins[t] \ {s}
        BY <3>7 DEF SignInFails, TabTypeOK
      <4> QED BY <4>1, <2>p, RenderKeepsPage DEF PageInv, OneAnswerDue
    <3>8. CASE SignOut(t) \/ PageRefused(t)
      <4>1. /\ boot' = boot /\ session'[t] = None /\ crossed' = crossed
            /\ signins' = signins /\ Render(t)
        BY <3>8 DEF SignOut, PageRefused, Forget, TabTypeOK
      <4>2. ~Mounted(t)'
        BY <4>1 DEF Mounted
      <4> QED BY <4>1, <4>2, <2>p, RenderKeepsPage DEF PageInv, OneAnswerDue
    <3>9. CASE Guard(t)
      <4>1. /\ boot' = boot /\ session' = session /\ crossed' = crossed
            /\ signins' = signins /\ Render(t)
        BY <3>9 DEF Guard, GuardSendsToLogin, GuardSendsBack
      <4> QED BY <4>1, <2>p, RenderKeepsPage DEF PageInv, OneAnswerDue
    <3>10. CASE PageAnswers(t) \/ PageFails(t) \/ Reload(t)
      <4>1. /\ UNCHANGED <<boot, session, place, signins, crossed, memory>>
        BY <3>10 DEF PageAnswers, PageFails, Reload, tabVars
      <4>2. Mounted(t)' = Mounted(t)
        BY <4>1 DEF Mounted
      <4>3. Mounted(t)
        BY <3>10, <2>p DEF PageAnswers, PageFails, Reload, PageInv
      <4>4. Carried(t) = session[t]
        BY <4>1, <4>3 DEF Carried, Mounted, RequestsUnderTheSession
      <4>5. /\ asked'[t] \in {None, session[t]}
            /\ shown'[t] \in {asked[t], shown[t]}
        BY <3>10, <4>4 DEF PageAnswers, PageFails, Reload, TabTypeOK
      <4> QED BY <4>1, <4>2, <4>3, <4>5, <2>p DEF PageInv, OneAnswerDue
    <3> QED
      BY <2>3, <3>1, <3>2, <3>3, <3>4, <3>5, <3>6, <3>7, <3>8, <3>9, <3>10
      DEF Tab, BootAnswers
  <2> QED
    BY <2>1, <2>2, <2>3 DEF TabNext, Expire, Disable, allVars, pageVars
<1> QED
  <2>1. TabSpec => [](TabTypeOK /\ RequestsUnderTheSession)
    BY TabTypeCorrect, SessionHoldsItsToken, PTL
  <2> QED
    BY <1>1, <1>2, <2>1, PTL DEF TabSpec

\* The page never mixes two people's sessions unless sign-ins were crossed.
THEOREM PageHoldsItsSession == TabSpec => []PageBelongsToSession
<1>1. (\A t \in Tabs : PageInv(t)) => PageBelongsToSession
  BY DEF PageInv, PageBelongsToSession
<1> QED
  BY <1>1, PageInvariant, PTL

\* Tabs that share a storage share nothing else, however many they are.
THEOREM SessionsAreKeptApart == TabSpec => []SessionsKeptApart
BY SessionHoldsItsToken, PageHoldsItsSession, PTL DEF SessionsKeptApart

\* Another tab's sign-out, another tab's refusal and a failing backend never end
\* the session of a tab, save by a boot that a sign-in crossed.
LEMMA SessionEnds ==
    ASSUME TabTypeOK, \A t \in Tabs : PageInv(t), [TabNext]_allVars
    PROVE  SessionEndsForCause
<1> SUFFICES ASSUME NEW t \in Tabs, session[t] # None, session'[t] = None
             PROVE  \/ SignOut(t)
                    \/ \E p \in Pages \cup {Login} : Open(t, p)
                    \/ asked[t] \in expired
                    \/ boot[t] = "checking" /\ crossed[t]
  BY DEF SessionEndsForCause
<1>1. PICK o \in Tabs : Tab(o)
  <2>1. session' # session
    OBVIOUS
  <2> QED BY <2>1 DEF TabNext, Expire, Disable, allVars, tabVars
<1>2. CASE o # t
  <2>1. session'[t] = session[t]
    BY <1>1, <1>2 DEF Tab, Open, Navigate, BootAnswers, BootSucceeds, BootFails, Adopt,
       Forget, Guard, GuardSendsToLogin, GuardSendsBack, SignOut, SubmitSignIn,
       SignInSucceeds, SignInFails, PageAnswers, PageRefused, PageFails, Reload,
       tabVars, TabTypeOK
  <2> QED BY <2>1
<1>3. CASE o = t
  <2>1. Len(issued) + 1 # None
    BY TabAssumption DEF TabTypeOK
  <2>2. CASE BootSucceeds(t) \/ \E s \in signins[t] : SignInSucceeds(t, s)
    BY <2>1, <2>2 DEF BootSucceeds, SignInSucceeds, Adopt, TabTypeOK
  <2>3. CASE BootFails(t)
    BY <2>3 DEF BootFails, PageInv, OneAnswerDue
  <2>4. CASE PageRefused(t)
    BY <2>4 DEF PageRefused
  <2>5. CASE \/ \E p \in Pages \cup {Login} : Navigate(t, p)
             \/ Guard(t) \/ (\E u \in Users : SubmitSignIn(t, u))
             \/ (\E s \in signins[t] : SignInFails(t, s))
             \/ PageAnswers(t) \/ PageFails(t) \/ Reload(t)
    <3>1. session' = session
      BY <2>5 DEF Navigate, Guard, GuardSendsToLogin, GuardSendsBack, SubmitSignIn,
         SignInFails, PageAnswers, PageFails, Reload, tabVars
    <3> QED BY <3>1
  <2>6. CASE SignOut(t) \/ \E p \in Pages \cup {Login} : Open(t, p)
    BY <2>6
  <2> QED BY <1>1, <1>3, <2>2, <2>3, <2>4, <2>5, <2>6 DEF Tab, BootAnswers
<1> QED BY <1>2, <1>3

\* Nor do they take the token from the storage: that too needs a sign-out, a failed
\* boot, or a refusal, and the refused token of an uncrossed tab is its own.
LEMMA TokenCleared ==
    ASSUME TabTypeOK, RequestsUnderTheSession, \A t \in Tabs : PageInv(t),
           [TabNext]_allVars
    PROVE  TokenClearedForCause
<1> SUFFICES ASSUME storage # None, storage' = None
             PROVE  \E t \in Tabs :
                      \/ SignOut(t)
                      \/ BootFails(t)
                      \/ /\ asked[t] \in expired /\ session[t] # None /\ session'[t] = None
                         /\ ~crossed[t] /\ GoodToken(storage) => memory[t] # storage
  BY DEF TokenClearedForCause
<1>1. PICK t \in Tabs : Tab(t)
  <2>1. storage' # storage
    OBVIOUS
  <2> QED BY <2>1 DEF TabNext, Expire, Disable, allVars
<1>2. CASE PageRefused(t)
  <2>1. asked[t] # None /\ asked[t] \in expired /\ session'[t] = None
    BY <1>2 DEF PageRefused, Forget, TabTypeOK
  <2>2. session[t] # None
    BY <2>1 DEF PageInv, Mounted
  <2>3. ~crossed[t] => memory[t] = asked[t]
    BY <2>1, <2>2 DEF PageInv, RequestsUnderTheSession
  <2>4. ~crossed[t] /\ GoodToken(storage) => memory[t] # storage
    BY <2>1, <2>3 DEF GoodToken
  <2> QED BY <2>1, <2>2, <2>4
<1>3. CASE BootSucceeds(t) \/ \E s \in signins[t] : SignInSucceeds(t, s)
  <2>1. storage' = Len(issued) + 1
    BY <1>3 DEF BootSucceeds, SignInSucceeds, Adopt, Store
  <2>2. Len(issued) + 1 # None
    BY TabAssumption DEF TabTypeOK
  <2> QED BY <2>1, <2>2
<1>4. CASE \/ \E p \in Pages \cup {Login} : Open(t, p) \/ Navigate(t, p)
           \/ Guard(t) \/ (\E u \in Users : SubmitSignIn(t, u))
           \/ (\E s \in signins[t] : SignInFails(t, s))
           \/ PageAnswers(t) \/ PageFails(t) \/ Reload(t)
  <2>1. storage' = storage
    BY <1>4 DEF Open, Navigate, Guard, GuardSendsToLogin, GuardSendsBack, SubmitSignIn,
       SignInFails, PageAnswers, PageFails, Reload
  <2> QED BY <2>1
<1>5. CASE SignOut(t) \/ BootFails(t)
  BY <1>5
<1> QED BY <1>1, <1>2, <1>3, <1>4, <1>5 DEF Tab, BootAnswers

\* In any number of tabs, a session ends and the stored token is cleared only for
\* the causes named.
THEOREM SignedOutForCauseOnly == TabSpec => SignedOutForCause
<1>1. TabTypeOK /\ RequestsUnderTheSession /\ (\A t \in Tabs : PageInv(t)) /\ [TabNext]_allVars
      => [SessionEndsForCause /\ TokenClearedForCause]_allVars
  BY SessionEnds, TokenCleared
<1> QED
  BY <1>1, TabTypeCorrect, SessionHoldsItsToken, PageInvariant, PTL
  DEF TabSpec, SignedOutForCause
=============================================================================
