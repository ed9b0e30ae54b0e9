------------------------------ MODULE AuditChain ------------------------------
(***************************************************************************)
(* The tamper-evident log (services/audit/hash_chain_logger.py): the       *)
(* threads that approve decisions append to it without a lock, an insider  *)
(* edits it, an auditor verifies it and may have a published head hash to  *)
(* compare with.                                                           *)
(*                                                                         *)
(* SHA-256 over the canonical bytes is idealised as injective: the hash of *)
(* an entry is the sequence of everything it commits to, its own contents  *)
(* appended to the hash it links to.                                       *)
(***************************************************************************)
EXTENDS Integers, Sequences, FiniteSets

CONSTANTS Approvers,  \* threads of the request pool
          Contents,   \* actor, action, entity and payload of an entry, and its timestamp
          MaxEntries, \* bound on the length of the log
          MaxEdits,   \* bound on the insider's edits
          Nothing     \* nothing published yet

ASSUME AuditAssumption == MaxEntries \in Nat /\ MaxEdits \in Nat

VARIABLES entries,   \* HashChainLog.entries
          pc,        \* where each approver is in append()
          seq,       \* its local `seq`
          prev,      \* its local `prev`
          edits,     \* history: the kinds of edit made, in order
          appended,  \* history: the contents append() was asked to log, in log order
          published  \* the log behind the last head hash an auditor was sent

auditVars == <<entries, pc, seq, prev, edits, appended, published>>

-----------------------------------------------------------------------------
(* The chain.                                                              *)

GenesisHash == <<>>

\* sha256(canonical_bytes(...))
EntryHash(s, content, previous) == Append(previous, <<s, content>>)

Hashes == Seq(Nat \X Contents)

Links == [sequence : Nat, content : Contents, previous : Hashes, hash : Hashes]

Entry(s, content, previous) ==
    [sequence |-> s, content |-> content, previous |-> previous,
     hash |-> EntryHash(s, content, previous)]

HeadHash(log) == IF log = <<>> THEN GenesisHash ELSE log[Len(log)].hash

\* The hash verify() holds in `prev` when it reaches entry i
Preceding(log, i) == IF i = 1 THEN GenesisHash ELSE log[i - 1].hash

Linked(log, i) == log[i].previous = Preceding(log, i)

Sealed(log, i) ==
    log[i].hash = EntryHash(log[i].sequence, log[i].content, log[i].previous)

\* verify() with one of its two comparisons missing
LinksOnly(log) == {i \in DOMAIN log : ~Linked(log, i)}

SealsOnly(log) == {i \in DOMAIN log : ~Sealed(log, i)}

Broken(log) == {i \in DOMAIN log : ~Linked(log, i) \/ ~Sealed(log, i)}

\* verify()[0]: the walk meets no broken link
Valid(log) == Broken(log) = {}

-----------------------------------------------------------------------------
AuditInit == /\ entries = <<>>
             /\ pc = [a \in Approvers |-> "idle"]
             /\ seq = [a \in Approvers |-> 0]
             /\ prev = [a \in Approvers |-> GenesisHash]
             /\ edits = <<>>
             /\ appended = <<>>
             /\ published = Nothing

\* seq = len(self.entries)
ReadLength(a) == /\ pc[a] = "idle"
                 /\ Len(entries) < MaxEntries
                 /\ seq' = [seq EXCEPT ![a] = Len(entries)]
                 /\ pc' = [pc EXCEPT ![a] = "head"]
                 /\ UNCHANGED <<entries, prev, edits, appended, published>>

\* prev = self.head_hash
ReadHead(a) == /\ pc[a] = "head"
               /\ prev' = [prev EXCEPT ![a] = HeadHash(entries)]
               /\ pc' = [pc EXCEPT ![a] = "append"]
               /\ UNCHANGED <<entries, seq, edits, appended, published>>

\* entry = AuditLogEntry(...); self.entries.append(entry)
AppendEntry(a, content) ==
    /\ pc[a] = "append"
    /\ entries' = Append(entries, Entry(seq[a], content, prev[a]))
    /\ appended' = Append(appended, content)
    /\ pc' = [pc EXCEPT ![a] = "idle"]
    /\ seq' = [seq EXCEPT ![a] = 0]
    /\ prev' = [prev EXCEPT ![a] = GenesisHash]
    /\ UNCHANGED <<edits, published>>

-----------------------------------------------------------------------------
(* The insider: rewrites what a past entry says, with or without its own   *)
(* hash, or rewrites a whole tail and recomputes it.                       *)

EditContent(i, content) ==
    /\ Len(edits) < MaxEdits
    /\ content # entries[i].content
    /\ entries' = [entries EXCEPT ![i].content = content]
    /\ edits' = Append(edits, "content")
    /\ UNCHANGED <<pc, seq, prev, appended, published>>

EditAndReseal(i, content) ==
    /\ Len(edits) < MaxEdits
    /\ content # entries[i].content
    /\ entries' = [entries EXCEPT ![i] = Entry(@.sequence, content, @.previous)]
    /\ edits' = Append(edits, "resealed")
    /\ UNCHANGED <<pc, seq, prev, appended, published>>

\* Drop entry i and what follows, and write one consistent entry instead
ForgeTail(i, content) ==
    /\ Len(edits) < MaxEdits
    /\ entries' = Append(SubSeq(entries, 1, i - 1),
                         Entry(i - 1, content, HeadHash(SubSeq(entries, 1, i - 1))))
    /\ edits' = Append(edits, "forged")
    /\ UNCHANGED <<pc, seq, prev, appended, published>>

\* "publish the head hash somewhere the attacker does not control": that of a
\* log that verifies
Publish == /\ entries # <<>> /\ Valid(entries)
           /\ published' = entries
           /\ UNCHANGED <<entries, pc, seq, prev, edits, appended>>

\* The log is in memory: a restart empties it.
AuditRestart == /\ entries' = <<>> /\ appended' = <<>> /\ edits' = <<>>
                /\ pc' = [a \in Approvers |-> "idle"]
                /\ seq' = [a \in Approvers |-> 0]
                /\ prev' = [a \in Approvers |-> GenesisHash]
                /\ UNCHANGED published

Approve(a) == ReadLength(a) \/ ReadHead(a) \/ \E c \in Contents : AppendEntry(a, c)

Insider == \E i \in DOMAIN entries, c \in Contents :
              EditContent(i, c) \/ EditAndReseal(i, c) \/ ForgeTail(i, c)

AuditNext == (\E a \in Approvers : Approve(a)) \/ Insider \/ Publish \/ AuditRestart

AuditSpec == AuditInit /\ [][AuditNext]_auditVars

-----------------------------------------------------------------------------
AuditTypeOK ==
    /\ entries \in Seq(Links)
    /\ pc \in [Approvers -> {"idle", "head", "append"}]
    /\ seq \in [Approvers -> Nat]
    /\ prev \in [Approvers -> Hashes]
    /\ edits \in Seq({"content", "resealed", "forged"})
    /\ appended \in Seq(Contents)
    /\ published = Nothing \/ published \in Seq(Links)

\* Two entries link to the same hash: approvals that overlapped in append().
Forked == \E i, j \in DOMAIN entries : i # j /\ entries[i].previous = entries[j].previous

\* verify() is exact, and the missing lock is all that can make it cry wolf.  As
\* long as no two approvals forked the log, what an insider who rewrites past
\* contents (and no hash) leaves behind is exactly what verify() finds broken:
\* every altered entry and no other, so the first one it names is the earliest
\* alteration, and a log nobody edited verifies.  The code says a spurious failure
\* "would look exactly like tampering".
EditsLocated ==
    ~Forked /\ (\A n \in DOMAIN edits : edits[n] = "content") =>
        Broken(entries) = {i \in DOMAIN entries : entries[i].content # appended[i]}

\* "Publish the head hash somewhere the attacker does not control": if the log
\* still verifies and still shows the published hash at that position, then
\* everything up to it is what it was, whatever was resealed or forged.
Anchored ==
    LET n == Len(published) IN
    /\ published # Nothing /\ Valid(published)
    /\ Valid(entries) /\ Len(entries) >= n
    /\ entries[n].hash = HeadHash(published)
    => SubSeq(entries, 1, n) = published
=============================================================================
