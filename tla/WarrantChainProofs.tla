-------------------------- MODULE WarrantChainProofs --------------------------
(***************************************************************************)
(* Proofs about the warrant chain: for any number of calls, warrants and   *)
(* rows, the chain and its anchors verify, and hold saved warrants only.   *)
(* The invariant does not look into what is hashed: what the Merkle tree   *)
(* adds are the theorems of MerkleProofs, at the end.                      *)
(***************************************************************************)
EXTENDS WarrantChain, MerkleProofs

Call(H) ==
    [pc : {"idle", "saved", "linking"}, warrant : Warrants \union {Genesis}, index : Nat,
     prev : H]

(* Rows and hashes have no set of all their values: some set holds those   *)
(* there are.                                                              *)
Shaped ==
    /\ \E R : chain \in Seq(R)
    /\ \E H : call \in [Calls -> Call(H)]
    /\ base \in [Warrants -> Status]
    /\ uniqueIds \in BOOLEAN
    /\ Len(chain) <= MaxChain
    /\ \A c \in Calls : call[c].pc = "idle" <=> call[c].warrant = Genesis

(* A call that has read the head is behind the chain, or holds its head.   *)
LinkedTo(rows, x) ==
    /\ x.index <= Len(rows)
    /\ x.pc = "linking" /\ x.index = Len(rows) => x.prev = HeadHash(rows)

(* What is being appended is saved already, and so is what was appended.   *)
Saved ==
    /\ \A c \in Calls : call[c].pc # "idle" => base[call[c].warrant] # Absent
    /\ \A i \in DOMAIN chain : chain[i].warrant_id \in Warrants
    /\ ChainedIsSaved

PrefixOf(rows, s) == \E n \in 1 .. Len(rows) : s = SubSeq(rows, 1, n)

(* Anchors are made of what the chain was once.                            *)
Anchored ==
    /\ anchoring # Nothing => PrefixOf(chain, anchoring)
    /\ \A anchor \in anchors : \E s : PrefixOf(chain, s) /\ anchor = Anchor(s)

ChainInv ==
    /\ Shaped
    /\ ChainVerifies
    /\ \A c \in Calls : LinkedTo(chain, call[c])
    /\ Saved
    /\ Anchored

-----------------------------------------------------------------------------
(***************************************************************************)
(* Lemmas about chains                                                     *)
(***************************************************************************)

(* In a chain that verifies, the next index is its length.                 *)
LEMMA IndexIsLength ==
    ASSUME NEW R, NEW rows \in Seq(R), VerifyChain(rows)
    PROVE  NextIndex(rows) = Len(rows)
BY DEF VerifyChain, NextIndex

(* The row that links to the head may follow it.                           *)
LEMMA AppendVerifies ==
    ASSUME NEW R, NEW rows \in Seq(R), VerifyChain(rows), NEW w
    PROVE  VerifyChain(Append(rows, Row(w, Len(rows), HeadHash(rows))))
<1>. DEFINE row == Row(w, Len(rows), HeadHash(rows))
            new == Append(rows, row)
<1>1. /\ row.chain_index = Len(rows)
      /\ row.content_hash = row.warrant_id
      /\ row.prev_hash = HeadHash(rows)
      /\ row.chain_hash = ComputeChainHash(row.content_hash, row.prev_hash)
  BY DEF Row
<1>. HIDE DEF row
<1>2. /\ DOMAIN new = 1 .. Len(rows) + 1
      /\ DOMAIN rows = 1 .. Len(rows)
      /\ \A i \in 1 .. Len(rows) : new[i] = rows[i]
      /\ new[Len(rows) + 1] = row
      /\ Len(rows) \in Nat
  OBVIOUS
<1>. HIDE DEF new
<1>3. ASSUME NEW i \in 1 .. Len(rows)
      PROVE  /\ new[i].chain_index = i - 1
             /\ new[i].content_hash = new[i].warrant_id
             /\ new[i].prev_hash = IF i = 1 THEN Genesis ELSE new[i - 1].chain_hash
             /\ new[i].chain_hash = ComputeChainHash(new[i].content_hash, new[i].prev_hash)
  BY <1>2 DEF VerifyChain
<1>4. HeadHash(rows) = IF Len(rows) + 1 = 1 THEN Genesis ELSE new[Len(rows)].chain_hash
  BY <1>2 DEF HeadHash
<1>5. ASSUME NEW i \in DOMAIN new
      PROVE  /\ new[i].chain_index = i - 1
             /\ new[i].content_hash = new[i].warrant_id
             /\ new[i].prev_hash = IF i = 1 THEN Genesis ELSE new[i - 1].chain_hash
             /\ new[i].chain_hash = ComputeChainHash(new[i].content_hash, new[i].prev_hash)
  <2>1. CASE i \in 1 .. Len(rows)
    BY <1>3, <2>1
  <2>2. CASE i = Len(rows) + 1
    <3>1. i - 1 = Len(rows) /\ new[i] = row
      BY <1>2, <2>2
    <3>. QED  BY <1>1, <1>4, <2>2, <3>1
  <2>. QED  BY <1>2, <2>1, <2>2
<1>6. VerifyChain(new)
  BY <1>5 DEF VerifyChain
<1>. QED  BY <1>6 DEF new, row

(* What was the beginning of a chain remains it.                           *)
LEMMA AppendKeepsPrefix ==
    ASSUME NEW R, NEW rows \in Seq(R), NEW row, NEW s, PrefixOf(rows, s)
    PROVE  PrefixOf(Append(rows, row), s)
<1>1. PICK n \in 1 .. Len(rows) : s = SubSeq(rows, 1, n)
  BY DEF PrefixOf
<1>2. rows \in Seq(R \union {row})
  OBVIOUS
<1>3. SubSeq(Append(rows, row), 1, n) = SubSeq(rows, 1, n) /\ Len(Append(rows, row)) = Len(rows) + 1
  BY <1>2
<1>. QED  BY <1>1, <1>3 DEF PrefixOf

(* An anchor of the beginning of a chain verifies against the chain.       *)
LEMMA PrefixVerifies ==
    ASSUME NEW R, NEW rows \in Seq(R), NEW s, PrefixOf(rows, s)
    PROVE  VerifyAgainstAnchor(rows, Anchor(s))
<1>1. PICK n \in 1 .. Len(rows) : s = SubSeq(rows, 1, n)
  BY DEF PrefixOf
<1>2. Len(s) = n
  BY <1>1
<1>3. Anchor(s).chain_length = Len(s)
  BY DEF Anchor
<1>. QED  BY <1>1, <1>2, <1>3 DEF VerifyAgainstAnchor

-----------------------------------------------------------------------------
(***************************************************************************)
(* The invariant                                                           *)
(***************************************************************************)

LEMMA ChainInit == Init => ChainInv
<1>. SUFFICES ASSUME Init PROVE ChainInv
  OBVIOUS
<1>1. chain \in Seq({}) /\ Len(chain) = 0 /\ DOMAIN chain = {}
  BY DEF Init
<1>2. call \in [Calls -> Call({Genesis})]
  BY DEF Init, Idle, Call
<1>3. Shaped
  BY <1>1, <1>2, ChainAssumption DEF Init, Shaped, Status, Idle
<1>4. ChainVerifies
  BY <1>1 DEF ChainVerifies, VerifyChain
<1>5. \A c \in Calls : LinkedTo(chain, call[c])
  BY <1>1 DEF Init, Idle, LinkedTo
<1>6. Saved
  BY <1>1 DEF Init, Idle, Saved, ChainedIsSaved
<1>7. Anchored
  BY DEF Init, Anchored
<1>. QED  BY <1>3, <1>4, <1>5, <1>6, <1>7 DEF ChainInv

(* A call that begins: its warrant is saved first.                         *)
LEMMA SaveKeeps ==
    ASSUME ChainInv, NEW c \in Calls, NEW w \in Warrants, NEW status \in Status \ {Absent},
           SaveWarrant(c, w, status), UNCHANGED <<chain, uniqueIds, anchorVars>>
    PROVE  ChainInv'
<1>. DEFINE x == [Idle EXCEPT !.pc = "saved", !.warrant = w]
<1>1. PICK R, H : chain \in Seq(R) /\ call \in [Calls -> Call(H)]
  BY DEF ChainInv, Shaped
<1>2. x \in Call(H \union {Genesis}) /\ x.pc = "saved" /\ x.warrant = w /\ x.index = 0
  BY DEF Idle, Call
<1>3. call' = [call EXCEPT ![c] = x] /\ base' = [base EXCEPT ![w] = status]
  BY DEF SaveWarrant
<1>4. call' \in [Calls -> Call(H \union {Genesis})]
  BY <1>1, <1>2, <1>3 DEF Call
<1>5. Shaped'
  BY <1>1, <1>2, <1>3, <1>4, ChainAssumption DEF ChainInv, Shaped
<1>6. \A d \in Calls : LinkedTo(chain, call[d])'
  BY <1>1, <1>2, <1>3 DEF ChainInv, LinkedTo
<1>7. Saved'
  BY <1>1, <1>2, <1>3 DEF ChainInv, Shaped, Saved, ChainedIsSaved, Call
<1>. QED  BY <1>5, <1>6, <1>7 DEF ChainInv, ChainVerifies, Anchored, anchorVars

(* A call that reads the head of the chain.                                *)
LEMMA GetLatestKeeps ==
    ASSUME ChainInv, NEW c \in Calls, GetLatest(c)
    PROVE  ChainInv'
<1>. DEFINE x == [call[c] EXCEPT !.pc = "linking", !.index = NextIndex(chain),
                                 !.prev = HeadHash(chain)]
<1>1. PICK R, H : chain \in Seq(R) /\ call \in [Calls -> Call(H)]
  BY DEF ChainInv, Shaped
<1>2. NextIndex(chain) = Len(chain) /\ Len(chain) \in Nat
  BY <1>1, IndexIsLength DEF ChainInv, ChainVerifies
<1>3. /\ x \in Call(H \union {HeadHash(chain)})
      /\ x.pc = "linking" /\ x.warrant = call[c].warrant /\ x.index = Len(chain)
      /\ x.prev = HeadHash(chain)
  BY <1>1, <1>2 DEF Call
<1>4. call' = [call EXCEPT ![c] = x]
  BY <1>1 DEF GetLatest
<1>5. call' \in [Calls -> Call(H \union {HeadHash(chain)})]
  BY <1>1, <1>3, <1>4 DEF Call
<1>6. call[c].pc = "saved" /\ UNCHANGED <<storeVars, chain, anchorVars>>
  BY DEF GetLatest
<1>7. Shaped'
  BY <1>1, <1>3, <1>4, <1>5, <1>6 DEF ChainInv, Shaped, storeVars
<1>8. \A d \in Calls : LinkedTo(chain, call[d])'
  BY <1>1, <1>2, <1>3, <1>4, <1>6 DEF ChainInv, LinkedTo, HeadHash
<1>9. Saved'
  BY <1>1, <1>3, <1>4, <1>6 DEF ChainInv, Saved, ChainedIsSaved, storeVars
<1>. QED  BY <1>6, <1>7, <1>8, <1>9 DEF ChainInv, ChainVerifies, Anchored, anchorVars

(* The calls, when one of them ends.                                       *)
LEMMA CallEnds ==
    ASSUME NEW H, call \in [Calls -> Call(H)], NEW c \in Calls,
           call' = [call EXCEPT ![c] = Idle]
    PROVE  /\ call' \in [Calls -> Call(H \union {Genesis})]
           /\ \A d \in Calls : call'[d] = Idle \/ call'[d] = call[d]
           /\ Idle.pc = "idle" /\ Idle.warrant = Genesis /\ Idle.index = 0
BY DEF Idle, Call

(* A call that appends: every other that has read the head is behind.      *)
LEMMA AppendKeeps ==
    ASSUME ChainInv, NEW c \in Calls, AppendWarrant(c)
    PROVE  ChainInv'
<1>. DEFINE row == Row(call[c].warrant, Len(chain), HeadHash(chain))
<1>1. PICK R, H : chain \in Seq(R) /\ call \in [Calls -> Call(H)]
  BY DEF ChainInv, Shaped
<1>2. /\ call[c].pc = "linking"
      /\ call[c].index = Len(chain)
      /\ Len(chain) < MaxChain
      /\ chain' = Append(chain, Row(call[c].warrant, call[c].index, call[c].prev))
      /\ call' = [call EXCEPT ![c] = Idle]
      /\ UNCHANGED <<storeVars, anchorVars>>
  BY DEF AppendWarrant, InsertRow
<1>3. chain' = Append(chain, row)
  BY <1>2 DEF ChainInv, LinkedTo
<1>4. /\ call' \in [Calls -> Call(H \union {Genesis})]
      /\ \A d \in Calls : call'[d] = Idle \/ call'[d] = call[d]
      /\ Idle.pc = "idle" /\ Idle.warrant = Genesis /\ Idle.index = 0
  BY <1>1, <1>2, CallEnds
<1>5. /\ row.warrant_id = call[c].warrant
      /\ call[c].warrant \in Warrants
      /\ base[call[c].warrant] # Absent
  BY <1>1, <1>2 DEF Row, ChainInv, Shaped, Saved, Call
<1>6. ChainVerifies'
  BY <1>1, <1>3, AppendVerifies DEF ChainInv, ChainVerifies
<1>. HIDE DEF row
<1>7. /\ chain' \in Seq(R \union {row})
      /\ Len(chain') = Len(chain) + 1
      /\ Len(chain) \in Nat
      /\ DOMAIN chain' = 1 .. Len(chain) + 1
      /\ DOMAIN chain = 1 .. Len(chain)
      /\ \A i \in DOMAIN chain : chain'[i] = chain[i]
      /\ chain'[Len(chain) + 1] = row
  BY <1>1, <1>3
<1>8. Shaped'
  <2>1. Len(chain') <= MaxChain
    BY <1>2, <1>7, ChainAssumption
  <2>2. \A d \in Calls : call'[d].pc = "idle" <=> call'[d].warrant = Genesis
    BY <1>4 DEF ChainInv, Shaped
  <2>3. base' \in [Warrants -> Status] /\ uniqueIds' \in BOOLEAN
    BY <1>2 DEF ChainInv, Shaped, storeVars
  <2>. QED  BY <1>4, <1>7, <2>1, <2>2, <2>3 DEF Shaped
<1>9. \A d \in Calls : LinkedTo(chain, call[d])'
  <2>. SUFFICES ASSUME NEW d \in Calls PROVE LinkedTo(chain', call'[d])
    OBVIOUS
  <2>1. call[d].index \in Nat /\ call[d].index <= Len(chain)
    BY <1>1 DEF ChainInv, LinkedTo, Call
  <2>. QED  BY <1>4, <1>7, <2>1 DEF LinkedTo
<1>10. Saved'
  <2>1. \A d \in Calls : call'[d].pc # "idle" => base'[call'[d].warrant] # Absent
    BY <1>2, <1>4 DEF ChainInv, Saved, storeVars
  <2>2. \A i \in DOMAIN chain' : /\ chain'[i].warrant_id \in Warrants
                                /\ base'[chain'[i].warrant_id] # Absent
    BY <1>2, <1>5, <1>7 DEF ChainInv, Saved, ChainedIsSaved, storeVars
  <2>. QED  BY <2>1, <2>2 DEF Saved, ChainedIsSaved
<1>11. Anchored'
  BY <1>1, <1>2, <1>3, AppendKeepsPrefix DEF ChainInv, Anchored, anchorVars
<1>. QED  BY <1>6, <1>8, <1>9, <1>10, <1>11 DEF ChainInv

LEMMA ChainNext == ChainInv /\ [Next]_vars => ChainInv'
<1>. SUFFICES ASSUME ChainInv, [Next]_vars PROVE ChainInv'
  OBVIOUS
<1>1. PICK R, H : chain \in Seq(R) /\ call \in [Calls -> Call(H)]
  BY DEF ChainInv, Shaped
<1>2. ASSUME NEW c \in Calls, NEW w \in Warrants, Issue(c, w) \/ Invalidate(c, w) PROVE ChainInv'
  BY <1>2, SaveKeeps DEF Issue, Invalidate, Status, Absent
<1>3. ASSUME NEW c \in Calls, GetLatest(c) PROVE ChainInv'
  BY <1>3, GetLatestKeeps
<1>4. ASSUME NEW c \in Calls, AppendWarrant(c) PROVE ChainInv'
  BY <1>4, AppendKeeps
<1>5. ASSUME NEW c \in Calls, AppendFails(c) PROVE ChainInv'
  <2>1. /\ call' \in [Calls -> Call(H \union {Genesis})]
        /\ \A d \in Calls : call'[d] = Idle \/ call'[d] = call[d]
        /\ Idle.pc = "idle" /\ Idle.warrant = Genesis /\ Idle.index = 0
    BY <1>1, <1>5, CallEnds DEF AppendFails
  <2>2. UNCHANGED <<storeVars, chain, anchorVars>> /\ Len(chain) \in Nat
    BY <1>1, <1>5 DEF AppendFails
  <2>3. Shaped'
    BY <1>1, <2>1, <2>2 DEF ChainInv, Shaped, storeVars
  <2>4. \A d \in Calls : LinkedTo(chain, call[d])'
    BY <2>1, <2>2 DEF ChainInv, LinkedTo
  <2>5. Saved'
    BY <2>1, <2>2 DEF ChainInv, Saved, ChainedIsSaved, storeVars
  <2>. QED  BY <2>2, <2>3, <2>4, <2>5 DEF ChainInv, ChainVerifies, Anchored, anchorVars
<1>6. CASE ReadChain \/ SaveAnchor
  <2>1. UNCHANGED <<storeVars, chain, call>>
    BY <1>6 DEF ReadChain, SaveAnchor
  <2>2. Anchored'
    <3>1. CASE ReadChain
      <4>1. chain = SubSeq(chain, 1, Len(chain)) /\ Len(chain) \in 1 .. Len(chain)
        BY <1>1, <3>1 DEF ReadChain
      <4>2. PrefixOf(chain, chain)
        BY <4>1 DEF PrefixOf
      <4>. QED  BY <3>1, <4>2 DEF ReadChain, ChainInv, Anchored
    <3>2. CASE SaveAnchor
      BY <3>2 DEF SaveAnchor, ChainInv, Anchored
    <3>. QED  BY <1>6, <3>1, <3>2
  <2>. QED  BY <2>1, <2>2 DEF ChainInv, Shaped, ChainVerifies, LinkedTo, Saved, ChainedIsSaved, storeVars
<1>7. CASE UNCHANGED vars
  BY <1>7 DEF vars, storeVars, anchorVars, ChainInv, Shaped, ChainVerifies, LinkedTo, Saved,
              ChainedIsSaved, Anchored
<1>. QED  BY <1>2, <1>3, <1>4, <1>5, <1>6, <1>7 DEF Next

LEMMA ChainInvariant == Spec => []ChainInv
BY ChainInit, ChainNext, PTL DEF Spec

-----------------------------------------------------------------------------
(***************************************************************************)
(* The theorems                                                            *)
(***************************************************************************)

(* Rows, calls and warrants stay of their types, within the bound.         *)
THEOREM TypeCorrect == Spec => []TypeOK
<1>1. ChainInv => TypeOK
  BY DEF ChainInv, Shaped, LinkedTo, Call, TypeOK
<1>. QED  BY <1>1, ChainInvariant, PTL

(* However the appends of overlapping calls interleave, the chain passes   *)
(* verifyChain.                                                            *)
THEOREM ChainAlwaysVerifies == Spec => []ChainVerifies
<1>1. ChainInv => ChainVerifies
  BY DEF ChainInv
<1>. QED  BY <1>1, ChainInvariant, PTL

(* Every anchor ever taken verifies against the chain as it is now.        *)
THEOREM AnchorsAlwaysHold == Spec => []AnchorsHold
<1>1. ChainInv => AnchorsHold
  <2>. SUFFICES ASSUME ChainInv, NEW anchor \in anchors
                PROVE  VerifyAgainstAnchor(chain, anchor)
    BY DEF AnchorsHold
  <2>1. PICK R : chain \in Seq(R)
    BY DEF ChainInv, Shaped
  <2>2. PICK s : PrefixOf(chain, s) /\ anchor = Anchor(s)
    BY DEF ChainInv, Anchored
  <2>. QED  BY <2>1, <2>2, PrefixVerifies
<1>. QED  BY <1>1, ChainInvariant, PTL

(* What is in the chain is in the base adapter.                            *)
THEOREM ChainedAlwaysSaved == Spec => []ChainedIsSaved
<1>1. ChainInv => ChainedIsSaved
  BY DEF ChainInv, Saved
<1>. QED  BY <1>1, ChainInvariant, PTL

(* For every warrant of the chain, however long, the generated proof       *)
(* verifies its content against the root, and verifies no other.           *)
THEOREM ProofsAlwaysVerify == Spec => []ProofsVerify
<1>1. ChainInv => ProofsVerify
  <2>. SUFFICES ASSUME ChainInv, NEW i \in DOMAIN chain, NEW w \in Warrants
                PROVE  LET leaves == Contents(chain)
                       IN  VerifyMerkleProof(w, BuildMerkleProofPath(leaves, i - 1),
                                             ComputeMerkleRoot(leaves)) <=> w = leaves[i]
    BY DEF ProofsVerify
  <2>1. PICK R : chain \in Seq(R)
    BY DEF ChainInv, Shaped
  <2>. DEFINE C == {chain[j].content_hash : j \in DOMAIN chain}
  <2>2. Contents(chain) \in Seq(C) /\ DOMAIN Contents(chain) = DOMAIN chain
    BY <2>1 DEF Contents
  <2>. HIDE DEF C
  <2>. QED  BY <2>2, ProofOfLeaf
<1>. QED  BY <1>1, ChainInvariant, PTL

(* What verifyAgainstAnchor shows: two chains that verify against one      *)
(* anchor agree on every content up to its length.                         *)
THEOREM AnchorBindsContents ==
    ASSUME NEW R, NEW rows \in Seq(R), NEW T, NEW others \in Seq(T), NEW anchor,
           anchor.chain_length \in Nat \ {0},
           VerifyAgainstAnchor(rows, anchor), VerifyAgainstAnchor(others, anchor)
    PROVE  \A i \in 1 .. anchor.chain_length : rows[i].content_hash = others[i].content_hash
<1>. DEFINE n == anchor.chain_length
            Cut(s) == SubSeq(s, 1, n)
<1>1. ASSUME NEW Q, NEW s \in Seq(Q), VerifyAgainstAnchor(s, anchor)
      PROVE  /\ \E C : Contents(Cut(s)) \in Seq(C)
             /\ Len(Contents(Cut(s))) = n
             /\ \A i \in 1 .. n : Contents(Cut(s))[i] = s[i].content_hash
             /\ ComputeMerkleRoot(Contents(Cut(s))) = anchor.merkle_root
  <2>1. Len(s) >= n /\ Anchor(Cut(s)) = anchor
    BY <1>1 DEF VerifyAgainstAnchor
  <2>2. Len(s) \in Nat
    OBVIOUS
  <2>3. Cut(s) \in Seq(Q) /\ Len(Cut(s)) = n /\ \A i \in 1 .. n : Cut(s)[i] = s[i]
    BY <2>1, <2>2
  <2>. DEFINE V == {Cut(s)[i].content_hash : i \in 1 .. n}
  <2>. HIDE DEF Cut
  <2>4. Contents(Cut(s)) = [i \in 1 .. n |-> Cut(s)[i].content_hash]
    BY <2>3 DEF Contents
  <2>5. Contents(Cut(s)) \in [1 .. n -> V]
    BY <2>4
  <2>. HIDE DEF V
  <2>6. Contents(Cut(s)) \in Seq(V) /\ Len(Contents(Cut(s))) = n
    <3>1. \A m \in Nat : \A t \in [1 .. m -> V] : t \in Seq(V) /\ Len(t) = m
      OBVIOUS
    <3>. QED  BY <2>5, <3>1
  <2>7. ComputeMerkleRoot(Contents(Cut(s))) = anchor.merkle_root
    <3>1. Anchor(Cut(s)).merkle_root = ComputeMerkleRoot(Contents(Cut(s)))
      BY DEF Anchor
    <3>. QED  BY <2>1, <3>1
  <2>8. \E C : Contents(Cut(s)) \in Seq(C)
    BY <2>6
  <2>9. \A i \in 1 .. n : Contents(Cut(s))[i] = s[i].content_hash
    BY <2>3, <2>4
  <2>. QED  BY <2>6, <2>7, <2>8, <2>9
<1>2. PICK V : Contents(Cut(rows)) \in Seq(V)
  BY <1>1
<1>3. PICK W : Contents(Cut(others)) \in Seq(W)
  BY <1>1
<1>4. /\ Len(Contents(Cut(rows))) = n
      /\ \A i \in 1 .. n : Contents(Cut(rows))[i] = rows[i].content_hash
      /\ ComputeMerkleRoot(Contents(Cut(rows))) = anchor.merkle_root
  BY <1>1
<1>5. /\ Len(Contents(Cut(others))) = n
      /\ \A i \in 1 .. n : Contents(Cut(others))[i] = others[i].content_hash
      /\ ComputeMerkleRoot(Contents(Cut(others))) = anchor.merkle_root
  BY <1>1
<1>. HIDE DEF Cut
<1>6. Contents(Cut(rows)) # <<>>
  BY <1>4
<1>7. Contents(Cut(rows)) = Contents(Cut(others))
  BY <1>2, <1>3, <1>4, <1>5, <1>6, RootBindsLeaves
<1>. QED  BY <1>4, <1>5, <1>7
=============================================================================
