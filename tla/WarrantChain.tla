----------------------------- MODULE WarrantChain -----------------------------
(***************************************************************************)
(* Warrants saved through ChainedWarrantAdapter: the warrant goes to the   *)
(* base adapter, then MerkleWarrantChain.append reads the head of the      *)
(* tenant's chain and, after an await, inserts the next row.  Calls        *)
(* overlap; the store refuses a second row of an index, and the warrant    *)
(* then stays out of the chain.  Anchors are taken of the chain meanwhile. *)
(*                                                                         *)
(* A content hash is the warrant it is of (the status of a warrant is not  *)
(* hashed), a chain hash is the pair it is of.                             *)
(***************************************************************************)
EXTENDS MerkleTree, FiniteSets

CONSTANTS
    Warrants,
    Genesis,    \* prev_hash of the first warrant: null
    Calls,      \* overlapping calls of saveWarrant, by issue and by invalidate
    MaxChain,   \* bound: rows of the chain
    MaxAnchors  \* bound: anchors taken of it

ASSUME ChainAssumption ==
    /\ Genesis \notin Warrants
    /\ MaxChain \in Nat
    /\ MaxAnchors \in Nat

VARIABLES
    base,        \* the warrants the base adapter holds, with their status
    chain,       \* the rows of the tenant in the order of chain_index
    uniqueIds,   \* PostgresWarrantChainStore: warrant_id is UNIQUE; the one in memory allows two
    call,
    anchors,
    anchoring    \* the chain that createAnchor has read and not yet anchored

storeVars == <<base, uniqueIds>>
anchorVars == <<anchors, anchoring>>
vars == <<storeVars, chain, call, anchorVars>>

Absent == "absent"
Status == {Absent, "issued", "invalidated"}
Nothing == <<>>

Idle == [pc |-> "idle", warrant |-> Genesis, index |-> 0, prev |-> Genesis]

\* append, once it has read the head
ComputeChainHash(content, prev) == <<"link", content, prev>>

Row(w, index, prev) ==
    [warrant_id |-> w, chain_index |-> index, content_hash |-> w, prev_hash |-> prev,
     chain_hash |-> ComputeChainHash(w, prev)]

Contents(rows) == [i \in DOMAIN rows |-> rows[i].content_hash]

\* Mutant: the index counts from 1.
IndexAfter(rows) == Len(rows) + 1

NextIndex(rows) == IF rows = <<>> THEN 0 ELSE rows[Len(rows)].chain_index + 1

HeadHash(rows) == IF rows = <<>> THEN Genesis ELSE rows[Len(rows)].chain_hash

Init ==
    /\ base = [w \in Warrants |-> Absent]
    /\ chain = <<>>
    /\ uniqueIds \in BOOLEAN
    /\ call = [c \in Calls |-> Idle]
    /\ anchors = {}
    /\ anchoring = Nothing

-----------------------------------------------------------------------------
\* Mutant: the append goes on although the base adapter has not saved.
AppendOnly(c, w, status) ==
    /\ call[c] = Idle
    /\ call' = [call EXCEPT ![c] = [Idle EXCEPT !.pc = "saved", !.warrant = w]]
    /\ UNCHANGED base

\* saveWarrant up to chain.append; when the base adapter throws, nothing happens.
SaveWarrant(c, w, status) ==
    /\ call[c] = Idle
    /\ base' = [base EXCEPT ![w] = status]
    /\ call' = [call EXCEPT ![c] = [Idle EXCEPT !.pc = "saved", !.warrant = w]]

\* Warrant.issue, from its saveWarrant
Issue(c, w) ==
    /\ base[w] = Absent
    /\ \A d \in Calls : call[d].warrant # w
    /\ SaveWarrant(c, w, "issued")
    /\ UNCHANGED <<chain, uniqueIds, anchorVars>>

\* Warrant.invalidate: it saves the warrant again, whatever its status
Invalidate(c, w) ==
    /\ base[w] # Absent
    /\ SaveWarrant(c, w, "invalidated")
    /\ UNCHANGED <<chain, uniqueIds, anchorVars>>

\* append: getLatest
GetLatest(c) ==
    /\ call[c].pc = "saved"
    /\ call' = [call EXCEPT ![c].pc = "linking", ![c].index = NextIndex(chain),
                            ![c].prev = HeadHash(chain)]
    /\ UNCHANGED <<storeVars, chain, anchorVars>>

\* Mutant: a row of the index is overwritten.
UpsertRow(c) ==
    LET row == Row(call[c].warrant, call[c].index, call[c].prev)
    IN  chain' = IF row.chain_index < Len(chain)
                 THEN [chain EXCEPT ![row.chain_index + 1] = row]
                 ELSE Append(chain, row)

\* Mutant: no constraint on the index.
InsertAnyway(c) == chain' = Append(chain, Row(call[c].warrant, call[c].index, call[c].prev))

\* appendWarrant, with the constraint of both stores on the index and the one of Postgres on
\* the id.
InsertRow(c) ==
    /\ call[c].index = Len(chain)
    /\ uniqueIds => \A i \in DOMAIN chain : chain[i].warrant_id # call[c].warrant
    /\ chain' = Append(chain, Row(call[c].warrant, call[c].index, call[c].prev))

AppendWarrant(c) ==
    /\ call[c].pc = "linking"
    /\ Len(chain) < MaxChain
    /\ InsertRow(c)
    /\ call' = [call EXCEPT ![c] = Idle]
    /\ UNCHANGED <<storeVars, anchorVars>>

\* The store refuses the row, or fails: saveWarrant reports it and returns.
AppendFails(c) ==
    /\ call[c].pc \in {"saved", "linking"}
    /\ call' = [call EXCEPT ![c] = Idle]
    /\ UNCHANGED <<storeVars, chain, anchorVars>>

\* createAnchor: getChain, which throws when it is empty
ReadChain ==
    /\ anchoring = Nothing
    /\ Cardinality(anchors) < MaxAnchors
    /\ chain # <<>>
    /\ anchoring' = chain
    /\ UNCHANGED <<storeVars, chain, call, anchors>>

Anchor(rows) ==
    [chain_root |-> rows[Len(rows)].chain_hash,
     merkle_root |-> ComputeMerkleRoot(Contents(rows)),
     chain_length |-> Len(rows)]

\* createAnchor: saveAnchor
SaveAnchor ==
    /\ anchoring # Nothing
    /\ anchors' = anchors \union {Anchor(anchoring)}
    /\ anchoring' = Nothing
    /\ UNCHANGED <<storeVars, chain, call>>

Next ==
    \/ \E c \in Calls :
          \/ \E w \in Warrants : Issue(c, w) \/ Invalidate(c, w)
          \/ GetLatest(c) \/ AppendWarrant(c) \/ AppendFails(c)
    \/ ReadChain
    \/ SaveAnchor

Spec == Init /\ [][Next]_vars

-----------------------------------------------------------------------------
(* What the chain's readers compute *)

\* verifyChain
VerifyChain(rows) ==
    \A i \in DOMAIN rows :
        /\ rows[i].chain_index = i - 1
        /\ rows[i].content_hash = rows[i].warrant_id
        /\ rows[i].prev_hash = IF i = 1 THEN Genesis ELSE rows[i - 1].chain_hash
        /\ rows[i].chain_hash = ComputeChainHash(rows[i].content_hash, rows[i].prev_hash)

\* verifyAgainstAnchor
VerifyAgainstAnchor(rows, anchor) ==
    /\ Len(rows) >= anchor.chain_length
    /\ Anchor(SubSeq(rows, 1, anchor.chain_length)) = anchor

-----------------------------------------------------------------------------
(* Properties *)

TypeOK ==
    /\ base \in [Warrants -> Status]
    /\ uniqueIds \in BOOLEAN
    /\ Len(chain) <= MaxChain
    /\ \A c \in Calls :
          /\ call[c].pc \in {"idle", "saved", "linking"}
          /\ call[c].pc = "idle" <=> call[c].warrant = Genesis
          /\ call[c].index <= Len(chain)

\* "Append-only ... Each warrant's hash includes the previous warrant's hash": however the
\* appends of overlapping calls interleave, fail and are refused, the chain passes
\* verifyChain.
ChainVerifies == VerifyChain(chain)

\* An anchor, taken while warrants are appended, still verifies against the chain, and its
\* root is not changed by what was appended since.
AnchorsHold == \A anchor \in anchors : VerifyAgainstAnchor(chain, anchor)

\* What is in the chain is in the base adapter: a third party that finds a warrant in the
\* chain can load it.
ChainedIsSaved == \A i \in DOMAIN chain : base[chain[i].warrant_id] # Absent

\* For every warrant of the chain, the generated proof verifies its content against the
\* root, and verifies no other.
ProofsVerify ==
    LET leaves == Contents(chain)
        root == ComputeMerkleRoot(leaves)
    IN  \A i \in DOMAIN chain :
            LET path == BuildMerkleProofPath(leaves, i - 1)
            IN  \A w \in Warrants : VerifyMerkleProof(w, path, root) <=> w = leaves[i]
=============================================================================
