----------------------- MODULE WarrantDelegationProofs -----------------------
(***************************************************************************)
(* Proofs about delegated warrants: for trees of any depth and size, any   *)
(* requests and any number of overlapping revocations, scope, limit and    *)
(* expiry only shrink downwards, deny lists only grow, and a revocation    *)
(* that has returned has reached all that was below.                       *)
(*                                                                         *)
(* The lemmas about a step are about two stores, W before and V after it.  *)
(***************************************************************************)
EXTENDS WarrantDelegation, TLAPS

CallType ==
    [pc : {"idle", "saved", "cascading", "done"}, warrant : Nat, frames : Seq(SUBSET Nat),
     before : Nat]

Shaped ==
    /\ clock \in 0 .. MaxTime
    /\ root \in Roots
    /\ warrants \in Seq(Warrant)
    /\ call \in [Calls -> CallType]

OfIn(rt, W, p) == IF p = 0 THEN rt ELSE W[p]
AboveIn(W, p) == IF p = 0 THEN {0} ELSE {p} \union W[p].above
ChainIn(W, w) == {w} \union (W[w].above \ {0})

(* What a warrant has of those above it: delegate compares it with its     *)
(* parent alone, and the rest follows link by link.                        *)
Placed(W, w) ==
    /\ W[w].parent \in 0 .. w - 1
    /\ W[w].above = AboveIn(W, W[w].parent)
    /\ W[w].above \subseteq 0 .. w - 1
    /\ 0 \in W[w].above
    /\ \A p \in W[w].above : \E e \in ChainIn(W, w) : W[e].parent = p

Inherits(rt, W, w) ==
    /\ \A p \in W[w].above : /\ W[w].expires <= OfIn(rt, W, p).expires
                             /\ W[w].limit <= OfIn(rt, W, p).limit
                             /\ OfIn(rt, W, p).deny \subseteq W[w].deny
    /\ ScopeReduced(OfIn(rt, W, W[w].parent), W[w])

Tree(rt, W) ==
    /\ W \in Seq(Warrant)
    /\ \A w \in 1 .. Len(W) : Placed(W, w) /\ Inherits(rt, W, w)

(* A frame of the cascade has yet to come to a warrant or to one above it. *)
Pending(W, frames, d) == \E k \in DOMAIN frames : frames[k] \cap ChainIn(W, d) # {}

(* While a call cascades, each warrant that was below when it began is     *)
(* revoked or still pending; with the last frame gone, none is pending.    *)
Reaches(W, x) ==
    /\ \A k \in DOMAIN x.frames : x.frames[k] \subseteq 1 .. Len(W)
    /\ x.pc # "idle" => /\ x.warrant \in 1 .. Len(W)
                        /\ W[x.warrant].status # "active"
                        /\ x.before <= Len(W)
    /\ x.pc \in {"cascading", "done"} =>
          \A d \in 1 .. x.before : x.warrant \in ChainIn(W, d) =>
              W[d].status # "active" \/ Pending(W, x.frames, d)
    /\ x.pc = "done" => x.frames = <<>>

DelegationInv ==
    /\ Shaped
    /\ Tree(root, warrants)
    /\ \A c \in Calls : Reaches(warrants, call[c])

-----------------------------------------------------------------------------
(***************************************************************************)
(* Lemmas about parents and frames                                         *)
(***************************************************************************)

LEMMA StoreTyped ==
    ASSUME NEW W \in Seq(Warrant)
    PROVE  /\ Len(W) \in Nat
           /\ DOMAIN W = 1 .. Len(W)
           /\ \A w \in 1 .. Len(W) : /\ W[w] \in Warrant
                                     /\ W[w].above \subseteq Nat
                                     /\ W[w].depth \in Nat
                                     /\ W[w].scope \subseteq Actions
                                     /\ W[w].deny \subseteq Actions
                                     /\ W[w].limit \in Limit
                                     /\ W[w].expires \in Nat
                                     /\ W[w].status \in Status
<1>1. /\ Len(W) \in Nat
      /\ DOMAIN W = 1 .. Len(W)
      /\ \A w \in 1 .. Len(W) : W[w] \in Warrant
  OBVIOUS
<1>2. \A x \in Warrant : /\ x.above \subseteq Nat
                         /\ x.depth \in Nat
                         /\ x.scope \subseteq Actions
                         /\ x.deny \subseteq Actions
                         /\ x.limit \in Limit
                         /\ x.expires \in Nat
                         /\ x.status \in Status
  BY DelegationAssumption DEF Warrant
<1>. QED  BY <1>1, <1>2

(* What a parent may be: its depth, lists, limit and expiry have types.    *)
LEMMA ParentTyped ==
    ASSUME Shaped, NEW p \in 0 .. Len(warrants)
    PROVE  /\ OfIn(root, warrants, p).depth \in Nat
           /\ OfIn(root, warrants, p).scope \subseteq Actions
           /\ OfIn(root, warrants, p).deny \subseteq Actions
           /\ OfIn(root, warrants, p).limit \in Limit
           /\ OfIn(root, warrants, p).expires \in Nat
<1>1. CASE p = 0
  <2>1. OfIn(root, warrants, p) \in
            [depth : {0}, scope : SUBSET Actions, deny : SUBSET Actions, limit : Limit,
             expires : Nat]
    BY <1>1, DelegationAssumption DEF Shaped, OfIn
  <2>. QED  BY <2>1
<1>2. CASE p # 0
  BY <1>2, StoreTyped DEF Shaped, OfIn
<1>. QED  BY <1>1, <1>2

LEMMA FramesPop ==
    ASSUME NEW frames \in Seq(SUBSET Nat), frames # <<>>
    PROVE  /\ Pop(frames) \in Seq(SUBSET Nat)
           /\ Len(Pop(frames)) = Len(frames) - 1
           /\ DOMAIN Pop(frames) = 1 .. Len(frames) - 1
           /\ \A k \in 1 .. Len(frames) - 1 : Pop(frames)[k] = frames[k]
           /\ Len(frames) = 1 => Pop(frames) = <<>>
           /\ DOMAIN frames = 1 .. Len(frames)
           /\ Len(frames) \in Nat \ {0}
           /\ Top(frames) \subseteq Nat
<1>1. Top(frames) \subseteq Nat
  <2>1. Len(frames) \in DOMAIN frames
    OBVIOUS
  <2>2. frames[Len(frames)] \in SUBSET Nat
    BY <2>1
  <2>. QED  BY <2>2 DEF Top
<1>2. DOMAIN frames = 1 .. Len(frames) /\ Len(frames) \in Nat \ {0}
  OBVIOUS
<1>3. Pop(frames) \in Seq(SUBSET Nat) /\ Len(Pop(frames)) = Len(frames) - 1
  BY <1>2 DEF Pop
<1>4. DOMAIN Pop(frames) = 1 .. Len(frames) - 1
  BY <1>3
<1>5. \A k \in 1 .. Len(frames) - 1 : Pop(frames)[k] = frames[k]
  BY <1>2 DEF Pop
<1>6. Len(frames) = 1 => Pop(frames) = <<>>
  BY <1>3
<1>. QED  BY <1>1, <1>2, <1>3, <1>4, <1>5, <1>6

(* The frames of a cascade, after a child.                                 *)
LEMMA FramesDescend ==
    ASSUME NEW frames \in Seq(SUBSET Nat), frames # <<>>, NEW d, ChildrenOf(d) \subseteq Nat
    PROVE  LET new == Descend(frames, d) IN
           /\ new \in Seq(SUBSET Nat)
           /\ DOMAIN new = 1 .. Len(frames) + 1
           /\ \A k \in 1 .. Len(frames) - 1 : new[k] = frames[k]
           /\ new[Len(frames)] = Top(frames) \ {d}
           /\ new[Len(frames) + 1] = ChildrenOf(d)
<1>. DEFINE n == Len(frames)
            rest == Top(frames) \ {d}
            popped == Pop(frames)
            pushed == Append(popped, rest)
<1>1. /\ n \in Nat \ {0}
      /\ rest \in SUBSET Nat
      /\ popped \in Seq(SUBSET Nat)
      /\ Len(popped) = n - 1
      /\ \A k \in 1 .. n - 1 : popped[k] = frames[k]
  BY FramesPop
<1>. HIDE DEF rest, popped, n
<1>2. /\ pushed \in Seq(SUBSET Nat)
      /\ Len(pushed) = n
      /\ pushed[n] = rest
      /\ \A k \in 1 .. n - 1 : pushed[k] = frames[k]
  BY <1>1
<1>. HIDE DEF pushed
<1>3. /\ Append(pushed, ChildrenOf(d)) \in Seq(SUBSET Nat)
      /\ DOMAIN Append(pushed, ChildrenOf(d)) = 1 .. n + 1
      /\ Append(pushed, ChildrenOf(d))[n + 1] = ChildrenOf(d)
      /\ \A k \in 1 .. n : Append(pushed, ChildrenOf(d))[k] = pushed[k]
  BY <1>1, <1>2
<1>4. Descend(frames, d) = Append(pushed, ChildrenOf(d))
  BY DEF Descend, pushed, popped, rest
<1>. QED  BY <1>1, <1>2, <1>3, <1>4 DEF n, rest

-----------------------------------------------------------------------------
(***************************************************************************)
(* The tree                                                                *)
(***************************************************************************)

(* It grows at its leaves, and no warrant becomes active again.            *)
Grows(W, V) ==
    /\ Len(W) <= Len(V)
    /\ \A d \in 1 .. Len(W) : /\ V[d].parent = W[d].parent
                              /\ V[d].above = W[d].above
                              /\ V[d].scope = W[d].scope
                              /\ V[d].deny = W[d].deny
                              /\ V[d].limit = W[d].limit
                              /\ V[d].expires = W[d].expires
                              /\ W[d].status # "active" => V[d].status # "active"

(* What was in the tree is placed in it and inherits as before.            *)
LEMMA TreeGrows ==
    ASSUME NEW rt, NEW W, NEW V \in Seq(Warrant), Tree(rt, W), Grows(W, V), NEW d \in 1 .. Len(W)
    PROVE  ChainIn(V, d) = ChainIn(W, d) /\ Placed(V, d) /\ Inherits(rt, V, d)
<1>1. Len(W) \in Nat /\ Placed(W, d) /\ Inherits(rt, W, d)
  BY StoreTyped DEF Tree
<1>2. W[d].parent \in 0 .. d - 1 /\ W[d].above \subseteq 0 .. d - 1
  BY <1>1 DEF Placed
<1>3. \A p \in 0 .. d - 1 : p = 0 \/ p \in 1 .. Len(W)
  BY <1>1
<1>4. \A p \in 0 .. d - 1 : /\ OfIn(rt, V, p).scope = OfIn(rt, W, p).scope
                            /\ OfIn(rt, V, p).deny = OfIn(rt, W, p).deny
                            /\ OfIn(rt, V, p).limit = OfIn(rt, W, p).limit
                            /\ OfIn(rt, V, p).expires = OfIn(rt, W, p).expires
                            /\ AboveIn(V, p) = AboveIn(W, p)
  BY <1>3 DEF Grows, OfIn, AboveIn
<1>5. ChainIn(V, d) = ChainIn(W, d) /\ ChainIn(W, d) \subseteq 1 .. Len(W)
  BY <1>1, <1>2, <1>3 DEF Grows, ChainIn
<1>6. /\ V[d].parent = W[d].parent /\ V[d].above = W[d].above /\ V[d].scope = W[d].scope
      /\ V[d].deny = W[d].deny /\ V[d].limit = W[d].limit /\ V[d].expires = W[d].expires
      /\ \A e \in ChainIn(W, d) : V[e].parent = W[e].parent
  BY <1>5 DEF Grows
<1>7. Placed(V, d)
  BY <1>1, <1>2, <1>4, <1>5, <1>6 DEF Placed
<1>8. Inherits(rt, V, d)
  BY <1>1, <1>2, <1>4, <1>6 DEF Inherits, ScopeReduced
<1>. QED  BY <1>5, <1>7, <1>8

Marks(W, V, w, s) == V = [W EXCEPT ![w].status = s]

(* A warrant is marked: nothing but its status changes.                    *)
LEMMA TreeMarked ==
    ASSUME NEW rt, NEW W, Tree(rt, W), NEW w \in 1 .. Len(W), NEW s \in Status \ {"active"},
           NEW V, Marks(W, V, w, s)
    PROVE  /\ Tree(rt, V)
           /\ Grows(W, V)
           /\ Len(V) = Len(W)
           /\ V[w].status # "active"
<1>. DEFINE x == [W[w] EXCEPT !.status = s]
<1>1. /\ W \in Seq(Warrant)
      /\ Len(W) \in Nat
      /\ DOMAIN W = 1 .. Len(W)
      /\ \A d \in 1 .. Len(W) : W[d] \in Warrant
  BY StoreTyped DEF Tree
<1>2. /\ x \in Warrant
      /\ x.parent = W[w].parent /\ x.above = W[w].above
      /\ x.scope = W[w].scope /\ x.deny = W[w].deny /\ x.limit = W[w].limit
      /\ x.expires = W[w].expires /\ x.status = s
  BY <1>1 DEF Warrant
<1>3. V = [W EXCEPT ![w] = x]
  BY <1>1 DEF Marks
<1>. HIDE DEF x
<1>4. V \in Seq(Warrant) /\ Len(V) = Len(W) /\ V[w] = x
  BY <1>1, <1>2, <1>3
<1>5. \A d \in 1 .. Len(W) : d # w => V[d] = W[d]
  BY <1>1, <1>3
<1>6. Grows(W, V)
  BY <1>1, <1>2, <1>4, <1>5 DEF Grows
<1>7. \A d \in 1 .. Len(W) : Placed(V, d) /\ Inherits(rt, V, d)
  BY <1>4, <1>6, TreeGrows
<1>. QED  BY <1>2, <1>4, <1>6, <1>7 DEF Tree

(* What stands above a warrant delegated from p.                           *)
LEMMA AboveParent ==
    ASSUME Shaped, Tree(root, warrants), NEW p \in 0 .. Len(warrants)
    PROVE  LET parent == OfIn(root, warrants, p) IN
           /\ AboveIn(warrants, p) \subseteq 0 .. Len(warrants)
           /\ 0 \in AboveIn(warrants, p)
           /\ \A q \in AboveIn(warrants, p) : /\ parent.expires <= OfIn(root, warrants, q).expires
                                              /\ parent.limit <= OfIn(root, warrants, q).limit
                                              /\ OfIn(root, warrants, q).deny \subseteq parent.deny
           /\ p # 0 => /\ AboveIn(warrants, p) \ {0} = ChainIn(warrants, p)
                       /\ ChainIn(warrants, p) \subseteq 1 .. Len(warrants)
           /\ \A q \in AboveIn(warrants, p) :
                 q = p \/ (p # 0 /\ \E e \in ChainIn(warrants, p) : warrants[e].parent = q)
<1>1. Len(warrants) \in Nat
  BY StoreTyped DEF Tree
<1>2. /\ OfIn(root, warrants, p).limit \in Nat
      /\ OfIn(root, warrants, p).expires \in Nat
  BY ParentTyped, DelegationAssumption DEF Limit
<1>3. CASE p = 0
  BY <1>1, <1>2, <1>3 DEF AboveIn
<1>4. CASE p # 0
  <2>1. p \in 1 .. Len(warrants) /\ Placed(warrants, p) /\ Inherits(root, warrants, p)
    BY <1>1, <1>4 DEF Tree
  <2>2. AboveIn(warrants, p) = {p} \union warrants[p].above /\ OfIn(root, warrants, p) = warrants[p]
    BY <1>4 DEF AboveIn, OfIn
  <2>3. warrants[p].above \subseteq 0 .. p - 1 /\ 0 \in warrants[p].above
    BY <2>1 DEF Placed
  <2>4. \A q \in warrants[p].above : /\ warrants[p].expires <= OfIn(root, warrants, q).expires
                                     /\ warrants[p].limit <= OfIn(root, warrants, q).limit
                                     /\ OfIn(root, warrants, q).deny \subseteq warrants[p].deny
    BY <2>1 DEF Inherits
  <2>5. \A q \in warrants[p].above : \E e \in ChainIn(warrants, p) : warrants[e].parent = q
    BY <2>1 DEF Placed
  <2>6. /\ AboveIn(warrants, p) \ {0} = ChainIn(warrants, p)
        /\ ChainIn(warrants, p) \subseteq 1 .. Len(warrants)
    BY <1>1, <1>4, <2>1, <2>2, <2>3 DEF ChainIn
  <2>7. AboveIn(warrants, p) \subseteq 0 .. Len(warrants)
    BY <1>1, <2>1, <2>2, <2>3
  <2>. QED  BY <1>2, <1>4, <2>2, <2>3, <2>4, <2>5, <2>6, <2>7
<1>. QED  BY <1>3, <1>4

(* A warrant is delegated: it inherits from its parent, and through it     *)
(* from all above.                                                         *)
LEMMA TreeDelegated ==
    ASSUME Shaped, Tree(root, warrants), NEW p \in 0 .. Len(warrants), NEW r \in Requests,
           Delegate(p, r), NEW V, V = warrants'
    PROVE  Tree(root, V) /\ Grows(warrants, V)
<1>. DEFINE parent == OfIn(root, warrants, p)
            n == Len(warrants) + 1
            above == AboveIn(warrants, p)
            x == [parent |-> p, above |-> above, depth |-> parent.depth + 1,
                  scope |-> r.scope, deny |-> parent.deny,
                  limit |-> Stricter(r.limit, parent.limit),
                  expires |-> clock + Ttl(parent, r), status |-> "active"]
<1>1. /\ warrants \in Seq(Warrant) /\ Len(warrants) \in Nat
      /\ clock \in Nat
  BY StoreTyped, DelegationAssumption DEF Tree, Shaped
<1>2. /\ parent.depth \in Nat
      /\ parent.scope \subseteq Actions
      /\ parent.deny \subseteq Actions
      /\ parent.limit \in Limit
      /\ parent.expires \in Nat
  BY ParentTyped
<1>3. r.scope \subseteq Actions /\ r.limit \in Limit /\ r.ttl \in Nat
  BY DelegationAssumption
<1>4. parent = Of(p) /\ above = Above(p)
  BY DEF OfIn, AboveIn, Of, Above
<1>5. V = Append(warrants, x)
  BY <1>4 DEF Delegate
<1>6. Ttl(parent, r) > 0 /\ ScopeReduced(parent, r) /\ DepthAllows(parent)
  BY <1>4 DEF Delegate
<1>. HIDE DEF parent, above
<1>7. Ttl(parent, r) \in Nat /\ clock + Ttl(parent, r) <= parent.expires
  BY <1>1, <1>2, <1>3, <1>6 DEF Ttl, Remaining
<1>8. Stricter(r.limit, parent.limit) \in Limit /\ Stricter(r.limit, parent.limit) <= parent.limit
  BY <1>2, <1>3, DelegationAssumption DEF Stricter, Limit
<1>9. parent.depth + 1 \in 1 .. MaxDelegationDepth
  BY <1>2, <1>6, DelegationAssumption DEF DepthAllows
<1>10. /\ above \subseteq 0 .. Len(warrants)
       /\ 0 \in above
       /\ \A q \in above : /\ parent.expires <= OfIn(root, warrants, q).expires
                           /\ parent.limit <= OfIn(root, warrants, q).limit
                           /\ OfIn(root, warrants, q).deny \subseteq parent.deny
       /\ p # 0 => above \ {0} = ChainIn(warrants, p) /\ ChainIn(warrants, p) \subseteq 1 .. Len(warrants)
       /\ \A q \in above :
             q = p \/ (p # 0 /\ \E e \in ChainIn(warrants, p) : warrants[e].parent = q)
  BY AboveParent DEF parent, above
<1>11. x \in Warrant
  BY <1>1, <1>2, <1>3, <1>7, <1>8, <1>9, <1>10 DEF Warrant, Status
<1>12. /\ x.parent = p /\ x.above = above /\ x.deny = parent.deny
       /\ x.limit \in Nat /\ x.limit <= parent.limit
       /\ x.expires \in Nat /\ x.expires <= parent.expires
       /\ ScopeReduced(parent, x)
  BY <1>1, <1>6, <1>7, <1>8, DelegationAssumption DEF ScopeReduced, Limit
<1>. HIDE DEF x
<1>13. /\ V \in Seq(Warrant)
       /\ Len(V) = n
       /\ \A d \in 1 .. Len(warrants) : V[d] = warrants[d]
       /\ V[n] = x
  BY <1>1, <1>5, <1>11
<1>14. Grows(warrants, V)
  BY <1>1, <1>13 DEF Grows
<1>15. \A d \in 1 .. Len(warrants) : Placed(V, d) /\ Inherits(root, V, d)
  BY <1>13, <1>14, TreeGrows
<1>16. \A q \in 0 .. Len(warrants) : /\ OfIn(root, V, q) = OfIn(root, warrants, q)
                                    /\ AboveIn(V, q) = AboveIn(warrants, q)
  <2>. SUFFICES ASSUME NEW q \in 0 .. Len(warrants)
                PROVE  OfIn(root, V, q) = OfIn(root, warrants, q) /\ AboveIn(V, q) = AboveIn(warrants, q)
    OBVIOUS
  <2>1. CASE q = 0
    BY <2>1 DEF OfIn, AboveIn
  <2>2. CASE q # 0
    <3>1. V[q] = warrants[q]
      BY <1>1, <1>13, <2>2
    <3>. QED  BY <2>2, <3>1 DEF OfIn, AboveIn
  <2>. QED  BY <2>1, <2>2
<1>17. Placed(V, n)
  <2>1. ChainIn(V, n) = {n} \union (above \ {0})
    BY <1>12, <1>13 DEF ChainIn
  <2>2. \A q \in above : \E e \in ChainIn(V, n) : V[e].parent = q
    BY <1>10, <1>12, <1>13, <2>1
  <2>3. above = AboveIn(V, p)
    BY <1>16 DEF above
  <2>4. V[n].parent = p /\ V[n].above = above
    BY <1>12, <1>13
  <2>5. p \in 0 .. n - 1 /\ above \subseteq 0 .. n - 1 /\ 0 \in above
    BY <1>1, <1>10
  <2>. QED  BY <2>2, <2>3, <2>4, <2>5 DEF Placed
<1>18. Inherits(root, V, n)
  <2>1. ASSUME NEW q \in above
        PROVE  /\ x.expires <= OfIn(root, V, q).expires
               /\ x.limit <= OfIn(root, V, q).limit
               /\ OfIn(root, V, q).deny \subseteq x.deny
    <3>1. q \in 0 .. Len(warrants) /\ OfIn(root, V, q) = OfIn(root, warrants, q)
      BY <1>10, <1>16
    <3>2. OfIn(root, warrants, q).expires \in Nat /\ OfIn(root, warrants, q).limit \in Nat /\ parent.limit \in Nat
      BY <1>2, <3>1, ParentTyped, DelegationAssumption DEF Limit
    <3>. QED  BY <1>2, <1>10, <1>12, <3>1, <3>2
  <2>2. ScopeReduced(OfIn(root, V, p), x)
    BY <1>12, <1>16 DEF parent
  <2>. QED  BY <1>12, <1>13, <2>1, <2>2 DEF Inherits
<1>. QED  BY <1>1, <1>13, <1>14, <1>15, <1>17, <1>18 DEF Tree

-----------------------------------------------------------------------------
(***************************************************************************)
(* The cascade                                                             *)
(***************************************************************************)

(* A call that a step leaves alone still reaches what it will reach.       *)
LEMMA ReachesKept ==
    ASSUME NEW rt, NEW W, NEW V \in Seq(Warrant), Tree(rt, W), Grows(W, V), NEW x \in CallType,
           Reaches(W, x)
    PROVE  Reaches(V, x)
<1>1. Len(W) \in Nat /\ Len(V) \in Nat /\ Len(W) <= Len(V) /\ x.before \in Nat
  BY StoreTyped DEF Tree, Grows, CallType
<1>2. \A d \in 1 .. Len(W) : ChainIn(V, d) = ChainIn(W, d)
  BY TreeGrows
<1>3. \A k \in DOMAIN x.frames : x.frames[k] \subseteq 1 .. Len(V)
  BY <1>1 DEF Reaches
<1>4. x.pc # "idle" => /\ x.warrant \in 1 .. Len(V)
                       /\ V[x.warrant].status # "active"
                       /\ x.before <= Len(V)
  BY <1>1 DEF Reaches, Grows
<1>5. ASSUME x.pc \in {"cascading", "done"}, NEW d \in 1 .. x.before, x.warrant \in ChainIn(V, d)
      PROVE  V[d].status # "active" \/ Pending(V, x.frames, d)
  <2>1. d \in 1 .. Len(W)
    BY <1>1, <1>5 DEF Reaches
  <2>2. ChainIn(V, d) = ChainIn(W, d)
    BY <1>2, <2>1
  <2>3. W[d].status # "active" \/ Pending(W, x.frames, d)
    BY <1>5, <2>2 DEF Reaches
  <2>. QED  BY <2>1, <2>2, <2>3 DEF Grows, Pending
<1>6. x.pc = "done" => x.frames = <<>>
  BY DEF Reaches
<1>. QED  BY <1>3, <1>4, <1>5, <1>6 DEF Reaches

(* Between a warrant and one above it stands a child of the one above.     *)
LEMMA ChildBetween ==
    ASSUME Tree(root, warrants), NEW w \in 1 .. Len(warrants), NEW d \in 1 .. Len(warrants),
           w \in ChainIn(warrants, d)
    PROVE  d = w \/ ChildrenOf(w) \cap ChainIn(warrants, d) # {}
<1>1. CASE w # d
  <2>1. w \in warrants[d].above /\ Placed(warrants, d)
    BY <1>1 DEF ChainIn, Tree
  <2>2. PICK e \in ChainIn(warrants, d) : warrants[e].parent = w
    BY <2>1 DEF Placed
  <2>3. e \in DOMAIN warrants
    BY <2>1, <2>2, StoreTyped DEF Placed, ChainIn, Tree
  <2>. QED  BY <2>2, <2>3 DEF ChildrenOf
<1>. QED  BY <1>1

LEMMA ChildrenTyped ==
    ASSUME Tree(root, warrants), NEW w
    PROVE  ChildrenOf(w) \subseteq 1 .. Len(warrants) /\ ChildrenOf(w) \in SUBSET Nat
<1>1. DOMAIN warrants = 1 .. Len(warrants) /\ Len(warrants) \in Nat
  BY StoreTyped DEF Tree
<1>. QED  BY <1>1 DEF ChildrenOf

(* The cascade begins with the children of what was revoked.               *)
LEMMA CascadeBegins ==
    ASSUME DelegationInv, NEW c \in Calls, Cascade(c)
    PROVE  DelegationInv'
<1>. DEFINE x == [call[c] EXCEPT !.pc = "cascading", !.frames = <<ChildrenOf(call[c].warrant)>>]
            w == call[c].warrant
<1>1. /\ call \in [Calls -> CallType] /\ Tree(root, warrants) /\ Reaches(warrants, call[c])
      /\ call[c] \in CallType
      /\ call[c].pc = "saved"
      /\ UNCHANGED <<clock, root, warrants>>
      /\ call' = [call EXCEPT ![c] = x]
  BY DEF DelegationInv, Shaped, Cascade
<1>2. ChildrenOf(w) \subseteq 1 .. Len(warrants) /\ ChildrenOf(w) \in SUBSET Nat
  BY <1>1, ChildrenTyped
<1>f. <<ChildrenOf(w)>> \in Seq(SUBSET Nat)
  BY <1>2
<1>3. /\ x \in CallType
      /\ x.pc = "cascading" /\ x.warrant = w /\ x.before = call[c].before
      /\ x.frames = <<ChildrenOf(w)>>
  BY <1>1, <1>f DEF CallType
<1>. HIDE DEF x
<1>4. w \in 1 .. Len(warrants) /\ warrants[w].status # "active" /\ call[c].before <= Len(warrants)
  BY <1>1 DEF Reaches
<1>5. ASSUME NEW d \in 1 .. call[c].before, w \in ChainIn(warrants, d)
      PROVE  warrants[d].status # "active" \/ Pending(warrants, x.frames, d)
  <2>1. d \in 1 .. Len(warrants)
    BY <1>1, <1>4, <1>5, StoreTyped DEF Tree, CallType
  <2>2. d = w \/ ChildrenOf(w) \cap ChainIn(warrants, d) # {}
    BY <1>1, <1>4, <1>5, <2>1, ChildBetween
  <2>3. 1 \in DOMAIN x.frames /\ x.frames[1] = ChildrenOf(w)
    BY <1>3
  <2>. QED  BY <1>4, <2>2, <2>3 DEF Pending
<1>6. \A k \in DOMAIN x.frames : x.frames[k] \subseteq 1 .. Len(warrants)
  BY <1>2, <1>3
<1>7. Reaches(warrants, x)
  BY <1>3, <1>4, <1>5, <1>6 DEF Reaches
<1>8. call' \in [Calls -> CallType] /\ \A d \in Calls : Reaches(warrants, call'[d])
  BY <1>1, <1>3, <1>7 DEF DelegationInv
<1>. QED  BY <1>1, <1>8 DEF DelegationInv, Shaped

(* A step of one call that changes the tree.                               *)
LEMMA CallSteps ==
    ASSUME DelegationInv, Tree(root, warrants'), Grows(warrants, warrants'),
           UNCHANGED <<clock, root>>, NEW c \in Calls, NEW x \in CallType,
           Reaches(warrants', x), call' = [call EXCEPT ![c] = x]
    PROVE  DelegationInv'
<1>1. /\ call \in [Calls -> CallType] /\ Tree(root, warrants)
      /\ \A d \in Calls : Reaches(warrants, call[d])
      /\ warrants' \in Seq(Warrant)
  BY DEF DelegationInv, Shaped, Tree
<1>2. \A d \in Calls : Reaches(warrants', call[d])
  BY <1>1, ReachesKept
<1>3. call' \in [Calls -> CallType] /\ \A d \in Calls : Reaches(warrants', call'[d])
  BY <1>1, <1>2
<1>. QED  BY <1>1, <1>3 DEF DelegationInv, Shaped

LEMMA RevokeKeeps ==
    ASSUME DelegationInv, NEW c \in Calls, NEW w \in DOMAIN warrants, Revoke(c, w)
    PROVE  DelegationInv'
<1>. DEFINE x == [pc |-> "saved", warrant |-> w, frames |-> <<>>, before |-> Len(warrants)]
<1>1. /\ Tree(root, warrants)
      /\ w \in 1 .. Len(warrants) /\ Len(warrants) \in Nat
      /\ warrants' = [warrants EXCEPT ![w].status = "revoked"]
      /\ call' = [call EXCEPT ![c] = x]
      /\ UNCHANGED <<clock, root>>
  BY StoreTyped DEF DelegationInv, Tree, Revoke
<1>2. "revoked" \in Status \ {"active"}
  BY DEF Status
<1>3. /\ Tree(root, warrants')
      /\ Grows(warrants, warrants')
      /\ Len(warrants') = Len(warrants)
      /\ warrants'[w].status # "active"
  <2>1. Marks(warrants, warrants', w, "revoked")
    BY <1>1 DEF Marks
  <2>. QED  BY <1>1, <1>2, <2>1, TreeMarked
<1>4. x \in CallType
  BY <1>1 DEF CallType
<1>5. Reaches(warrants', x)
  BY <1>1, <1>3 DEF Reaches
<1>. QED  BY <1>1, <1>3, <1>4, <1>5, CallSteps

(* A child is marked: what was pending by it is pending by its children.   *)
LEMMA RevokeChildKeeps ==
    ASSUME DelegationInv, NEW c \in Calls, RevokeChild(c)
    PROVE  DelegationInv'
<1>. DEFINE old == call[c].frames
<1>1. PICK d \in Top(old) :
         /\ warrants' = [warrants EXCEPT ![d].status = "parent_revoked"]
         /\ call' = [call EXCEPT ![c].frames = Descend(call[c].frames, d)]
  BY DEF RevokeChild
<1>. DEFINE new == Descend(old, d)
            x == [call[c] EXCEPT !.frames = new]
<1>2. /\ call \in [Calls -> CallType] /\ Tree(root, warrants) /\ Reaches(warrants, call[c])
      /\ call[c] \in CallType
      /\ call[c].pc = "cascading"
      /\ old # <<>> /\ old \in Seq(SUBSET Nat)
      /\ UNCHANGED <<clock, root>>
  BY DEF DelegationInv, Shaped, RevokeChild, CallType
<1>3. DOMAIN old = 1 .. Len(old) /\ Len(old) \in Nat \ {0}
  BY <1>2, FramesPop
<1>4. Top(old) \subseteq 1 .. Len(warrants)
  BY <1>2, <1>3 DEF Reaches, Top
<1>5. ChildrenOf(d) \subseteq 1 .. Len(warrants) /\ ChildrenOf(d) \in SUBSET Nat
  BY <1>2, ChildrenTyped
<1>6. /\ new \in Seq(SUBSET Nat)
      /\ DOMAIN new = 1 .. Len(old) + 1
      /\ \A k \in 1 .. Len(old) - 1 : new[k] = old[k]
      /\ new[Len(old)] = Top(old) \ {d}
      /\ new[Len(old) + 1] = ChildrenOf(d)
  BY <1>2, <1>5, FramesDescend
<1>. HIDE DEF new
<1>7. /\ x \in CallType
      /\ x.pc = "cascading" /\ x.warrant = call[c].warrant /\ x.before = call[c].before
      /\ x.frames = new
  BY <1>2, <1>6 DEF CallType
<1>8. call' = [call EXCEPT ![c] = x]
  BY <1>1, <1>2 DEF new
<1>. HIDE DEF x
<1>9. /\ Tree(root, warrants')
      /\ Grows(warrants, warrants')
      /\ Len(warrants') = Len(warrants)
      /\ warrants'[d].status # "active"
  <2>1. Marks(warrants, warrants', d, "parent_revoked")
    BY <1>1 DEF Marks
  <2>2. d \in 1 .. Len(warrants) /\ "parent_revoked" \in Status \ {"active"}
    BY <1>4 DEF Status
  <2>. QED  BY <1>2, <2>1, <2>2, TreeMarked
<1>10. Len(warrants) \in Nat /\ warrants' \in Seq(Warrant)
  BY <1>2, <1>9, StoreTyped DEF Tree
<1>11. \A e \in 1 .. Len(warrants) : ChainIn(warrants', e) = ChainIn(warrants, e)
  BY <1>2, <1>9, <1>10, TreeGrows
<1>12. \A k \in DOMAIN new : new[k] \subseteq 1 .. Len(warrants')
  <2>1. ASSUME NEW k \in 1 .. Len(old) - 1 PROVE new[k] \subseteq 1 .. Len(warrants)
    <3>1. k \in DOMAIN old /\ new[k] = old[k]
      BY <1>3, <1>6
    <3>. QED  BY <1>2, <3>1 DEF Reaches
  <2>2. /\ new[Len(old)] \subseteq 1 .. Len(warrants)
        /\ new[Len(old) + 1] \subseteq 1 .. Len(warrants)
    BY <1>4, <1>5, <1>6
  <2>3. \A k \in 1 .. Len(old) + 1 : k \in 1 .. Len(old) - 1 \/ k = Len(old) \/ k = Len(old) + 1
    BY <1>3
  <2>4. \A k \in 1 .. Len(old) + 1 : new[k] \subseteq 1 .. Len(warrants)
    BY <2>1, <2>2, <2>3
  <2>. QED  BY <1>6, <1>9, <2>4
<1>13. /\ call[c].warrant \in 1 .. Len(warrants)
       /\ warrants'[call[c].warrant].status # "active"
       /\ call[c].before <= Len(warrants)
  BY <1>2, <1>9 DEF Reaches, Grows
<1>14. ASSUME NEW e \in 1 .. call[c].before, call[c].warrant \in ChainIn(warrants', e)
       PROVE  warrants'[e].status # "active" \/ Pending(warrants', new, e)
  <2>1. e \in 1 .. Len(warrants)
    BY <1>2, <1>10, <1>13, <1>14 DEF CallType
  <2>2. ChainIn(warrants', e) = ChainIn(warrants, e)
    BY <1>11, <2>1
  <2>3. warrants[e].status # "active" \/ Pending(warrants, old, e)
    BY <1>2, <1>14, <2>2 DEF Reaches
  <2>4. CASE warrants[e].status # "active"
    BY <1>9, <2>1, <2>4 DEF Grows
  <2>5. CASE Pending(warrants, old, e)
    <3>1. PICK k \in 1 .. Len(old) : old[k] \cap ChainIn(warrants, e) # {}
      BY <1>3, <2>5 DEF Pending
    <3>2. CASE k # Len(old)
      <4>1. k \in 1 .. Len(old) - 1 /\ k \in DOMAIN new
        BY <1>3, <1>6, <3>2
      <4>. QED  BY <1>6, <2>2, <3>1, <4>1 DEF Pending
    <3>3. CASE k = Len(old)
      <4>1. PICK f \in Top(old) : f \in ChainIn(warrants, e)
        BY <3>1, <3>3 DEF Top
      <4>2. CASE f # d
        <5>1. Len(old) \in DOMAIN new /\ f \in new[Len(old)]
          BY <1>3, <1>6, <4>1, <4>2
        <5>. QED  BY <2>2, <4>1, <5>1 DEF Pending
      <4>3. CASE f = d
        <5>1. e = d \/ ChildrenOf(d) \cap ChainIn(warrants, e) # {}
          BY <1>2, <1>4, <2>1, <4>1, <4>3, ChildBetween
        <5>2. Len(old) + 1 \in DOMAIN new
          BY <1>3, <1>6
        <5>. QED  BY <1>6, <1>9, <2>2, <5>1, <5>2 DEF Pending
      <4>. QED  BY <4>2, <4>3
    <3>. QED  BY <3>2, <3>3
  <2>. QED  BY <2>3, <2>4, <2>5
<1>15. Reaches(warrants', x)
  BY <1>7, <1>9, <1>12, <1>13, <1>14 DEF Reaches
<1>. QED  BY <1>2, <1>7, <1>8, <1>9, <1>15, CallSteps

(* A frame that is empty goes, and nothing was pending by it.              *)
LEMMA ReturnKeeps ==
    ASSUME DelegationInv, NEW c \in Calls, Return(c)
    PROVE  DelegationInv'
<1>. DEFINE old == call[c].frames
            new == Pop(old)
            pc == IF Len(old) = 1 THEN "done" ELSE call[c].pc
            x == [call[c] EXCEPT !.frames = new, !.pc = pc]
<1>1. /\ call \in [Calls -> CallType] /\ Tree(root, warrants) /\ Reaches(warrants, call[c])
      /\ call[c] \in CallType
      /\ call[c].pc = "cascading"
      /\ old # <<>> /\ old \in Seq(SUBSET Nat)
      /\ Top(old) = {}
      /\ UNCHANGED <<clock, root, warrants>>
      /\ call' = [call EXCEPT ![c] = x]
  BY DEF DelegationInv, Shaped, Return, CallType
<1>2. /\ new \in Seq(SUBSET Nat)
      /\ DOMAIN new = 1 .. Len(old) - 1
      /\ \A k \in 1 .. Len(old) - 1 : new[k] = old[k]
      /\ Len(old) = 1 => new = <<>>
      /\ DOMAIN old = 1 .. Len(old)
      /\ Len(old) \in Nat \ {0}
  BY <1>1, FramesPop
<1>. HIDE DEF new
<1>3. /\ x \in CallType
      /\ x.pc \in {"cascading", "done"} /\ x.pc = "done" => new = <<>>
      /\ x.warrant = call[c].warrant /\ x.before = call[c].before
      /\ x.frames = new
  BY <1>1, <1>2 DEF CallType
<1>. HIDE DEF x
<1>4. \A k \in DOMAIN new : new[k] \subseteq 1 .. Len(warrants)
  BY <1>1, <1>2 DEF Reaches
<1>5. ASSUME NEW d \in 1 .. call[c].before, call[c].warrant \in ChainIn(warrants, d)
      PROVE  warrants[d].status # "active" \/ Pending(warrants, new, d)
  <2>1. warrants[d].status # "active" \/ Pending(warrants, old, d)
    BY <1>1, <1>5 DEF Reaches
  <2>2. ASSUME NEW k \in 1 .. Len(old), old[k] \cap ChainIn(warrants, d) # {}
        PROVE  Pending(warrants, new, d)
    <3>1. k # Len(old)
      BY <1>1, <2>2 DEF Top
    <3>2. k \in DOMAIN new /\ new[k] = old[k]
      BY <1>2, <3>1
    <3>. QED  BY <2>2, <3>2 DEF Pending
  <2>. QED  BY <1>2, <2>1, <2>2 DEF Pending
<1>6. Reaches(warrants, x)
  BY <1>1, <1>3, <1>4, <1>5 DEF Reaches
<1>7. call' \in [Calls -> CallType] /\ \A d \in Calls : Reaches(warrants, call'[d])
  BY <1>1, <1>3, <1>6 DEF DelegationInv
<1>. QED  BY <1>1, <1>7 DEF DelegationInv, Shaped

LEMMA DelegateKeeps ==
    ASSUME DelegationInv, NEW p \in 0 .. Len(warrants), NEW r \in Requests, Delegate(p, r)
    PROVE  DelegationInv'
<1>1. Tree(root, warrants') /\ Grows(warrants, warrants')
  BY TreeDelegated DEF DelegationInv
<1>2. UNCHANGED <<clock, root, call>>
  BY DEF Delegate
<1>3. \A c \in Calls : Reaches(warrants', call[c])
  BY <1>1, ReachesKept DEF DelegationInv, Shaped, Tree
<1>. QED  BY <1>1, <1>2, <1>3 DEF DelegationInv, Shaped, Tree

-----------------------------------------------------------------------------
LEMMA DelegationInit == Init => DelegationInv
<1>. SUFFICES ASSUME Init PROVE DelegationInv
  OBVIOUS
<1>1. warrants = <<>> /\ warrants \in Seq(Warrant) /\ Len(warrants) = 0
  BY DEF Init
<1>2. Tree(root, warrants)
  BY <1>1 DEF Tree
<1>3. Idle \in CallType /\ Idle.pc = "idle" /\ Idle.frames = <<>>
  BY DEF Idle, CallType
<1>4. call \in [Calls -> CallType] /\ \A c \in Calls : call[c] = Idle
  BY <1>3 DEF Init
<1>5. Reaches(warrants, Idle)
  BY <1>3 DEF Reaches
<1>. QED  BY <1>1, <1>2, <1>4, <1>5, DelegationAssumption DEF Init, DelegationInv, Shaped

LEMMA DelegationNext == DelegationInv /\ [Next]_vars => DelegationInv'
<1>. SUFFICES ASSUME DelegationInv, [Next]_vars PROVE DelegationInv'
  OBVIOUS
<1>1. CASE Tick
  <2>1. clock' \in 0 .. MaxTime
    BY <1>1, DelegationAssumption DEF Tick, DelegationInv, Shaped
  <2>. QED  BY <1>1, <2>1 DEF Tick, DelegationInv, Shaped
<1>2. CASE UNCHANGED vars
  BY <1>2 DEF vars, DelegationInv, Shaped
<1>. QED
  BY <1>1, <1>2, DelegateKeeps, RevokeKeeps, CascadeBegins, RevokeChildKeeps, ReturnKeeps DEF Next

LEMMA DelegationInvariant == Spec => []DelegationInv
BY DelegationInit, DelegationNext, PTL DEF Spec

-----------------------------------------------------------------------------
(***************************************************************************)
(* The theorems                                                            *)
(***************************************************************************)

(* Store, clock and calls stay of their types, and every warrant knows who *)
(* is above it.                                                            *)
THEOREM TypeCorrect == Spec => []TypeOK
<1>1. ASSUME DelegationInv PROVE TypeOK
  <2>1. /\ warrants \in Seq(Warrant) /\ DOMAIN warrants = 1 .. Len(warrants)
        /\ call \in [Calls -> CallType]
    BY <1>1, StoreTyped DEF DelegationInv, Shaped
  <2>2. \A w \in DOMAIN warrants : /\ warrants[w].parent \in 0 .. w - 1
                                   /\ warrants[w].above = Above(warrants[w].parent)
    BY <1>1, <2>1 DEF DelegationInv, Tree, Placed, AboveIn, Above
  <2>3. \A c \in Calls : /\ call[c].pc \in {"idle", "saved", "cascading", "done"}
                         /\ \A k \in DOMAIN call[c].frames :
                               call[c].frames[k] \subseteq DOMAIN warrants
    BY <1>1, <2>1 DEF DelegationInv, Reaches, CallType
  <2>. QED  BY <1>1, <2>2, <2>3 DEF DelegationInv, Shaped, TypeOK
<1>. QED  BY <1>1, DelegationInvariant, PTL

(* What stands above a warrant, for those who verify it.                   *)
LEMMA WhatIsAbove ==
    ASSUME DelegationInv, NEW w \in DOMAIN warrants
    PROVE  /\ Placed(warrants, w) /\ Inherits(root, warrants, w)
           /\ Chain(w) = ChainIn(warrants, w)
           /\ Chain(w) \subseteq DOMAIN warrants
           /\ Chain(w) \union {0} = {w} \union warrants[w].above
           /\ \A p \in Nat : Of(p) = OfIn(root, warrants, p)
           /\ w \in Nat /\ w # 0
<1>1. DOMAIN warrants = 1 .. Len(warrants) /\ Len(warrants) \in Nat
  BY StoreTyped DEF DelegationInv, Tree
<1>2. Placed(warrants, w) /\ Inherits(root, warrants, w)
  BY <1>1 DEF DelegationInv, Tree
<1>3. warrants[w].above \subseteq 0 .. w - 1 /\ 0 \in warrants[w].above
  BY <1>2 DEF Placed
<1>. QED  BY <1>1, <1>2, <1>3 DEF Chain, ChainIn, Of, OfIn

(* No warrant verifies after one above it has expired.                     *)
THEOREM ExpiryAlwaysInherited == Spec => []ExpiryIsInherited
<1>1. ASSUME DelegationInv PROVE ExpiryIsInherited
  <2>. SUFFICES ASSUME NEW w \in DOMAIN warrants, Verify(w), NEW p \in Chain(w) \union {0}
                PROVE  Of(p).expires >= clock
    BY DEF ExpiryIsInherited
  <2>1. p \in {w} \union warrants[w].above
    BY <1>1, WhatIsAbove
  <2>2. CASE p = w
    BY <1>1, <2>2, WhatIsAbove DEF Verify, Of
  <2>3. CASE p \in warrants[w].above
    <3>1. p \in 0 .. w - 1 /\ warrants[w].expires <= Of(p).expires
      BY <1>1, <2>3, WhatIsAbove DEF Placed, Inherits
    <3>2. /\ w \in 1 .. Len(warrants) /\ p \in 0 .. Len(warrants)
          /\ warrants[w].expires \in Nat /\ clock \in Nat
      BY <1>1, <3>1, StoreTyped, DelegationAssumption DEF DelegationInv, Shaped
    <3>3. Of(p).expires \in Nat
      BY <1>1, <3>1, <3>2, ParentTyped, WhatIsAbove DEF DelegationInv
    <3>4. warrants[w].expires >= clock
      BY DEF Verify
    <3>. QED  BY <3>1, <3>2, <3>3, <3>4
  <2>. QED  BY <2>1, <2>2, <2>3
<1>. QED  BY <1>1, DelegationInvariant, PTL

(* What a warrant above lists and limits, whether it is the root or not.   *)
LEMMA RecordAbove ==
    ASSUME DelegationInv, NEW w \in DOMAIN warrants, NEW p \in Chain(w) \union {0}
    PROVE  /\ Of(p).limit \in 0 .. NoLimit
           /\ warrants[w].limit \in 0 .. NoLimit
           /\ warrants[w].limit <= Of(p).limit
           /\ Of(p).deny \subseteq warrants[w].deny
           /\ [Of(p) EXCEPT !.deny = {}].deny = {}
           /\ [Of(p) EXCEPT !.deny = {}].scope = Of(p).scope
           /\ [Of(p) EXCEPT !.deny = {}].limit = Of(p).limit
<1>1. /\ Inherits(root, warrants, w)
      /\ p = w \/ p \in warrants[w].above
      /\ Chain(w) \subseteq DOMAIN warrants
      /\ Of(p) = OfIn(root, warrants, p)
      /\ Of(w) = warrants[w]
      /\ DOMAIN warrants = 1 .. Len(warrants)
      /\ warrants[w] \in Warrant
  BY WhatIsAbove, StoreTyped DEF DelegationInv, Tree, OfIn
<1>2. \/ Of(p) \in [depth : {0}, scope : SUBSET Actions, deny : SUBSET Actions, limit : Limit,
                    expires : Nat]
      \/ Of(p) \in Warrant
  <2>1. CASE p = 0
    BY <2>1, DelegationAssumption DEF DelegationInv, Shaped, Of
  <2>2. CASE p # 0
    <3>1. p \in 1 .. Len(warrants)
      BY <1>1, <2>2
    <3>. QED  BY <2>2, <3>1, StoreTyped DEF DelegationInv, Tree, Of
  <2>. QED  BY <2>1, <2>2
<1>3. Of(p).limit \in 0 .. NoLimit /\ warrants[w].limit \in 0 .. NoLimit
  BY <1>1, <1>2 DEF Warrant, Limit, NoLimit
<1>4. /\ [Of(p) EXCEPT !.deny = {}].deny = {}
      /\ [Of(p) EXCEPT !.deny = {}].scope = Of(p).scope
      /\ [Of(p) EXCEPT !.deny = {}].limit = Of(p).limit
  BY <1>2 DEF Warrant
<1>5. warrants[w].limit <= Of(p).limit /\ Of(p).deny \subseteq warrants[w].deny
  <2>1. CASE p = w
    BY <1>1, <1>3, <2>1, DelegationAssumption DEF NoLimit
  <2>2. CASE p \in warrants[w].above
    BY <1>1, <2>2 DEF Inherits
  <2>. QED  BY <1>1, <2>1, <2>2
<1>. QED  BY <1>3, <1>4, <1>5

(* What checkScope grants on a warrant, all above it would grant, but for  *)
(* what is denied above; that the warrant denies too.  What the first link *)
(* and the filters leave of an action is covered by every link, and the    *)
(* first one by the root; limits and deny lists go from parent to child.   *)
THEOREM AuthorityAlwaysShrinks == Spec => []AuthorityOnlyShrinks
<1>1. ASSUME DelegationInv PROVE AuthorityOnlyShrinks
  <2>. SUFFICES ASSUME NEW w \in DOMAIN warrants, NEW granted \in CheckScope(w),
                       NEW p \in Chain(w) \union {0}
                PROVE  \/ Grants(Of(p), granted[1], granted[2])
                       \/ /\ granted[1] \in Of(p).deny \intersect warrants[w].deny
                          /\ Grants([Of(p) EXCEPT !.deny = {}], granted[1], granted[2])
    BY DEF AuthorityOnlyShrinks
  <2>. DEFINE a == granted[1]
              amount == granted[2]
  <2>1. /\ a \in Actions /\ Covers(EffectiveScope(w), a)
        /\ amount \in Amount
        /\ \A d \in Chain(w) : Within(warrants[d].limit, amount)
    <3>1. granted \in {b \in Actions : Covers(EffectiveScope(w), b)}
                      \X {m \in Amount : \A d \in Chain(w) : Within(warrants[d].limit, m)}
      BY DEF CheckScope
    <3>. QED  BY <3>1
  <2>. HIDE DEF a, amount
  <2>2. /\ Placed(warrants, w) /\ Inherits(root, warrants, w)
        /\ Chain(w) = ChainIn(warrants, w)
        /\ Chain(w) \subseteq DOMAIN warrants
        /\ \A d \in DOMAIN warrants : d \in Nat /\ d # 0
        /\ DOMAIN warrants = 1 .. Len(warrants)
    BY <1>1, WhatIsAbove, StoreTyped DEF DelegationInv, Tree
  <2>3. \A d \in Chain(w) : Covers(warrants[d].scope, a)
    BY <2>1, <2>2 DEF EffectiveScope, Covers
  <2>4. Covers(Of(p).scope, a)
    <3>1. CASE p # 0
      BY <2>2, <2>3, <3>1 DEF Of
    <3>2. CASE p = 0
      <4>1. PICK d \in Chain(w) : warrants[d].parent = 0
        BY <2>2 DEF Placed
      <4>2. ScopeReduced(root, warrants[d])
        BY <1>1, <2>2, <4>1 DEF DelegationInv, Tree, Inherits, OfIn
      <4>. QED  BY <2>3, <3>2, <4>1, <4>2 DEF ScopeReduced, Covers, Of
    <3>. QED  BY <3>1, <3>2
  <2>5. Within(Of(p).limit, amount)
    <3>1. Within(warrants[w].limit, amount)
      BY <2>1 DEF Chain
    <3>2. /\ Of(p).limit \in 0 .. NoLimit /\ warrants[w].limit \in 0 .. NoLimit
          /\ warrants[w].limit <= Of(p).limit
      BY <1>1, RecordAbove
    <3>. QED  BY <2>1, <3>1, <3>2, DelegationAssumption DEF Within, Amount, NoLimit, NoNumber
  <2>6. CASE a \notin Of(p).deny
    BY <2>4, <2>5, <2>6 DEF Grants, a, amount
  <2>7. CASE a \in Of(p).deny
    <3>. DEFINE allowing == [Of(p) EXCEPT !.deny = {}]
    <3>1. /\ allowing.deny = {} /\ allowing.scope = Of(p).scope /\ allowing.limit = Of(p).limit
          /\ Of(p).deny \subseteq warrants[w].deny
      BY <1>1, RecordAbove
    <3>. HIDE DEF allowing
    <3>2. Grants(allowing, a, amount)
      BY <2>4, <2>5, <3>1 DEF Grants
    <3>. QED  BY <2>7, <3>1, <3>2 DEF a, amount, allowing
  <2>. QED  BY <2>6, <2>7
<1>. QED  BY <1>1, DelegationInvariant, PTL

(* A revocation that has returned has reached all that was below it.       *)
THEOREM CascadeAlwaysReaches == Spec => []CascadeReaches
<1>1. ASSUME DelegationInv PROVE CascadeReaches
  <2>. SUFFICES ASSUME NEW c \in Calls, call[c].pc = "done", NEW d \in 1 .. call[c].before,
                       call[c].warrant \in Chain(d)
                PROVE  ~Verify(d)
    BY DEF CascadeReaches
  <2>1. Reaches(warrants, call[c])
    BY <1>1 DEF DelegationInv
  <2>2. call[c].frames = <<>> /\ Chain(d) = ChainIn(warrants, d)
    BY <2>1 DEF Reaches, Chain, ChainIn
  <2>3. warrants[d].status # "active" \/ Pending(warrants, call[c].frames, d)
    BY <2>1, <2>2 DEF Reaches
  <2>4. ~Pending(warrants, call[c].frames, d)
    BY <2>2 DEF Pending
  <2>. QED  BY <2>3, <2>4 DEF Verify
<1>. QED  BY <1>1, DelegationInvariant, PTL
=============================================================================
