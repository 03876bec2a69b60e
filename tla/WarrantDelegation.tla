-------------------------- MODULE WarrantDelegation --------------------------
(***************************************************************************)
(* WarrantDelegation over InMemoryDelegationStore: warrants are delegated  *)
(* from a root warrant, which another store keeps, or from one delegated   *)
(* before; calls of revoke cascade down the tree, await by await, while    *)
(* others revoke and delegate.                                             *)
(*                                                                         *)
(* delegate reads the record its caller passes, never the store, and of    *)
(* that record nothing that ever changes; it has no await before its save, *)
(* and is one step.  It reads allowed_actions and forbidden_actions, which *)
(* a delegated record calls scope and deny: the host that passes one on    *)
(* renames them.  A constraint is the maximum of one parameter.            *)
(***************************************************************************)
EXTENDS Naturals, Sequences

CONSTANTS
    Actions,
    Wildcard,     \* '*', an action that stands for all
    MaxAmount,    \* amounts up to it can be asked for; no maximum is MaxAmount + 1
    Roots,        \* the root warrants an instance may start from
    Requests,     \* the DelegationRequests: scope, limit, and ttl, 0 when none is asked for
    Calls,        \* calls of revoke
    MaxDelegationDepth,
    MaxWarrants,  \* bound: delegated warrants
    MaxTime       \* bound: ticks of the clock

Limit == 0 .. MaxAmount + 1
NoLimit == MaxAmount + 1

\* What a check is asked about: a number, or nothing, when the parameter is not given.  A
\* string of digits, which verifyScope compares and checkScope lets pass, is left out.
NoNumber == MaxAmount + 1
Amount == (0 .. MaxAmount) \union {NoNumber}

ASSUME DelegationAssumption ==
    /\ Wildcard \in Actions
    /\ MaxAmount \in Nat
    /\ Roots \subseteq [depth : {0}, scope : SUBSET Actions, deny : SUBSET Actions,
                        limit : Limit, expires : Nat]
    /\ Requests \subseteq [scope : SUBSET Actions, limit : Limit, ttl : Nat]
    /\ MaxDelegationDepth \in Nat
    /\ MaxWarrants \in Nat
    /\ MaxTime \in Nat

VARIABLES
    clock,
    root,
    warrants,  \* InMemoryDelegationStore, in the order of saving
    call

vars == <<clock, root, warrants, call>>

Status == {"active", "revoked", "parent_revoked"}

\* A call of revoke: the warrant, the frames of revokeByParent (the children each has yet
\* to mark), and the warrants there were when it began.
Idle == [pc |-> "idle", warrant |-> 0, frames |-> <<>>, before |-> 0]

Init ==
    /\ clock = 0
    /\ root \in Roots
    /\ warrants = <<>>
    /\ call = [c \in Calls |-> Idle]

\* The root is 0; a warrant is its place in the store.
Of(p) == IF p = 0 THEN root ELSE warrants[p]

\* The warrants above one delegated from p: those that walkChain finds, one by one.
Above(p) == IF p = 0 THEN {0} ELSE {p} \union warrants[p].above

-----------------------------------------------------------------------------
(* delegate *)

\* Mutant: the wildcard is looked for in the scope asked for.
WildcardAsked(parent, r) == Wildcard \in r.scope \/ r.scope \subseteq parent.scope

ScopeReduced(parent, r) == Wildcard \in parent.scope \/ r.scope \subseteq parent.scope

\* Mutant: off by one.
DepthReached(parent) == parent.depth <= MaxDelegationDepth

DepthAllows(parent) == parent.depth < MaxDelegationDepth

Remaining(w) == IF w.expires > clock THEN w.expires - clock ELSE 0

\* Mutant: the time is measured against the root's expiry.
RootTtl(parent, r) ==
    IF r.ttl = 0 THEN Remaining(root)
    ELSE IF r.ttl <= Remaining(root) THEN r.ttl
    ELSE 0

\* The time granted, 0 when it is refused.
Ttl(parent, r) ==
    IF r.ttl = 0 THEN Remaining(parent)
    ELSE IF r.ttl <= Remaining(parent) THEN r.ttl
    ELSE 0

\* _validateConstraintStrictness for a maximum, and the merge with what the parent has.
LimitTightened(parent, r) == r.limit = NoLimit \/ r.limit <= parent.limit
Stricter(m, n) == IF m <= n THEN m ELSE n

Delegate(p, r) ==
    LET parent == Of(p) IN
    /\ Len(warrants) < MaxWarrants
    /\ DepthAllows(parent)
    /\ ScopeReduced(parent, r)
    /\ r.scope # {}
    /\ Ttl(parent, r) > 0
    /\ LimitTightened(parent, r)
    /\ warrants' = Append(warrants,
           [parent |-> p, above |-> Above(p), depth |-> parent.depth + 1,
            scope |-> r.scope, deny |-> parent.deny,
            limit |-> Stricter(r.limit, parent.limit),
            expires |-> clock + Ttl(parent, r), status |-> "active"])
    /\ UNCHANGED <<clock, root, call>>

-----------------------------------------------------------------------------
(* revoke *)

ChildrenOf(w) == {d \in DOMAIN warrants : warrants[d].parent = w}

\* revoke: load, and save the warrant revoked.
Revoke(c, w) ==
    /\ call[c].pc = "idle"
    /\ warrants' = [warrants EXCEPT ![w].status = "revoked"]
    /\ call' = [call EXCEPT ![c] = [pc |-> "saved", warrant |-> w, frames |-> <<>>,
                                    before |-> Len(warrants)]]
    /\ UNCHANGED <<clock, root>>

\* revoke calls revokeByParent, which lists the children before its first await.
Cascade(c) ==
    /\ call[c].pc = "saved"
    /\ call' = [call EXCEPT ![c].pc = "cascading",
                            ![c].frames = <<ChildrenOf(call[c].warrant)>>]
    /\ UNCHANGED <<clock, root, warrants>>

Top(frames) == frames[Len(frames)]
Pop(frames) == SubSeq(frames, 1, Len(frames) - 1)

\* Mutant: the cascade ends with the children.
Listed(frames, d) == Append(Pop(frames), Top(frames) \ {d})

\* The frames once child d is marked: the rest of its siblings, and its own children.
Descend(frames, d) == Append(Append(Pop(frames), Top(frames) \ {d}), ChildrenOf(d))

\* revokeByParent: one child, up to the await of the call for its own children.
RevokeChild(c) ==
    /\ call[c].pc = "cascading"
    /\ call[c].frames # <<>>
    /\ \E d \in Top(call[c].frames) :
          /\ warrants' = [warrants EXCEPT ![d].status = "parent_revoked"]
          /\ call' = [call EXCEPT ![c].frames = Descend(@, d)]
    /\ UNCHANGED <<clock, root>>

\* The children of one warrant are done.
Return(c) ==
    /\ call[c].pc = "cascading"
    /\ call[c].frames # <<>>
    /\ Top(call[c].frames) = {}
    /\ call' = [call EXCEPT ![c].frames = Pop(@),
                            ![c].pc = IF Len(call[c].frames) = 1 THEN "done" ELSE @]
    /\ UNCHANGED <<clock, root, warrants>>

Tick ==
    /\ clock < MaxTime
    /\ clock' = clock + 1
    /\ UNCHANGED <<root, warrants, call>>

Next ==
    \/ \E p \in 0 .. Len(warrants), r \in Requests : Delegate(p, r)
    \/ \E c \in Calls :
          \/ \E w \in DOMAIN warrants : Revoke(c, w)
          \/ Cascade(c) \/ RevokeChild(c) \/ Return(c)
    \/ Tick

Spec == Init /\ [][Next]_vars

-----------------------------------------------------------------------------
(* verify and checkScope *)

\* What walkChain collects: the warrant and the delegated ones above it.
Chain(w) == {w} \union (warrants[w].above \ {0})

\* The links between delegated warrants; the one to the root is not looked at.
LinksHold(w) ==
    \A d \in Chain(w) :
        LET p == warrants[d].parent IN p = 0 \/ ScopeReduced(warrants[p], warrants[d])

Verify(w) ==
    /\ warrants[w].status = "active"
    /\ warrants[w].expires >= clock
    /\ LinksHold(w)

Covers(scope, a) == a \in scope \/ Wildcard \in scope

\* The scope of the first link, filtered by those of all the others.
EffectiveScope(w) ==
    {a \in Actions : \A d \in Chain(w) : IF warrants[d].parent = 0 THEN a \in warrants[d].scope
                                         ELSE Covers(warrants[d].scope, a)}

Within(limit, amount) == amount = NoNumber \/ limit = NoLimit \/ amount <= limit

\* All that checkScope authorizes on a warrant, as <<action, amount>>.  It does not look at
\* the deny lists of the chain.
CheckScope(w) ==
    IF Verify(w)
    THEN LET scope == EffectiveScope(w)
         IN  {a \in Actions : Covers(scope, a)}
             \X {amount \in Amount : \A d \in Chain(w) : Within(warrants[d].limit, amount)}
    ELSE {}

\* What verifyScope tests of a warrant's own record: forbidden actions first, then scope
\* and constraints.
Grants(warrant, a, amount) ==
    /\ a \notin warrant.deny
    /\ Covers(warrant.scope, a)
    /\ Within(warrant.limit, amount)

-----------------------------------------------------------------------------
(* Properties *)

Warrant ==
    [parent : Nat, above : SUBSET Nat, depth : 1 .. MaxDelegationDepth, scope : SUBSET Actions,
     deny : SUBSET Actions, limit : Limit, expires : Nat, status : Status]

TypeOK ==
    /\ clock \in 0 .. MaxTime
    /\ root \in Roots
    /\ warrants \in Seq(Warrant)
    /\ \A w \in DOMAIN warrants :
          /\ warrants[w].parent \in 0 .. w - 1
          /\ warrants[w].above = Above(warrants[w].parent)
    /\ \A c \in Calls :
          /\ call[c].pc \in {"idle", "saved", "cascading", "done"}
          /\ \A k \in DOMAIN call[c].frames : call[c].frames[k] \subseteq DOMAIN warrants

\* "Child scope ... can only narrow, never widen": what checkScope grants on a warrant, over
\* any number of links with wildcards in some of them, every warrant above it would grant
\* by the rules of verifyScope, the root included - but for one case, in which the code does
\* widen: an action that is denied above, which checkScope does not ask about.  Then the
\* denial is at least on the record of the warrant it was granted on.
AuthorityOnlyShrinks ==
    \A w \in DOMAIN warrants : \A granted \in CheckScope(w) :
        LET a == granted[1]
            amount == granted[2]
        IN  \A p \in Chain(w) \union {0} :
                \/ Grants(Of(p), a, amount)
                \/ /\ a \in Of(p).deny \intersect warrants[w].deny
                   /\ Grants([Of(p) EXCEPT !.deny = {}], a, amount)

\* "Child expires <= parent expires": verify compares the expiry of the warrant alone, and
\* yet no warrant verifies after one above it, the root included, has expired.
ExpiryIsInherited ==
    \A w \in DOMAIN warrants :
        Verify(w) => \A p \in Chain(w) \union {0} : Of(p).expires >= clock

\* "Revoke a warrant and all its children (cascade)": when revoke has returned, nothing that
\* had been delegated below the warrant when it began verifies, though other calls revoke
\* and delegate in the same tree between its awaits.
CascadeReaches ==
    \A c \in Calls : call[c].pc = "done" =>
        \A d \in 1 .. call[c].before : call[c].warrant \in Chain(d) => ~Verify(d)
=============================================================================
