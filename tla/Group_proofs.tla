----------------------------- MODULE Group_proofs -----------------------------
(***************************************************************************)
(* Proofs about Group, for every set of clients, founding tree and bounds: *)
(* the invariants of the clients' states, and that the clients walk        *)
(* through one history of rosters (GroupHistory).                          *)
(***************************************************************************)
EXTENDS Group, FiniteSetTheorems, SequenceTheorems, TLAPS

-----------------------------------------------------------------------------
(* Ranks in finite sets of numbers.                                        *)

LEMMA RankBounds ==
  ASSUME NEW S, S \subseteq Nat, IsFiniteSet(S), NEW x \in S
  PROVE  Rank(x, S) \in 1 .. Cardinality(S)
<1> DEFINE upTo == {y \in S : y <= x}
<1>1. /\ IsFiniteSet(upTo) /\ Cardinality(upTo) <= Cardinality(S)
      /\ Cardinality(upTo) \in Nat /\ Cardinality(S) \in Nat
  BY FS_Subset, FS_CardinalityType
<1>2. x \in upTo
  OBVIOUS
<1>3. Cardinality(upTo) # 0
  BY <1>1, <1>2, FS_EmptySet
<1> QED
  BY <1>1, <1>3 DEF Rank

\* Later elements have higher ranks, so that no two have the same.
LEMMA RankInjective ==
  ASSUME NEW S, S \subseteq Nat, IsFiniteSet(S), NEW x \in S, NEW z \in S,
         Rank(x, S) = Rank(z, S)
  PROVE  x = z
<1>1. ASSUME NEW a \in S, NEW b \in S, a < b PROVE Rank(a, S) # Rank(b, S)
  <2> DEFINE upToA == {y \in S : y <= a}
             upToB == {y \in S : y <= b}
  <2>1. upToB \in SUBSET S
    OBVIOUS
  <2>2. upToA \in SUBSET upToB /\ b \in upToB /\ b \notin upToA
    <3>1. a \in Nat /\ b \in Nat /\ \A y \in S : y \in Nat
      OBVIOUS
    <3>2. (\A y \in S : y <= a => y <= b) /\ b <= b /\ ~(b <= a)
      BY <1>1, <3>1
    <3> QED
      BY <3>2
  <2> HIDE DEF upToA, upToB
  <2>3. IsFiniteSet(upToB)
    BY <2>1, FS_Subset
  <2>4. Cardinality(upToB) # Cardinality(upToA)
    BY <2>2, <2>3, FS_Subset
  <2> QED
    BY <2>4 DEF Rank, upToA, upToB
<1>2. x < z \/ z < x \/ x = z
  OBVIOUS
<1> QED
  BY <1>1, <1>2

LEMMA RankOnto ==
  ASSUME NEW S, S \subseteq Nat, IsFiniteSet(S), NEW n \in 1 .. Cardinality(S)
  PROVE  \E x \in S : Rank(x, S) = n
<1> DEFINE rank == [x \in S |-> Rank(x, S)]
           ranks == 1 .. Cardinality(S)
<1>1. rank \in Injection(S, ranks)
  <2>1. rank \in [S -> ranks]
    BY RankBounds
  <2>2. \A x, y \in S : rank[x] = rank[y] => x = y
    BY RankInjective
  <2> QED
    BY <2>1, <2>2 DEF Injection, IsInjective
<1>2. IsFiniteSet(ranks) /\ Cardinality(ranks) = Cardinality(S)
  BY FS_Interval, FS_CardinalityType
<1>3. rank \in Surjection(S, ranks)
  BY <1>1, <1>2, FS_Injection
<1> QED
  BY <1>3 DEF Surjection

-----------------------------------------------------------------------------
(* What applyTreeMutations makes of a tree.                                *)

\* No client has two leaves.
OneLeafEach(t) == \A k, l \in Leaf : t[k] = t[l] /\ t[k] # Nobody => k = l

\* The added clients are different ones and none of them is kept by the tree.
AddsNewcomers(t, proposals) ==
  LET adds == OfKind(proposals, "add")
  IN  /\ \A i \in adds : proposals[i].target \in Client
      /\ \A i, j \in adds : proposals[i].target = proposals[j].target => i = j
      /\ \A i \in adds, leaf \in Leaf \ BlankLeaves(t, proposals) :
           t[leaf] # proposals[i].target

LEMMA LeafFinite == IsFiniteSet(Leaf) /\ Cardinality(Leaf) = Cardinality(Client) /\ Leaf \subseteq Nat
<1>1. Cardinality(Client) \in Nat
  BY ClientAssumption, FS_CardinalityType
<1> QED
  BY <1>1, FS_Interval DEF Leaf

\* There is a blank leaf for every client that is added.
LEMMA EnoughBlankLeaves ==
  ASSUME NEW t \in Tree, OneLeafEach(t), NEW proposals, AddsNewcomers(t, proposals)
  PROVE  LET adds  == OfKind(proposals, "add")
             blank == BlankLeaves(t, proposals)
         IN  /\ IsFiniteSet(adds) /\ IsFiniteSet(blank)
             /\ Cardinality(adds) \in Nat /\ Cardinality(blank) \in Nat
             /\ Cardinality(adds) <= Cardinality(blank)
<1> DEFINE adds    == OfKind(proposals, "add")
           blank   == BlankLeaves(t, proposals)
           kept    == Leaf \ blank
           stay    == {c \in Client : \E leaf \in kept : t[leaf] = c}
           come    == {c \in Client : \E i \in adds : proposals[i].target = c}
           at      == [leaf \in kept |-> t[leaf]]
           target  == [i \in adds |-> proposals[i].target]
<1>1. IsFiniteSet(stay) /\ IsFiniteSet(come)
  BY FS_Subset, ClientAssumption
<1>2. at \in Injection(kept, stay)
  <2>1. \A leaf \in kept : t[leaf] \in Client /\ t[leaf] # Nobody
    BY DEF BlankLeaves, Tree
  <2>2. at \in [kept -> stay]
    BY <2>1
  <2>3. \A k, l \in kept : at[k] = at[l] => k = l
    BY <2>1 DEF OneLeafEach
  <2> QED
    BY <2>2, <2>3 DEF Injection, IsInjective
<1>3. target \in Injection(adds, come)
  BY DEF AddsNewcomers, Injection, IsInjective
<1>4. /\ IsFiniteSet(kept) /\ Cardinality(kept) <= Cardinality(stay)
      /\ IsFiniteSet(adds) /\ Cardinality(adds) <= Cardinality(come)
  BY <1>1, <1>2, <1>3, FS_Injection
<1>5. Cardinality(stay) + Cardinality(come) <= Cardinality(Client)
  <2>1. stay \intersect come = {}
    BY DEF AddsNewcomers
  <2>2. Cardinality(stay \union come) = Cardinality(stay) + Cardinality(come) - 0
    BY <1>1, <2>1, FS_Union, FS_EmptySet
  <2>3. Cardinality(stay \union come) <= Cardinality(Client)
    BY FS_Subset, ClientAssumption
  <2> QED
    BY <1>1, <2>2, <2>3, FS_CardinalityType
<1>6. IsFiniteSet(blank) /\ Cardinality(Leaf \ blank) = Cardinality(Leaf) - Cardinality(blank)
  <2>1. blank \subseteq Leaf
    BY DEF BlankLeaves
  <2>2. Leaf \intersect blank = blank
    BY <2>1
  <2> HIDE DEF blank
  <2>3. IsFiniteSet(blank)
    BY <2>1, LeafFinite, FS_Subset
  <2>4. Cardinality(Leaf \ blank) = Cardinality(Leaf) - Cardinality(Leaf \intersect blank)
    BY LeafFinite, FS_Difference
  <2> QED
    BY <2>2, <2>3, <2>4
<1>7. /\ Cardinality(Leaf) \in Nat /\ Cardinality(blank) \in Nat /\ Cardinality(adds) \in Nat
      /\ Cardinality(kept) \in Nat /\ Cardinality(stay) \in Nat /\ Cardinality(come) \in Nat
  BY <1>1, <1>4, <1>6, LeafFinite, FS_CardinalityType
<1> QED
  BY <1>4, <1>5, <1>6, <1>7, LeafFinite

\* The kept leaves stay as they are, the added clients are at blank leaves, and
\* still no client has two leaves.
LEMMA TreeMutations ==
  ASSUME NEW t \in Tree, OneLeafEach(t),
         NEW proposals, OfKind(proposals, "add") \subseteq Nat, AddsNewcomers(t, proposals)
  PROVE  LET adds  == OfKind(proposals, "add")
             blank == BlankLeaves(t, proposals)
             u     == ApplyTreeMutations(t, proposals)
         IN  /\ u \in Tree
             /\ OneLeafEach(u)
             /\ \A leaf \in Leaf \ blank : u[leaf] = t[leaf]
             /\ \A leaf \in blank :
                  u[leaf] # Nobody => \E i \in adds : u[leaf] = proposals[i].target
             /\ \A i \in adds : \E leaf \in blank : u[leaf] = proposals[i].target
<1> DEFINE adds  == OfKind(proposals, "add")
           blank == BlankLeaves(t, proposals)
           u     == ApplyTreeMutations(t, proposals)
           takes(i, leaf) == Rank(i, adds) = Rank(leaf, blank)
<1>1. /\ blank \subseteq Leaf /\ blank \subseteq Nat /\ adds \subseteq Nat
      /\ IsFiniteSet(adds) /\ IsFiniteSet(blank)
      /\ Cardinality(adds) \in Nat /\ Cardinality(blank) \in Nat
      /\ Cardinality(adds) <= Cardinality(blank)
  BY EnoughBlankLeaves, LeafFinite DEF BlankLeaves
<1>2. \A i \in adds : proposals[i].target \in Client /\ proposals[i].target # Nobody
  BY ClientAssumption DEF AddsNewcomers
<1>3. u = [leaf \in Leaf |->
             IF leaf \notin blank THEN t[leaf]
             ELSE IF \E i \in adds : takes(i, leaf)
             THEN proposals[CHOOSE i \in adds : takes(i, leaf)].target
             ELSE Nobody]
  BY DEF ApplyTreeMutations, Takes
<1>4. \A i, j \in adds, leaf \in blank : takes(i, leaf) /\ takes(j, leaf) => i = j
  BY <1>1, RankInjective
<1>5. \A i \in adds, k, l \in blank : takes(i, k) /\ takes(i, l) => k = l
  BY <1>1, RankInjective
<1>6. \A i \in adds : \E leaf \in blank : takes(i, leaf)
  <2> TAKE i \in adds
  <2>1. Rank(i, adds) \in 1 .. Cardinality(adds)
    BY <1>1, RankBounds
  <2>2. Rank(i, adds) \in 1 .. Cardinality(blank)
    BY <1>1, <2>1
  <2> QED
    BY <1>1, <2>2, RankOnto
<1> HIDE DEF adds, blank, u, takes
<1>7. \A leaf \in Leaf \ blank : u[leaf] = t[leaf]
  BY <1>3
<1>8. \A leaf \in blank, i \in adds : takes(i, leaf) => u[leaf] = proposals[i].target
  <2> TAKE leaf \in blank, i \in adds
  <2> HAVE takes(i, leaf)
  <2>1. \A j \in adds : takes(j, leaf) => j = i
    BY <1>4
  <2>2. (CHOOSE j \in adds : takes(j, leaf)) = i
    BY <2>1
  <2>3. u[leaf] = proposals[CHOOSE j \in adds : takes(j, leaf)].target
    BY <1>1, <1>3
  <2> QED
    BY <2>2, <2>3
<1>9. \A leaf \in blank : u[leaf] # Nobody => \E i \in adds : takes(i, leaf)
  BY <1>1, <1>3
<1>10. u \in Tree
  <2>1. \A leaf \in Leaf : u[leaf] \in Client \union {Nobody}
    BY <1>2, <1>7, <1>8, <1>9 DEF Tree
  <2> QED
    BY <1>3, <2>1 DEF Tree
<1>11. OneLeafEach(u)
  <2> SUFFICES ASSUME NEW k \in Leaf, NEW l \in Leaf, u[k] = u[l], u[k] # Nobody PROVE k = l
    BY DEF OneLeafEach
  <2>1. CASE k \notin blank /\ l \notin blank
    BY <1>7, <2>1 DEF OneLeafEach
  <2>2. CASE k \in blank /\ l \in blank
    <3>1. PICK i \in adds : takes(i, k)
      BY <1>9, <2>2
    <3>2. PICK j \in adds : takes(j, l)
      BY <1>9, <2>2
    <3>3. i = j
      BY <1>8, <2>2, <3>1, <3>2 DEF AddsNewcomers, adds
    <3> QED
      BY <1>5, <2>2, <3>1, <3>2, <3>3
  <2>3. \A a \in blank, b \in Leaf \ blank : u[a] # Nobody => u[a] # u[b]
    BY <1>7, <1>8, <1>9 DEF AddsNewcomers, adds, blank
  <2> QED
    BY <2>1, <2>2, <2>3
<1>12. \A leaf \in blank : u[leaf] # Nobody => \E i \in adds : u[leaf] = proposals[i].target
  BY <1>8, <1>9
<1>13. \A i \in adds : \E leaf \in blank : u[leaf] = proposals[i].target
  BY <1>6, <1>8
<1> QED
  BY <1>7, <1>10, <1>11, <1>12, <1>13 DEF adds, blank, u

-----------------------------------------------------------------------------
(* What a commit makes of a tree.                                          *)

AddsClients(proposals) == \A i \in OfKind(proposals, "add") : proposals[i].target \in Client

\* A member's commit: the committer keeps its leaf, the added clients were no
\* members, and a member whose leaf became blank is none any more; it could
\* not apply the same proposals again.
LEMMA MemberCommit ==
  ASSUME NEW t \in Tree, OneLeafEach(t),
         NEW proposals \in Seq(Proposal), AddsClients(proposals),
         NEW committer \in Leaf,
         ApplyProposals(t, proposals, committer).ok
  PROVE  LET u == ApplyProposals(t, proposals, committer).tree
         IN  /\ u \in Tree
             /\ OneLeafEach(u)
             /\ t[committer] # Nobody => u[committer] = t[committer]
             /\ \A i \in OfKind(proposals, "add") :
                  proposals[i].target \in MembersOf(u) \ MembersOf(t)
             /\ \A leaf \in Leaf : t[leaf] # Nobody /\ u[leaf] = Nobody =>
                  /\ t[leaf] \notin MembersOf(u)
                  /\ ~ApplyProposals(u, proposals, committer).ok
<1> DEFINE result == ApplyProposals(t, proposals, committer)
           u      == result.tree
           adds   == OfKind(proposals, "add")
           blank  == BlankLeaves(t, proposals)
<1>1. CASE OfKind(proposals, "reinit") # {}
  <2>1. Len(proposals) = 1 /\ u = t
    BY <1>1 DEF ApplyProposals
  <2>2. DOMAIN proposals = {1}
    BY <2>1, LenProperties
  <2>3. adds = {}
    BY <1>1, <2>2 DEF OfKind
  <2> QED
    BY <2>1, <2>3
<1>2. CASE OfKind(proposals, "reinit") = {}
  <2>1. u = ApplyTreeMutations(t, proposals) /\ ValidateProposals(t, proposals, committer)
    BY <1>2 DEF ApplyProposals
  <2>2. adds \subseteq Nat
    BY LenProperties DEF OfKind
  <2>3. \A i \in adds : proposals[i].target \in Client \ MembersOf(t)
    BY <2>1 DEF ValidateProposals, AddsClients
  <2>4. AddsNewcomers(t, proposals)
    <3>1. \A i, j \in adds : proposals[i].target = proposals[j].target => i = j
      BY <2>1 DEF ValidateProposals
    <3> QED
      BY <2>3, <3>1 DEF AddsNewcomers, AddsClients, MembersOf
  <2> HIDE DEF result, u, adds, blank
  <2>5. /\ u \in Tree
        /\ OneLeafEach(u)
        /\ \A leaf \in Leaf \ blank : u[leaf] = t[leaf]
        /\ \A leaf \in blank :
             u[leaf] # Nobody => \E i \in adds : u[leaf] = proposals[i].target
        /\ \A i \in adds : \E leaf \in blank : u[leaf] = proposals[i].target
    BY <2>1, <2>2, <2>4, TreeMutations DEF adds, blank
  <2>6. t[committer] # Nobody => u[committer] = t[committer]
    <3>1. t[committer] # Nobody => committer \notin blank
      BY <2>1 DEF ValidateProposals, BlankLeaves, blank
    <3> QED
      BY <2>5, <3>1
  <2>7. \A i \in adds : proposals[i].target \in MembersOf(u) \ MembersOf(t)
    <3>1. blank \subseteq Leaf
      BY DEF blank, BlankLeaves
    <3> QED
      BY <2>3, <2>5, <3>1 DEF MembersOf
  <2>8. ASSUME NEW leaf \in Leaf, t[leaf] # Nobody, u[leaf] = Nobody
        PROVE  /\ t[leaf] \notin MembersOf(u)
               /\ ~ApplyProposals(u, proposals, committer).ok
    <3>1. leaf \in blank
      BY <2>5, <2>8
    <3>2. \E i \in OfKind(proposals, "remove") : proposals[i].target = leaf
      BY <2>8, <3>1 DEF blank, BlankLeaves
    <3>3. ~ApplyProposals(u, proposals, committer).ok
      BY <1>2, <2>8, <3>2 DEF ApplyProposals, ValidateProposals
    <3>4. ASSUME NEW k \in Leaf, u[k] = t[leaf] PROVE FALSE
      <4>1. CASE k \in blank
        <5>1. t[leaf] \in MembersOf(t)
          BY <2>8 DEF Tree, MembersOf
        <5> QED
          BY <2>3, <2>5, <2>8, <3>4, <4>1, <5>1
      <4>2. CASE k \notin blank
        <5>1. k = leaf
          BY <2>5, <2>8, <3>4, <4>2 DEF OneLeafEach
        <5> QED
          BY <2>8, <3>4, <5>1
      <4> QED
        BY <4>1, <4>2
    <3> QED
      BY <3>3, <3>4 DEF MembersOf
  <2> QED
    BY <2>5, <2>6, <2>7, <2>8 DEF u, result, adds
<1> QED
  BY <1>1, <1>2

\* The commit of a joiner, which removes it where it is and nobody else.
RemovesOnly(t, removes, joiner) ==
  /\ \A i \in DOMAIN removes : removes[i].kind = "remove" /\ t[removes[i].target] = joiner
  /\ \A leaf \in Leaf : t[leaf] = joiner => \E i \in DOMAIN removes : removes[i].target = leaf

LEMMA JoinerCommit ==
  ASSUME NEW t \in Tree, OneLeafEach(t), NEW joiner \in Client,
         NEW removes \in Seq(Proposal), RemovesOnly(t, removes, joiner)
  PROVE  LET u == ExternalTree(t, removes, joiner)
         IN  /\ u \in Tree
             /\ OneLeafEach(u)
             /\ MembersOf(u) = MembersOf(t) \union {joiner}
<1> DEFINE add  == [kind |-> "add", target |-> joiner]
           all  == Append(removes, add)
           u    == ApplyTreeMutations(t, all)
           last == Len(removes) + 1
           blank == BlankLeaves(t, all)
<1>1. /\ DOMAIN removes = 1 .. Len(removes) /\ Len(removes) \in Nat
      /\ DOMAIN all = 1 .. last
      /\ \A i \in DOMAIN removes : all[i] = removes[i]
      /\ all[last] = add
  <2>1. removes \in Seq(Proposal \union {add})
    BY SeqMonotonic
  <2> QED
    BY <2>1, LenProperties, AppendProperties
<1>2. OfKind(all, "add") = {last}
  BY <1>1 DEF OfKind, RemovesOnly
<1>3. OfKind(all, "remove") = DOMAIN removes
  BY <1>1 DEF OfKind, RemovesOnly
<1>4. blank = {leaf \in Leaf : t[leaf] = Nobody \/ t[leaf] = joiner}
  <2>1. \A leaf \in Leaf :
           (\E i \in DOMAIN removes : all[i].target = leaf) <=> t[leaf] = joiner
    BY <1>1 DEF RemovesOnly
  <2> QED
    BY <1>3, <2>1 DEF BlankLeaves
<1> HIDE DEF all, blank
<1>5. AddsNewcomers(t, all)
  BY <1>1, <1>2, <1>4 DEF AddsNewcomers, blank
<1>6. /\ u \in Tree
      /\ OneLeafEach(u)
      /\ \A leaf \in Leaf \ blank : u[leaf] = t[leaf]
      /\ \A leaf \in blank : u[leaf] # Nobody => u[leaf] = joiner
      /\ \E leaf \in blank : u[leaf] = joiner
  <2>1. last \in Nat /\ all[last].target = joiner
    BY <1>1
  <2>2. OfKind(all, "add") \subseteq Nat
    BY <1>2, <2>1
  <2> HIDE DEF last
  <2> QED
    BY <1>2, <1>5, <2>1, <2>2, TreeMutations DEF blank
<1>7. MembersOf(u) = MembersOf(t) \union {joiner}
  BY <1>4, <1>6, ClientAssumption DEF MembersOf
<1>8. u = ExternalTree(t, removes, joiner)
  BY DEF ExternalTree, all
<1> QED
  BY <1>6, <1>7, <1>8

-----------------------------------------------------------------------------
(* The inductive invariant.                                                *)

Proposals(commit) == commit.references \o commit.byValue

MadeByMember(t, commit) ==
  LET result == ApplyProposals(t, Proposals(commit), commit.committer)
  IN  /\ commit.joiner = Nobody /\ commit.committer \in Leaf
      /\ AddsClients(Proposals(commit))
      /\ result.ok /\ commit.tree = result.tree

MadeByJoiner(t, commit) ==
  /\ commit.joiner \in Client /\ commit.references = <<>>
  /\ RemovesOnly(t, commit.byValue, commit.joiner)
  /\ commit.tree = ExternalTree(t, commit.byValue, commit.joiner)

\* Every tree comes from the one before by the proposals of its commit, and no
\* client has two leaves in it.
TreesInv ==
  /\ Newest <= MaxEpoch
  /\ \A e \in 0 .. Newest : OneLeafEach(TreeAt(e))
  /\ \A e \in 1 .. Newest : MadeByMember(TreeAt(e - 1), log[e]) \/ MadeByJoiner(TreeAt(e - 1), log[e])

\* A proposal is of an epoch that has begun, by a leaf occupied in it.
NetworkInv ==
  \A p \in network :
    /\ p.kind = "add" => p.target \in Client
    /\ p.epoch <= Newest
    /\ p.sender = Nobody \/ TreeAt(p.epoch)[p.sender] # Nobody

\* A removed client has applied the next commit; it cannot do so again.
Expelled(e, t) ==
  /\ e < Newest
  /\ log[e + 1].joiner = Nobody
  /\ ~ApplyProposals(t, Proposals(log[e + 1]), log[e + 1].committer).ok

ClientInv(c) ==
  /\ epoch[c] <= Newest
  /\ ToSet(unapplied[c]) \subseteq network
  /\ InGroup(c) => tree[c] = TreeAt(epoch[c])
  /\ status[c] # "outside" => TreeAt(epoch[c])[leafIndex[c]] = c
  /\ status[c] = "removedFromGroup" => Expelled(epoch[c], tree[c])

GroupInv ==
  /\ TypeOK
  /\ TreesInv
  /\ NetworkInv
  /\ \A c \in Client : ClientInv(c)
  /\ PendingIsCurrent

\* The trees of the group are well typed.
LEMMA TreeAtType ==
  ASSUME TypeOK
  PROVE  /\ Newest \in Nat
         /\ \A e \in 1 .. Newest : log[e] \in Commit /\ TreeAt(e) = log[e].tree
         /\ \A e \in 0 .. Newest : TreeAt(e) \in Tree
<1>1. Newest \in Nat /\ \A e \in 1 .. Newest : log[e] \in Commit
  BY LenProperties, ElementOfSeq DEF TypeOK, Newest
<1>2. \A e \in 1 .. Newest : TreeAt(e) = log[e].tree /\ log[e].tree \in Tree
  BY <1>1 DEF TreeAt, Commit
<1>3. TreeAt(0) \in Tree
  BY FoundingTreeAssumption DEF TreeAt
<1> QED
  BY <1>1, <1>2, <1>3

\* The history so far stays.
HistoryKept ==
  /\ Newest <= Newest'
  /\ \A e \in 1 .. Newest : log'[e] = log[e]
  /\ \A e \in 0 .. Newest : TreeAt(e)' = TreeAt(e)

LEMMA UnchangedHistory ==
  ASSUME TypeOK, log' = log
  PROVE  HistoryKept /\ Newest' = Newest /\ \A e \in 0 .. Newest : TreeAt(e)' = TreeAt(e)
  BY TreeAtType DEF HistoryKept, Newest, TreeAt

\* A new commit adds its tree.
LEMMA TreesGrow ==
  ASSUME Newest \in Nat, Newest' = Newest + 1, NEW commit, log'[Newest + 1] = commit,
         \A e \in 1 .. Newest : log'[e] = log[e]
  PROVE  /\ \A e \in 0 .. Newest' : TreeAt(e)' = IF e = Newest + 1 THEN commit.tree ELSE TreeAt(e)
         /\ HistoryKept
<1>1. ASSUME NEW e \in 0 .. Newest'
      PROVE  TreeAt(e)' = IF e = Newest + 1 THEN commit.tree ELSE TreeAt(e)
  <2>1. CASE e = 0
    BY <2>1 DEF TreeAt
  <2>2. CASE e \in 1 .. Newest
    <3>1. e # 0 /\ e # Newest + 1 /\ log'[e] = log[e]
      BY <2>2
    <3> QED
      BY <3>1 DEF TreeAt
  <2>3. CASE e = Newest + 1
    <3>1. e # 0 /\ log'[e] = commit
      BY <2>3
    <3> QED
      BY <2>3, <3>1 DEF TreeAt
  <2> QED
    BY <2>1, <2>2, <2>3
<1>2. ASSUME NEW e \in 0 .. Newest PROVE TreeAt(e)' = TreeAt(e)
  <2>1. e \in 0 .. Newest' /\ e # Newest + 1
    OBVIOUS
  <2> QED
    BY <1>1, <2>1
<1>3. Newest <= Newest'
  OBVIOUS
<1> QED
  BY <1>1, <1>2, <1>3 DEF HistoryKept

LEMMA HistoryGrows ==
  ASSUME TypeOK, NEW commit \in Commit, log' = Append(log, commit)
  PROVE  /\ log' \in Seq(Commit)
         /\ Newest' = Newest + 1
         /\ log'[Newest + 1] = commit
         /\ \A e \in 0 .. Newest' : TreeAt(e)' = IF e = Newest + 1 THEN commit.tree ELSE TreeAt(e)
         /\ HistoryKept
<1>1. /\ log' \in Seq(Commit) /\ Newest' = Newest + 1 /\ log'[Newest + 1] = commit
      /\ \A e \in 1 .. Newest : log'[e] = log[e]
  BY AppendProperties DEF TypeOK, Newest
<1>2. Newest \in Nat
  BY TreeAtType
<1> QED
  BY <1>1, <1>2, TreesGrow

\* The state of the client that enters an epoch, and those of the others.
LEMMA Entering ==
  ASSUME TypeOK, NEW c \in Client, NEW e \in Epoch, NEW t \in Tree, NEW leaf \in Leaf,
         NEW active \in Status, Enter(c, e, t, leaf, active)
  PROVE  /\ /\ status' \in [Client -> Status] /\ epoch' \in [Client -> Epoch]
            /\ tree' \in [Client -> Tree] /\ leafIndex' \in [Client -> Leaf]
            /\ unapplied' \in [Client -> Seq(Proposal)]
         /\ /\ status'[c] = active /\ epoch'[c] = e /\ tree'[c] = t
            /\ leafIndex'[c] = leaf /\ unapplied'[c] = <<>>
         /\ \A d \in Client \ {c} :
              /\ status'[d] = status[d] /\ epoch'[d] = epoch[d] /\ tree'[d] = tree[d]
              /\ leafIndex'[d] = leafIndex[d] /\ unapplied'[d] = unapplied[d]
<1>1. <<>> \in Seq(Proposal)
  BY EmptySeq
<1> QED
  BY <1>1 DEF Enter, TypeOK

\* With the history kept, the proposals sent so far remain what they were.
LEMMA NetworkKept ==
  ASSUME TypeOK, NetworkInv, HistoryKept, Newest' \in Nat
  PROVE  \A p \in network :
           /\ p.kind = "add" => p.target \in Client
           /\ p.epoch <= Newest'
           /\ p.sender = Nobody \/ TreeAt(p.epoch)'[p.sender] # Nobody
<1> SUFFICES ASSUME NEW p \in network
             PROVE  /\ p.kind = "add" => p.target \in Client
                    /\ p.epoch <= Newest'
                    /\ p.sender = Nobody \/ TreeAt(p.epoch)'[p.sender] # Nobody
  OBVIOUS
<1>1. Newest \in Nat /\ p.epoch \in Nat
  <2>1. p \in Proposal
    BY DEF TypeOK
  <2>2. p.epoch \in Nat
    BY <2>1, BoundsAssumption DEF Proposal, Epoch
  <2> QED
    BY <2>2, TreeAtType
<1>2. p.epoch <= Newest
  BY DEF NetworkInv
<1>3. p.epoch \in 0 .. Newest /\ p.epoch <= Newest'
  BY <1>1, <1>2 DEF HistoryKept
<1>4. TreeAt(p.epoch)' = TreeAt(p.epoch)
  BY <1>3 DEF HistoryKept
<1> QED
  BY <1>3, <1>4 DEF NetworkInv

\* A client whose state does not change stays in order while others go on.
LEMMA ClientKept ==
  ASSUME TypeOK, NEW d \in Client, ClientInv(d), HistoryKept, Newest' \in Nat,
         network \subseteq network', ToSet(unapplied'[d]) \subseteq network',
         status'[d] = status[d], epoch'[d] = epoch[d], tree'[d] = tree[d],
         leafIndex'[d] = leafIndex[d]
  PROVE  ClientInv(d)'
<1>1. epoch[d] \in Nat /\ Newest \in Nat
  BY TreeAtType, BoundsAssumption DEF TypeOK, Epoch
<1>2. epoch[d] \in 0 .. Newest /\ epoch[d] <= Newest'
  BY <1>1 DEF ClientInv, HistoryKept
<1>3. TreeAt(epoch[d])' = TreeAt(epoch[d])
  BY <1>2 DEF HistoryKept, TreeAt
<1>4. InGroup(d)' <=> InGroup(d)
  BY DEF InGroup
<1>5. Expelled(epoch[d], tree[d]) => Expelled(epoch[d], tree[d])'
  <2>1. SUFFICES ASSUME epoch[d] < Newest PROVE log'[epoch[d] + 1] = log[epoch[d] + 1] /\ epoch[d] < Newest'
    BY DEF Expelled
  <2>2. epoch[d] + 1 \in 1 .. Newest
    BY <1>1, <2>1
  <2> QED
    BY <1>1, <2>1, <2>2 DEF HistoryKept
<1> QED
  BY <1>2, <1>3, <1>4, <1>5 DEF ClientInv

\* A client enters an epoch of the history, with the network as it was.
LEMMA EnteringKeepsInv ==
  ASSUME GroupInv, HistoryKept, Newest' \in Nat, log' \in Seq(Commit), TreesInv', network' = network,
         NEW c \in Client, NEW e \in Epoch, NEW t \in Tree, NEW leaf \in Leaf,
         NEW active \in Status \ {"outside"}, Enter(c, e, t, leaf, active),
         e <= Newest', TreeAt(e)'[leaf] = c,
         active # "removedFromGroup" => t = TreeAt(e)',
         active = "removedFromGroup" => Expelled(e, t)'
  PROVE  GroupInv'
<1>1. /\ /\ status' \in [Client -> Status] /\ epoch' \in [Client -> Epoch]
         /\ tree' \in [Client -> Tree] /\ leafIndex' \in [Client -> Leaf]
         /\ unapplied' \in [Client -> Seq(Proposal)]
      /\ /\ status'[c] = active /\ epoch'[c] = e /\ tree'[c] = t
         /\ leafIndex'[c] = leaf /\ unapplied'[c] = <<>>
      /\ \A d \in Client \ {c} :
           /\ status'[d] = status[d] /\ epoch'[d] = epoch[d] /\ tree'[d] = tree[d]
           /\ leafIndex'[d] = leafIndex[d] /\ unapplied'[d] = unapplied[d]
  BY Entering DEF GroupInv
<1>2. TypeOK'
  BY <1>1 DEF GroupInv, TypeOK
<1>3. NetworkInv'
  BY NetworkKept DEF GroupInv, NetworkInv
<1>4. ToSet(<<>>) = {}
  BY DEF ToSet
<1>5. ASSUME NEW d \in Client PROVE ClientInv(d)'
  <2>1. CASE d = c
    <3>1. (TreeAt(epoch[c]))' = TreeAt(e)'
      BY <1>1 DEF TreeAt
    <3> QED
      BY <1>1, <1>4, <2>1, <3>1 DEF ClientInv, InGroup, Expelled
  <2>2. CASE d # c
    BY <1>1, <2>2, ClientKept DEF GroupInv, ClientInv
  <2> QED
    BY <2>1, <2>2
<1>6. PendingIsCurrent'
  <2> SUFFICES ASSUME NEW d \in Client, InGroup(d)', NEW p \in ToSet(unapplied'[d])
               PROVE  \/ p.sender = Nobody /\ p.epoch >= epoch'[d]
                      \/ p.epoch = epoch'[d] /\ tree'[d][p.sender] # Nobody
    BY DEF PendingIsCurrent
  <2>1. d # c
    BY <1>1, <1>4
  <2>2. InGroup(d) /\ p \in ToSet(unapplied[d]) /\ epoch'[d] = epoch[d] /\ tree'[d] = tree[d]
    BY <1>1, <2>1 DEF InGroup
  <2>3. \/ p.sender = Nobody /\ p.epoch >= epoch[d]
        \/ p.epoch = epoch[d] /\ tree[d][p.sender] # Nobody
    BY <2>2 DEF GroupInv, PendingIsCurrent
  <2> QED
    BY <2>2, <2>3
<1> QED
  BY <1>2, <1>3, <1>5, <1>6 DEF GroupInv

LEMMA AddUnapplied ==
  ASSUME NEW proposals \in Seq(Proposal), NEW proposal \in Proposal
  PROVE  /\ AddUnappliedProposal(proposals, proposal) \in Seq(Proposal)
         /\ ToSet(AddUnappliedProposal(proposals, proposal)) = ToSet(proposals) \union {proposal}
<1>1. CASE proposal \in ToSet(proposals)
  BY <1>1 DEF AddUnappliedProposal
<1>2. CASE proposal \notin ToSet(proposals)
  <2> DEFINE new == Append(proposals, proposal)
  <2>1. new \in Seq(Proposal) /\ DOMAIN new = 1 .. Len(proposals) + 1
    BY AppendProperties, LenProperties
  <2>2. /\ Len(proposals) \in Nat /\ DOMAIN proposals = 1 .. Len(proposals)
        /\ \A i \in 1 .. Len(proposals) : new[i] = proposals[i]
        /\ new[Len(proposals) + 1] = proposal
    BY AppendProperties, LenProperties
  <2>3. AddUnappliedProposal(proposals, proposal) = new
    BY <1>2 DEF AddUnappliedProposal
  <2> HIDE DEF new
  <2>4. ToSet(new) = ToSet(proposals) \union {proposal}
    <3>1. 1 .. Len(proposals) + 1 = 1 .. Len(proposals) \union {Len(proposals) + 1}
      BY <2>2
    <3> QED
      BY <2>1, <2>2, <3>1 DEF ToSet
  <2> QED
    BY <2>1, <2>3, <2>4
<1> QED
  BY <1>1, <1>2

\* A client takes up a proposal of its epoch, perhaps one that is sent with it.
LEMMA PendingGrows ==
  ASSUME GroupInv, UNCHANGED <<status, epoch, tree, leafIndex, log>>,
         NEW c \in Client, NEW proposal \in Proposal,
         network' = network \union {proposal},
         unapplied' = [unapplied EXCEPT ![c] = AddUnappliedProposal(@, proposal)],
         proposal.kind = "add" => proposal.target \in Client,
         proposal.epoch <= Newest,
         proposal.sender = Nobody \/ TreeAt(proposal.epoch)[proposal.sender] # Nobody,
         InGroup(c) => \/ proposal.sender = Nobody /\ proposal.epoch >= epoch[c]
                       \/ proposal.epoch = epoch[c] /\ tree[c][proposal.sender] # Nobody
  PROVE  GroupInv'
<1>1. /\ unapplied[c] \in Seq(Proposal)
      /\ unapplied' \in [Client -> Seq(Proposal)]
      /\ ToSet(unapplied'[c]) = ToSet(unapplied[c]) \union {proposal}
      /\ \A d \in Client \ {c} : unapplied'[d] = unapplied[d]
  BY AddUnapplied DEF GroupInv, TypeOK
<1>2. TypeOK'
  BY <1>1 DEF GroupInv, TypeOK
<1>3. HistoryKept /\ Newest' = Newest /\ Newest' \in Nat
  BY UnchangedHistory, TreeAtType DEF GroupInv
<1>4. TreesInv'
  BY DEF GroupInv, TreesInv, TreeAt, Newest
<1>5. NetworkInv'
  <2>1. \A p \in network :
           /\ p.kind = "add" => p.target \in Client
           /\ p.epoch <= Newest'
           /\ p.sender = Nobody \/ TreeAt(p.epoch)'[p.sender] # Nobody
    BY <1>3, NetworkKept DEF GroupInv
  <2>2. TreeAt(proposal.epoch)' = TreeAt(proposal.epoch)
    BY DEF TreeAt
  <2> QED
    BY <1>3, <2>1, <2>2 DEF NetworkInv
<1>6. ASSUME NEW d \in Client PROVE ClientInv(d)'
  <2>1. ToSet(unapplied[d]) \subseteq network
    BY DEF GroupInv, ClientInv
  <2>2. ToSet(unapplied'[d]) \subseteq network'
    BY <1>1, <2>1
  <2> QED
    BY <1>3, <2>2, ClientKept DEF GroupInv
<1>7. PendingIsCurrent'
  BY <1>1 DEF GroupInv, PendingIsCurrent, InGroup
<1> QED
  BY <1>2, <1>4, <1>5, <1>6, <1>7 DEF GroupInv

\* A new commit, made from the newest tree, keeps the trees in order.
LEMMA CommitKeepsTrees ==
  ASSUME TypeOK, TreesInv, Newest < MaxEpoch, NEW commit \in Commit, log' = Append(log, commit),
         OneLeafEach(commit.tree),
         MadeByMember(TreeAt(Newest), commit) \/ MadeByJoiner(TreeAt(Newest), commit)
  PROVE  TreesInv'
<1>1. /\ Newest \in Nat
      /\ Newest' = Newest + 1
      /\ log'[Newest + 1] = commit
      /\ \A e \in 0 .. Newest' : TreeAt(e)' = IF e = Newest + 1 THEN commit.tree ELSE TreeAt(e)
      /\ HistoryKept
  BY HistoryGrows, TreeAtType
<1>2. ASSUME NEW e \in 0 .. Newest' PROVE OneLeafEach(TreeAt(e)')
  <2>1. e = Newest + 1 \/ e \in 0 .. Newest
    BY <1>1
  <2> QED
    BY <1>1, <2>1 DEF TreesInv
<1>3. ASSUME NEW e \in 1 .. Newest'
      PROVE  MadeByMember(TreeAt(e - 1)', log'[e]) \/ MadeByJoiner(TreeAt(e - 1)', log'[e])
  <2>1. e - 1 \in 0 .. Newest
    BY <1>1
  <2>2. TreeAt(e - 1)' = TreeAt(e - 1)
    BY <2>1, <1>1 DEF HistoryKept
  <2>3. CASE e = Newest + 1
    <3>1. e - 1 = Newest
      BY <1>1, <2>3
    <3> QED
      BY <1>1, <2>2, <2>3, <3>1
  <2>4. CASE e \in 1 .. Newest
    BY <1>1, <2>2, <2>4 DEF TreesInv, HistoryKept
  <2>5. e = Newest + 1 \/ e \in 1 .. Newest
    BY <1>1
  <2> QED
    BY <2>3, <2>4, <2>5
<1>4. Newest' <= MaxEpoch
  BY <1>1, BoundsAssumption
<1> QED
  BY <1>2, <1>3, <1>4 DEF TreesInv

-----------------------------------------------------------------------------
(* Every action keeps the invariant.                                       *)

LEMMA CreateProposalKeepsInv ==
  ASSUME GroupInv, NEW c \in Client, CreateProposal(c)
  PROVE  GroupInv'
<1>1. PICK kind \in ProposalKind, target \in Client \union Leaf \union {Nobody} :
        /\ target \in Targets(c, kind)
        /\ network' = network \union {Sent(c, kind, target)}
        /\ unapplied' = [unapplied EXCEPT ![c] = AddUnappliedProposal(@, Sent(c, kind, target))]
  BY DEF CreateProposal
<1> DEFINE proposal == Sent(c, kind, target)
<1>2. proposal \in Proposal /\ proposal.epoch = epoch[c] /\ proposal.sender = leafIndex[c]
  BY DEF Sent, Proposal, GroupInv, TypeOK
<1>3. proposal.kind = "add" => proposal.target \in Client
  BY <1>1 DEF Sent, Targets
<1>4. epoch[c] <= Newest /\ TreeAt(epoch[c])[leafIndex[c]] = c /\ c # Nobody
  BY ClientAssumption DEF CreateProposal, GroupInv, ClientInv
<1>5. InGroup(c) => tree[c][leafIndex[c]] # Nobody
  BY <1>4 DEF GroupInv, ClientInv
<1>6. UNCHANGED <<status, epoch, tree, leafIndex, log>>
  BY DEF CreateProposal
<1> HIDE DEF proposal
<1> QED
  BY <1>1, <1>2, <1>3, <1>4, <1>5, <1>6, PendingGrows DEF proposal

LEMMA ProposeAddExternalKeepsInv ==
  ASSUME GroupInv, NEW c \in Client, ProposeAddExternal(c)
  PROVE  GroupInv'
<1> DEFINE proposal == [epoch |-> Newest, sender |-> Nobody, kind |-> "add", target |-> c]
<1>1. /\ network' = network \union {proposal}
      /\ UNCHANGED <<status, epoch, tree, leafIndex, unapplied, log>>
  BY DEF ProposeAddExternal
<1>2. HistoryKept /\ Newest' = Newest /\ Newest' \in Nat
  BY <1>1, UnchangedHistory, TreeAtType DEF GroupInv
<1>3. TypeOK'
  <2>1. Newest \in Epoch
    BY <1>2, BoundsAssumption DEF GroupInv, TreesInv, Epoch
  <2>2. proposal \in Proposal
    BY <2>1 DEF Proposal
  <2> QED
    BY <1>1, <2>2 DEF GroupInv, TypeOK
<1>4. TreesInv'
  BY <1>1 DEF GroupInv, TreesInv, TreeAt, Newest
<1>5. NetworkInv'
  <2>1. \A p \in network :
           /\ p.kind = "add" => p.target \in Client
           /\ p.epoch <= Newest'
           /\ p.sender = Nobody \/ TreeAt(p.epoch)'[p.sender] # Nobody
    BY <1>2, NetworkKept DEF GroupInv
  <2> QED
    BY <1>1, <1>2, <2>1 DEF NetworkInv
<1>6. ASSUME NEW d \in Client PROVE ClientInv(d)'
  <2>1. ToSet(unapplied'[d]) \subseteq network'
    BY <1>1 DEF GroupInv, ClientInv
  <2> QED
    BY <1>1, <1>2, <2>1, ClientKept DEF GroupInv
<1>7. PendingIsCurrent'
  BY <1>1 DEF GroupInv, PendingIsCurrent, InGroup
<1> QED
  BY <1>3, <1>4, <1>5, <1>6, <1>7 DEF GroupInv

LEMMA ProcessProposalKeepsInv ==
  ASSUME GroupInv, NEW c \in Client, NEW proposal \in network, ProcessProposal(c, proposal)
  PROVE  GroupInv'
<1>1. /\ unapplied' = [unapplied EXCEPT ![c] = AddUnappliedProposal(@, proposal)]
      /\ UNCHANGED <<status, epoch, tree, leafIndex, log>>
      /\ network' = network \union {proposal}
  BY DEF ProcessProposal
<1>2. /\ proposal \in Proposal
      /\ proposal.kind = "add" => proposal.target \in Client
      /\ proposal.epoch <= Newest
      /\ proposal.sender = Nobody \/ TreeAt(proposal.epoch)[proposal.sender] # Nobody
  BY DEF GroupInv, NetworkInv, TypeOK
<1>3. \/ proposal.sender = Nobody /\ proposal.epoch >= epoch[c]
      \/ proposal.sender # Nobody /\ proposal.epoch = epoch[c]
  BY DEF ProcessProposal
<1>4. InGroup(c) => tree[c] = TreeAt(epoch[c])
  BY DEF GroupInv, ClientInv
<1>5. InGroup(c) => \/ proposal.sender = Nobody /\ proposal.epoch >= epoch[c]
                    \/ proposal.epoch = epoch[c] /\ tree[c][proposal.sender] # Nobody
  BY <1>2, <1>3, <1>4
<1> QED
  BY <1>1, <1>2, <1>5, PendingGrows

LEMMA LeafOfMember ==
  ASSUME NEW t, NEW c \in MembersOf(t)
  PROVE  LeafOf(t, c) \in Leaf /\ t[LeafOf(t, c)] = c
  BY DEF MembersOf, LeafOf

\* The commit that ends an epoch of the history.
LEMMA CommitOf ==
  ASSUME GroupInv, NEW e \in Nat, e < Newest
  PROVE  /\ e \in Epoch /\ e + 1 \in Epoch
         /\ TreeAt(e) \in Tree /\ OneLeafEach(TreeAt(e))
         /\ log[e + 1] \in Commit /\ TreeAt(e + 1) = log[e + 1].tree
         /\ Proposals(log[e + 1]) \in Seq(Proposal)
         /\ MadeByMember(TreeAt(e), log[e + 1]) \/ MadeByJoiner(TreeAt(e), log[e + 1])
<1>1. Newest \in Nat /\ Newest <= MaxEpoch /\ MaxEpoch \in Nat
  BY TreeAtType, BoundsAssumption DEF GroupInv, TreesInv
<1>2. e \in Epoch /\ e + 1 \in Epoch /\ e \in 0 .. Newest /\ e + 1 \in 1 .. Newest /\ (e + 1) - 1 = e
  BY <1>1 DEF Epoch
<1>3. TreeAt(e) \in Tree /\ log[e + 1] \in Commit /\ TreeAt(e + 1) = log[e + 1].tree
  BY <1>2, TreeAtType DEF GroupInv
<1>4. OneLeafEach(TreeAt(e))
  BY <1>2 DEF GroupInv, TreesInv
<1>5. MadeByMember(TreeAt(e), log[e + 1]) \/ MadeByJoiner(TreeAt(e), log[e + 1])
  <2>1. MadeByMember(TreeAt((e + 1) - 1), log[e + 1]) \/ MadeByJoiner(TreeAt((e + 1) - 1), log[e + 1])
    BY <1>2 DEF GroupInv, TreesInv
  <2> QED
    BY <1>2, <2>1
<1>6. Proposals(log[e + 1]) \in Seq(Proposal)
  BY <1>3, ConcatProperties DEF Commit, Proposals
<1> QED
  BY <1>2, <1>3, <1>4, <1>5, <1>6

LEMMA CreateCommitKeepsInv ==
  ASSUME GroupInv, NEW c \in Client, CreateCommit(c)
  PROVE  GroupInv'
<1> DEFINE extras == {<<>>} \union {<<Sent(c, kind, target)>> :
                        kind \in ProposalKind, target \in Client \union Leaf \union {Nobody}}
           proposals(extra) == unapplied[c] \o extra
           result(extra) == ApplyProposals(tree[c], proposals(extra), leafIndex[c])
           newCommit(extra) == [committer |-> leafIndex[c], joiner |-> Nobody,
                                references |-> unapplied[c], byValue |-> extra,
                                tree |-> result(extra).tree]
           active(extra) == IF result(extra).reinit THEN "suspendedPendingReinit" ELSE "active"
<1>1. PICK extra \in extras :
        /\ \A i \in DOMAIN extra : extra[i].target \in Targets(c, extra[i].kind)
        /\ result(extra).ok
        /\ log' = Append(log, newCommit(extra))
        /\ Enter(c, Newest + 1, result(extra).tree, leafIndex[c], active(extra))
  BY SMTT(30) DEF CreateCommit
<1>2. /\ status[c] = "active" /\ epoch[c] = Newest /\ Newest < MaxEpoch /\ network' = network
      /\ Newest \in Nat /\ MaxEpoch \in Nat
  BY BoundsAssumption, TreeAtType DEF CreateCommit, CheckCanSendHandshakeMessages, GroupInv
<1>3. /\ tree[c] = TreeAt(Newest) /\ tree[c] \in Tree /\ leafIndex[c] \in Leaf
      /\ unapplied[c] \in Seq(Proposal) /\ epoch[c] \in Epoch
      /\ tree[c][leafIndex[c]] = c /\ c # Nobody
  BY <1>2, ClientAssumption DEF GroupInv, TypeOK, ClientInv, InGroup
<1>4. OneLeafEach(tree[c])
  <2>1. Newest \in 0 .. Newest
    BY <1>2
  <2> QED
    BY <1>3, <2>1 DEF GroupInv, TreesInv
<1>5. /\ extra \in Seq(Proposal) /\ AddsClients(extra)
  <2>1. CASE extra = <<>>
    BY <2>1, EmptySeq DEF AddsClients, OfKind
  <2>2. CASE extra # <<>>
    <3>1. PICK kind \in ProposalKind, target \in Client \union Leaf \union {Nobody} :
            extra = <<Sent(c, kind, target)>>
      BY <2>2
    <3>2. Sent(c, kind, target) \in Proposal /\ Sent(c, kind, target).kind = kind
          /\ Sent(c, kind, target).target = target
      BY <1>3 DEF Sent, Proposal
    <3>3. DOMAIN extra = {1} /\ extra[1] = Sent(c, kind, target) /\ extra \in Seq(Proposal)
      BY <3>1, <3>2
    <3>4. kind = "add" => target \in Client
      BY <1>1, <3>2, <3>3 DEF Targets
    <3> QED
      BY <3>2, <3>3, <3>4 DEF AddsClients, OfKind
  <2> QED
    BY <2>1, <2>2
<1> HIDE DEF extras
<1>6. proposals(extra) \in Seq(Proposal) /\ AddsClients(proposals(extra))
  <2>1. AddsClients(unapplied[c])
    <3>1. \A p \in ToSet(unapplied[c]) : p.kind = "add" => p.target \in Client
      BY DEF GroupInv, ClientInv, NetworkInv
    <3>2. \A i \in DOMAIN unapplied[c] : unapplied[c][i] \in ToSet(unapplied[c])
      BY DEF ToSet
    <3> QED
      BY <3>1, <3>2 DEF AddsClients, OfKind
  <2> DEFINE all == proposals(extra)
             m == Len(unapplied[c])
             n == Len(extra)
  <2>2. /\ all \in Seq(Proposal) /\ m \in Nat /\ n \in Nat
        /\ DOMAIN all = 1 .. m + n /\ DOMAIN unapplied[c] = 1 .. m /\ DOMAIN extra = 1 .. n
        /\ \A i \in 1 .. m + n : all[i] = IF i <= m THEN unapplied[c][i] ELSE extra[i - m]
    BY <1>3, <1>5, ConcatProperties, LenProperties
  <2> HIDE DEF all, m, n
  <2>3. ASSUME NEW i \in DOMAIN all, all[i].kind = "add" PROVE all[i].target \in Client
    <3>1. CASE i <= m
      <4>1. i \in DOMAIN unapplied[c] /\ all[i] = unapplied[c][i]
        BY <2>2, <3>1
      <4> QED
        BY <2>1, <2>3, <4>1 DEF AddsClients, OfKind
    <3>2. CASE ~(i <= m)
      <4>1. i - m \in 1 .. n
        BY <2>2, <3>2
      <4>2. i - m \in DOMAIN extra /\ all[i] = extra[i - m]
        BY <2>2, <3>2, <4>1
      <4> QED
        BY <1>5, <2>3, <4>2 DEF AddsClients, OfKind
    <3> QED
      BY <3>1, <3>2
  <2> QED
    BY <2>2, <2>3 DEF AddsClients, OfKind, all
<1>7. PICK t \in Tree : /\ t = result(extra).tree
                        /\ OneLeafEach(t) /\ t[leafIndex[c]] = c
  <2> HIDE DEF proposals
  <2>1. LET u == ApplyProposals(tree[c], proposals(extra), leafIndex[c]).tree
        IN  /\ u \in Tree /\ OneLeafEach(u)
            /\ tree[c][leafIndex[c]] # Nobody => u[leafIndex[c]] = tree[c][leafIndex[c]]
    BY <1>1, <1>3, <1>4, <1>6, MemberCommit
  <2> QED
    BY <1>3, <2>1
<1>8. PICK commit \in Commit : commit = newCommit(extra) /\ MadeByMember(TreeAt(Newest), commit)
  <2>1. newCommit(extra) \in Commit
    BY <1>3, <1>5, <1>7 DEF Commit
  <2>2. MadeByMember(TreeAt(Newest), newCommit(extra))
    BY <1>1, <1>3, <1>6 DEF MadeByMember, Proposals
  <2> QED
    BY <2>1, <2>2
<1> DEFINE e == Newest + 1
<1>9. Enter(c, e, t, leafIndex[c], active(extra)) /\ active(extra) \in {"active", "suspendedPendingReinit"}
  BY <1>1, <1>7
<1> HIDE DEF proposals, result, newCommit, active
<1>10. log' = Append(log, commit) /\ commit.tree = t
  BY <1>1, <1>7, <1>8 DEF newCommit
<1>11. TreesInv'
  BY <1>2, <1>7, <1>8, <1>10, CommitKeepsTrees DEF GroupInv
<1>12. /\ log' \in Seq(Commit) /\ Newest' = Newest + 1 /\ HistoryKept
       /\ \A d \in 0 .. Newest' : TreeAt(d)' = IF d = Newest + 1 THEN commit.tree ELSE TreeAt(d)
  BY <1>10, HistoryGrows DEF GroupInv
<1>13. PICK f \in Epoch : f = Newest + 1 /\ f = Newest' /\ TreeAt(f)' = t /\ f <= Newest' /\ Newest' \in Nat
  <2>1. Newest + 1 \in Epoch /\ Newest + 1 \in 0 .. Newest'
    BY <1>2, <1>12 DEF Epoch
  <2> QED
    BY <1>2, <1>10, <1>12, <2>1
<1>14. PICK leaf \in Leaf, new \in Status \ {"outside", "removedFromGroup"} :
          leaf = leafIndex[c] /\ new = active(extra)
  BY <1>3, <1>9 DEF Status
<1>15. Enter(c, f, t, leaf, new) /\ t[leaf] = c
  BY <1>7, <1>9, <1>13, <1>14
<1> QED
  BY <1>2, <1>11, <1>12, <1>13, <1>15, EnteringKeepsInv

LEMMA JoinGroupExternalKeepsInv ==
  ASSUME GroupInv, NEW c \in Client, JoinGroupExternal(c)
  PROVE  GroupInv'
<1> DEFINE current == TreeAt(Newest)
           remove == [epoch |-> Newest, sender |-> Nobody,
                      kind |-> "remove", target |-> LeafOf(current, c)]
           removes == IF c \in MembersOf(current) THEN <<remove>> ELSE <<>>
           u == ExternalTree(current, removes, c)
           newCommit == [committer |-> Nobody, joiner |-> c, references |-> <<>>,
                         byValue |-> removes, tree |-> u]
<1>1. /\ Newest < MaxEpoch /\ network' = network
      /\ log' = Append(log, newCommit)
      /\ Enter(c, Newest + 1, u, LeafOf(u, c), "active")
  BY DEF JoinGroupExternal
<1>2. /\ Newest \in Nat /\ MaxEpoch \in Nat /\ Newest \in Epoch /\ Newest + 1 \in Epoch
      /\ current \in Tree /\ OneLeafEach(current)
  <2>1. Newest \in Nat /\ Newest \in 0 .. Newest /\ MaxEpoch \in Nat
    BY TreeAtType, BoundsAssumption DEF GroupInv
  <2>2. TreeAt(Newest) \in Tree
    BY <2>1, TreeAtType DEF GroupInv
  <2>3. OneLeafEach(TreeAt(Newest))
    BY <2>1 DEF GroupInv, TreesInv
  <2>4. Newest \in Epoch /\ Newest + 1 \in Epoch
    BY <1>1, <2>1 DEF Epoch
  <2> QED
    BY <2>1, <2>2, <2>3, <2>4
<1>3. removes \in Seq(Proposal) /\ RemovesOnly(current, removes, c)
  <2>1. CASE c \in MembersOf(current)
    <3>1. LeafOf(current, c) \in Leaf /\ current[LeafOf(current, c)] = c
      BY <2>1, LeafOfMember
    <3>2. remove \in Proposal
      BY <1>2, <3>1 DEF Proposal
    <3>3. removes \in Seq(Proposal) /\ DOMAIN removes = {1} /\ removes[1] = remove
      BY <2>1, <3>2
    <3>4. remove.kind = "remove" /\ remove.target = LeafOf(current, c)
      OBVIOUS
    <3>5. \A leaf \in Leaf : current[leaf] = c => leaf = LeafOf(current, c)
      BY <1>2, <3>1, ClientAssumption DEF OneLeafEach
    <3> HIDE DEF removes, remove, current
    <3> QED
      BY <3>1, <3>3, <3>4, <3>5 DEF RemovesOnly
  <2>2. CASE c \notin MembersOf(current)
    <3>1. removes = <<>> /\ removes \in Seq(Proposal) /\ DOMAIN removes = {}
      BY <2>2, EmptySeq
    <3> QED
      BY <2>2, <3>1 DEF RemovesOnly, MembersOf
  <2> QED
    BY <2>1, <2>2
<1> HIDE DEF removes, current
<1>4. u \in Tree /\ OneLeafEach(u) /\ c \in MembersOf(u)
  BY <1>2, <1>3, JoinerCommit
<1>5. PICK t \in Tree, leaf \in Leaf : t = u /\ leaf = LeafOf(u, c) /\ t[leaf] = c
  BY <1>4, LeafOfMember
<1>6. PICK commit \in Commit : commit = newCommit /\ MadeByJoiner(current, commit)
  <2>1. newCommit \in Commit
    BY <1>3, <1>4, EmptySeq DEF Commit
  <2> QED
    BY <1>3, <2>1 DEF MadeByJoiner
<1>7. log' = Append(log, commit) /\ commit.tree = t
  BY <1>1, <1>5, <1>6
<1>8. TreesInv'
  BY <1>1, <1>4, <1>5, <1>6, <1>7, CommitKeepsTrees DEF GroupInv, current
<1>9. /\ log' \in Seq(Commit) /\ Newest' = Newest + 1 /\ HistoryKept
      /\ \A d \in 0 .. Newest' : TreeAt(d)' = IF d = Newest + 1 THEN commit.tree ELSE TreeAt(d)
  BY <1>7, HistoryGrows DEF GroupInv
<1>10. PICK f \in Epoch : f = Newest + 1 /\ f = Newest' /\ TreeAt(f)' = t /\ f <= Newest' /\ Newest' \in Nat
  <2>1. Newest + 1 \in 0 .. Newest'
    BY <1>2, <1>9
  <2> QED
    BY <1>2, <1>7, <1>9, <2>1
<1>11. Enter(c, f, t, leaf, "active") /\ "active" \in Status \ {"outside"}
  BY <1>1, <1>5, <1>10 DEF Status
<1> QED
  BY <1>1, <1>5, <1>8, <1>9, <1>10, <1>11, EnteringKeepsInv

\* A Welcome is for a client that its commit has added.
LEMMA Welcomed ==
  ASSUME GroupInv, NEW c \in Client, NEW e \in 1 .. Newest, JoinGroup(c, e)
  PROVE  /\ e \in Epoch /\ TreeAt(e) = log[e].tree /\ TreeAt(e) \in Tree
         /\ c \in MembersOf(TreeAt(e)) \ MembersOf(TreeAt(e - 1))
<1>1. PICK d \in Nat : d = e - 1 /\ d < Newest /\ e = d + 1 /\ Newest \in Nat
  BY TreeAtType DEF GroupInv
<1>2. /\ e \in Epoch /\ TreeAt(d) \in Tree /\ OneLeafEach(TreeAt(d))
      /\ log[e] \in Commit /\ TreeAt(e) = log[e].tree /\ Proposals(log[e]) \in Seq(Proposal)
      /\ MadeByMember(TreeAt(d), log[e]) \/ MadeByJoiner(TreeAt(d), log[e])
  BY <1>1, CommitOf
<1>3. PICK i \in DOMAIN Proposals(log[e]) :
        Proposals(log[e])[i].kind = "add" /\ Proposals(log[e])[i].target = c
  BY DEF JoinGroup, Proposals, ToSet
<1>4. CASE MadeByMember(TreeAt(d), log[e])
  <2> DEFINE made == ApplyProposals(TreeAt(d), Proposals(log[e]), log[e].committer)
  <2>1. \A j \in OfKind(Proposals(log[e]), "add") :
           Proposals(log[e])[j].target \in MembersOf(made.tree) \ MembersOf(TreeAt(d))
    BY <1>2, <1>4, MemberCommit DEF MadeByMember
  <2>2. c \in MembersOf(TreeAt(e)) \ MembersOf(TreeAt(d))
    BY <1>2, <1>3, <1>4, <2>1 DEF MadeByMember, OfKind
  <2> QED
    BY <1>1, <1>2, <2>2 DEF Commit
<1>5. CASE MadeByJoiner(TreeAt(d), log[e])
  <2>1. Proposals(log[e]) = log[e].byValue
    BY <1>2, <1>5, ConcatEmptySeq DEF MadeByJoiner, Proposals, Commit
  <2> QED
    BY <1>3, <1>5, <2>1 DEF MadeByJoiner, RemovesOnly
<1> QED
  BY <1>2, <1>4, <1>5

LEMMA JoinGroupKeepsInv ==
  ASSUME GroupInv, NEW c \in Client, NEW e \in 1 .. Newest, JoinGroup(c, e)
  PROVE  GroupInv'
<1>1. /\ Enter(c, e, log[e].tree, LeafOf(log[e].tree, c), "active")
      /\ log' = log /\ network' = network
  BY DEF JoinGroup
<1>2. PICK t \in Tree, leaf \in Leaf :
        t = TreeAt(e) /\ t = log[e].tree /\ leaf = LeafOf(log[e].tree, c) /\ t[leaf] = c
  BY Welcomed, LeafOfMember
<1>3. e \in Epoch /\ HistoryKept /\ Newest' = Newest /\ Newest \in Nat /\ TreeAt(e)' = t
  <2>1. Newest \in Nat /\ e \in 0 .. Newest
    BY TreeAtType DEF GroupInv
  <2> QED
    BY <1>1, <1>2, <2>1, Welcomed, UnchangedHistory DEF GroupInv
<1>4. TreesInv' /\ log' \in Seq(Commit)
  BY <1>1 DEF GroupInv, TypeOK, TreesInv, TreeAt, Newest
<1>5. Enter(c, e, t, leaf, "active") /\ "active" \in Status \ {"outside"} /\ e <= Newest'
  BY <1>1, <1>2, <1>3 DEF Status
<1> QED
  BY <1>1, <1>2, <1>3, <1>4, <1>5, EnteringKeepsInv

\* A receiver that can apply the commit of its epoch is in the group and
\* computes the tree of the committer.
LEMMA ReceiverAgrees ==
  ASSUME GroupInv, NEW c \in Client, CanApply(c)
  PROVE  /\ InGroup(c)
         /\ epoch[c] \in Nat /\ epoch[c] < Newest /\ leafIndex[c] \in Leaf
         /\ Applied(c, log[epoch[c] + 1]).tree = TreeAt(epoch[c] + 1)
         /\ log[epoch[c] + 1].joiner = Nobody =>
              MadeByMember(TreeAt(epoch[c]), log[epoch[c] + 1])
<1> DEFINE commit == log[epoch[c] + 1]
<1>1. epoch[c] \in Nat /\ epoch[c] < Newest /\ leafIndex[c] \in Leaf
  BY BoundsAssumption DEF CanApply, GroupInv, TypeOK, Epoch
<1>2. InGroup(c)
  <2>1. status[c] \in {"active", "suspendedPendingReinit", "removedFromGroup"}
    BY DEF CanApply, GroupInv, TypeOK, Status
  <2>2. SUFFICES ASSUME status[c] = "removedFromGroup" PROVE FALSE
    BY <2>1 DEF InGroup
  <2>3. /\ commit.joiner = Nobody
        /\ ~ApplyProposals(tree[c], Proposals(commit), commit.committer).ok
    BY <2>2 DEF GroupInv, ClientInv, Expelled
  <2> QED
    BY <2>3 DEF CanApply, Applied, Proposals
<1>3. tree[c] = TreeAt(epoch[c])
  BY <1>2 DEF GroupInv, ClientInv
<1>4. /\ TreeAt(epoch[c] + 1) = commit.tree /\ commit \in Commit
      /\ MadeByMember(TreeAt(epoch[c]), commit) \/ MadeByJoiner(TreeAt(epoch[c]), commit)
  BY <1>1, CommitOf
<1>5. CASE MadeByMember(TreeAt(epoch[c]), commit)
  BY <1>1, <1>2, <1>3, <1>4, <1>5 DEF Applied, MadeByMember, Proposals
<1>6. CASE MadeByJoiner(TreeAt(epoch[c]), commit)
  <2>1. commit.joiner # Nobody
    BY <1>6, ClientAssumption DEF MadeByJoiner
  <2>2. commit.references \o commit.byValue = commit.byValue
    BY <1>4, <1>6, ConcatEmptySeq DEF MadeByJoiner, Commit
  <2> QED
    BY <1>1, <1>2, <1>3, <1>4, <1>6, <2>1, <2>2 DEF Applied, MadeByJoiner
<1> QED
  BY <1>4, <1>5, <1>6

LEMMA ProcessRemovalKeepsInv ==
  ASSUME GroupInv, NEW c \in Client, ProcessRemoval(c)
  PROVE  GroupInv'
<1>1. /\ CanApply(c) /\ log' = log /\ network' = network
      /\ log[epoch[c] + 1].joiner = Nobody
      /\ Applied(c, log[epoch[c] + 1]).tree[leafIndex[c]] = Nobody
      /\ Enter(c, epoch[c], Applied(c, log[epoch[c] + 1]).tree, leafIndex[c], "removedFromGroup")
  BY DEF ProcessRemoval
<1>2. /\ InGroup(c) /\ Applied(c, log[epoch[c] + 1]).tree = TreeAt(epoch[c] + 1)
      /\ MadeByMember(TreeAt(epoch[c]), log[epoch[c] + 1])
  BY <1>1, ReceiverAgrees
<1>3. PICK e \in Nat, leaf \in Leaf : e = epoch[c] /\ leaf = leafIndex[c] /\ e < Newest
  BY <1>1, ReceiverAgrees
<1>4. /\ e \in Epoch /\ TreeAt(e) \in Tree /\ OneLeafEach(TreeAt(e))
      /\ TreeAt(e + 1) = log[e + 1].tree /\ log[e + 1] \in Commit
      /\ Proposals(log[e + 1]) \in Seq(Proposal)
  BY <1>3, CommitOf
<1>5. PICK t \in Tree : t = TreeAt(e + 1) /\ t[leaf] = Nobody
  BY <1>1, <1>2, <1>3, <1>4 DEF Commit
<1>6. TreeAt(e)[leaf] = c /\ c # Nobody
  BY <1>2, <1>3, ClientAssumption DEF GroupInv, ClientInv, InGroup
<1>7. ~ApplyProposals(t, Proposals(log[e + 1]), log[e + 1].committer).ok
  <2>1. MadeByMember(TreeAt(e), log[e + 1])
    BY <1>2, <1>3
  <2>2. t = ApplyProposals(TreeAt(e), Proposals(log[e + 1]), log[e + 1].committer).tree
    BY <1>4, <1>5, <2>1 DEF MadeByMember
  <2>3. \A k \in Leaf : TreeAt(e)[k] # Nobody /\ t[k] = Nobody =>
           ~ApplyProposals(t, Proposals(log[e + 1]), log[e + 1].committer).ok
    BY <1>4, <2>1, <2>2, MemberCommit DEF MadeByMember
  <2> QED
    BY <1>5, <1>6, <2>3
<1>8. HistoryKept /\ Newest' = Newest /\ Newest \in Nat /\ TreeAt(e)'[leaf] = c
  <2>1. Newest \in Nat /\ e \in 0 .. Newest
    BY <1>3, TreeAtType DEF GroupInv
  <2> QED
    BY <1>1, <1>6, <2>1, UnchangedHistory DEF GroupInv
<1>9. TreesInv' /\ log' \in Seq(Commit)
  BY <1>1 DEF GroupInv, TypeOK, TreesInv, TreeAt, Newest
<1>10. Expelled(e, t)'
  BY <1>1, <1>3, <1>7, <1>8 DEF Expelled
<1>11. /\ Enter(c, e, t, leaf, "removedFromGroup")
       /\ "removedFromGroup" \in Status \ {"outside"} /\ e <= Newest'
  BY <1>1, <1>2, <1>3, <1>5, <1>8 DEF Status
<1> QED
  BY <1>1, <1>4, <1>8, <1>9, <1>10, <1>11, EnteringKeepsInv

LEMMA ProcessCommitKeepsInv ==
  ASSUME GroupInv, NEW c \in Client, ProcessCommit(c)
  PROVE  GroupInv'
<1> DEFINE result == Applied(c, log[epoch[c] + 1])
           active == IF result.reinit THEN "suspendedPendingReinit" ELSE "active"
<1>1. /\ CanApply(c) /\ log' = log /\ network' = network
      /\ result.tree[leafIndex[c]] = c
      /\ Enter(c, epoch[c] + 1, result.tree, leafIndex[c], active)
  BY DEF ProcessCommit
<1>2. /\ result.tree = TreeAt(epoch[c] + 1)
      /\ epoch[c] \in Nat /\ epoch[c] < Newest /\ leafIndex[c] \in Leaf
  BY <1>1, ReceiverAgrees
<1>3. epoch[c] + 1 \in Epoch /\ TreeAt(epoch[c] + 1) \in Tree
  BY <1>2, CommitOf DEF Commit
<1>4. PICK e \in Epoch, t \in Tree, leaf \in Leaf, new \in Status \ {"outside", "removedFromGroup"} :
        /\ e = epoch[c] + 1 /\ t = TreeAt(e) /\ leaf = leafIndex[c] /\ new = active
  <2>1. active \in Status \ {"outside", "removedFromGroup"}
    BY DEF Status
  <2> QED
    BY <1>2, <1>3, <2>1
<1> HIDE DEF result, active
<1>5. HistoryKept /\ Newest' = Newest /\ Newest \in Nat /\ e <= Newest' /\ TreeAt(e)' = t
  <2>1. Newest \in Nat
    BY TreeAtType DEF GroupInv
  <2>2. e \in 0 .. Newest /\ e <= Newest
    BY <1>2, <1>4, <2>1
  <2> QED
    BY <1>1, <1>4, <2>1, <2>2, UnchangedHistory DEF GroupInv
<1>6. TreesInv' /\ log' \in Seq(Commit)
  BY <1>1 DEF GroupInv, TypeOK, TreesInv, TreeAt, Newest
<1>7. Enter(c, e, t, leaf, new) /\ t[leaf] = c
  BY <1>1, <1>2, <1>4
<1> QED
  BY <1>1, <1>4, <1>5, <1>6, <1>7, EnteringKeepsInv

LEMMA InitGroupInv == Init => GroupInv
<1> SUFFICES ASSUME Init PROVE GroupInv
  OBVIOUS
<1>1. Newest = 0 /\ TreeAt(0) = FoundingTree /\ log = <<>>
  BY DEF Init, Newest, TreeAt
<1>2. 0 \in Leaf
  <2>1. PICK leaf \in Leaf : FoundingTree[leaf] # Nobody
    BY FoundingTreeAssumption
  <2>2. Cardinality(Client) \in Nat
    BY ClientAssumption, FS_CardinalityType
  <2> QED
    BY <2>1, <2>2 DEF Leaf
<1>3. \A c \in MembersOf(FoundingTree) :
         LeafOf(FoundingTree, c) \in Leaf /\ FoundingTree[LeafOf(FoundingTree, c)] = c
  BY LeafOfMember
<1>4. TypeOK
  <2>1. <<>> \in Seq(Proposal) /\ <<>> \in Seq(Commit)
    BY EmptySeq
  <2>2. 0 \in Epoch
    BY BoundsAssumption DEF Epoch
  <2>3. leafIndex \in [Client -> Leaf]
    BY <1>2, <1>3 DEF Init
  <2> QED
    BY <2>1, <2>2, <2>3, FoundingTreeAssumption DEF Init, TypeOK, Status
<1>5. TreesInv
  BY <1>1, FoundingTreeAssumption, BoundsAssumption DEF TreesInv, OneLeafEach
<1>6. NetworkInv
  BY DEF Init, NetworkInv
<1>7. ToSet(<<>>) = {}
  BY DEF ToSet
<1>8. ASSUME NEW c \in Client PROVE ClientInv(c)
  <2>1. /\ epoch[c] = 0 /\ tree[c] = FoundingTree /\ unapplied[c] = <<>>
        /\ status[c] = IF c \in MembersOf(FoundingTree) THEN "active" ELSE "outside"
        /\ c \in MembersOf(FoundingTree) => leafIndex[c] = LeafOf(FoundingTree, c)
    BY DEF Init
  <2> QED
    BY <1>1, <1>3, <1>7, <2>1 DEF ClientInv, InGroup
<1>9. PendingIsCurrent
  BY <1>7 DEF Init, PendingIsCurrent
<1> QED
  BY <1>4, <1>5, <1>6, <1>8, <1>9 DEF GroupInv

LEMMA NextGroupInv == GroupInv /\ [Next]_vars => GroupInv'
<1> SUFFICES ASSUME GroupInv, [Next]_vars PROVE GroupInv'
  OBVIOUS
<1>1. ASSUME NEW c \in Client, CreateProposal(c) PROVE GroupInv'
  BY <1>1, CreateProposalKeepsInv
<1>2. ASSUME NEW c \in Client, ProposeAddExternal(c) PROVE GroupInv'
  BY <1>2, ProposeAddExternalKeepsInv
<1>3. ASSUME NEW c \in Client, CreateCommit(c) PROVE GroupInv'
  BY <1>3, CreateCommitKeepsInv
<1>4. ASSUME NEW c \in Client, JoinGroupExternal(c) PROVE GroupInv'
  BY <1>4, JoinGroupExternalKeepsInv
<1>5. ASSUME NEW c \in Client, NEW proposal \in network, ProcessProposal(c, proposal) PROVE GroupInv'
  BY <1>5, ProcessProposalKeepsInv
<1>6. ASSUME NEW c \in Client, NEW e \in 1 .. Newest, JoinGroup(c, e) PROVE GroupInv'
  BY <1>6, JoinGroupKeepsInv
<1>7. ASSUME NEW c \in Client, ProcessRemoval(c) PROVE GroupInv'
  BY <1>7, ProcessRemovalKeepsInv
<1>8. ASSUME NEW c \in Client, ProcessCommit(c) PROVE GroupInv'
  BY <1>8, ProcessCommitKeepsInv
<1>9. CASE UNCHANGED vars
  BY <1>9 DEF vars, GroupInv, TypeOK, TreesInv, NetworkInv, ClientInv, Expelled, PendingIsCurrent,
              InGroup, TreeAt, Newest
<1> QED
  BY <1>1, <1>2, <1>3, <1>4, <1>5, <1>6, <1>7, <1>8, <1>9 DEF Next

-----------------------------------------------------------------------------
LEMMA GroupInvariant == Spec => []GroupInv
  BY InitGroupInv, NextGroupInv, PTL DEF Spec

LEMMA MembersAreAtTheirLeaves == GroupInv => SameTree /\ OwnLeaf
<1> SUFFICES ASSUME GroupInv, NEW c \in Client, InGroup(c)
             PROVE  /\ tree[c] = TreeAt(epoch[c])
                    /\ \A leaf \in Leaf : tree[c][leaf] = c <=> leaf = leafIndex[c]
  BY DEF SameTree, OwnLeaf
<1>1. tree[c] = TreeAt(epoch[c]) /\ tree[c][leafIndex[c]] = c /\ c # Nobody /\ leafIndex[c] \in Leaf
  BY ClientAssumption DEF GroupInv, ClientInv, InGroup, TypeOK
<1>2. OneLeafEach(tree[c])
  <2>1. epoch[c] \in 0 .. Newest
    BY TreeAtType, BoundsAssumption DEF GroupInv, TypeOK, ClientInv, Epoch
  <2> QED
    BY <1>1, <2>1 DEF GroupInv, TreesInv
<1> QED
  BY <1>1, <1>2 DEF OneLeafEach

(***************************************************************************)
(* The states of the clients, the commits and the proposals are well       *)
(* typed, whatever is proposed, committed and processed in which order.    *)
(***************************************************************************)
THEOREM TypeCorrect == Spec => []TypeOK
<1>1. GroupInv => TypeOK
  BY DEF GroupInv
<1> QED
  BY <1>1, GroupInvariant, PTL

(***************************************************************************)
(* All clients in one epoch of the group have the tree of its committer:   *)
(* processCommit computes from the references and the values of a commit   *)
(* what createCommit and joinGroupExternal have computed.                  *)
(***************************************************************************)
THEOREM TreesAgree == Spec => []SameTree
  BY MembersAreAtTheirLeaves, GroupInvariant, PTL

(***************************************************************************)
(* A client in the group is at privatePath.leafIndex and nowhere else,     *)
(* also after removals, resynchronisation and reuse of leaves by           *)
(* applyTreeMutations.                                                     *)
(***************************************************************************)
THEOREM LeavesAreOwn == Spec => []OwnLeaf
  BY MembersAreAtTheirLeaves, GroupInvariant, PTL

(***************************************************************************)
(* unappliedProposals holds nothing of an epoch that is over, as           *)
(* processProposal checks the epoch and every commit empties it.           *)
(***************************************************************************)
THEOREM PendingStaysCurrent == Spec => []PendingIsCurrent
<1>1. GroupInv => PendingIsCurrent
  BY DEF GroupInv
<1> QED
  BY <1>1, GroupInvariant, PTL

-----------------------------------------------------------------------------
(* The refinement.                                                         *)

Rosters == [i \in 1 .. Newest + 1 |-> MembersOf(TreeAt(i - 1))]
Position(c) == IF InGroup(c) THEN epoch[c] + 1 ELSE 0
Roster(c) == IF InGroup(c) THEN MembersOf(tree[c]) ELSE {}

RostersAreSeq ==
  /\ Rosters \in Seq(SUBSET Client) /\ Len(Rosters) = Newest + 1
  /\ \A e \in 0 .. Newest : Rosters[e + 1] = MembersOf(TreeAt(e))

LEMMA RostersOfGroup == TypeOK => RostersAreSeq
<1> SUFFICES ASSUME TypeOK PROVE RostersAreSeq
  OBVIOUS
<1>1. Newest \in Nat
  BY TreeAtType
<1>2. \A i \in 1 .. Newest + 1 : MembersOf(TreeAt(i - 1)) \in SUBSET Client
  BY DEF MembersOf
<1>3. ASSUME NEW e \in 0 .. Newest PROVE e + 1 \in 1 .. Newest + 1 /\ (e + 1) - 1 = e
  BY <1>1
<1>4. Rosters \in Seq(SUBSET Client) /\ Len(Rosters) = Newest + 1
  BY <1>1, <1>2 DEF Rosters
<1> QED
  BY <1>3, <1>4 DEF Rosters, RostersAreSeq

LEMMA RostersOfNextGroup == TypeOK' => RostersAreSeq'
  BY RostersOfGroup, PTL

\* Processing and proposing leave the rosters, a commit adds that of its tree.
LEMMA SameRosters ==
  ASSUME log' = log
  PROVE  Rosters' = Rosters
  BY DEF Rosters, Newest, TreeAt

LEMMA RostersGrow ==
  ASSUME TypeOK, TypeOK', NEW commit, log' = Append(log, commit)
  PROVE  /\ Newest' = Newest + 1
         /\ log'[Newest + 1] = commit /\ commit \in Commit
         /\ \A e \in 0 .. Newest : TreeAt(e)' = TreeAt(e)
         /\ TreeAt(Newest)' = commit.tree
         /\ Rosters' = Append(Rosters, MembersOf(commit.tree))
<1>1. commit \in Commit
  <2>1. log \in Seq(Commit \union {commit}) /\ Newest \in Nat
    BY TreeAtType, SeqMonotonic DEF TypeOK
  <2>2. Len(log') = Len(log) + 1 /\ log'[Len(log) + 1] = commit
    BY <2>1, AppendProperties
  <2>3. Len(log) + 1 \in 1 .. Len(log')
    BY <2>1, <2>2 DEF Newest
  <2>4. log'[Len(log) + 1] \in Commit
    BY <2>3, ElementOfSeq DEF TypeOK
  <2> QED
    BY <2>2, <2>4
<1>2. /\ Newest' = Newest + 1 /\ log'[Newest + 1] = commit
      /\ \A e \in 0 .. Newest' : TreeAt(e)' = IF e = Newest + 1 THEN commit.tree ELSE TreeAt(e)
  BY <1>1, HistoryGrows
<1>3. Newest \in Nat
  BY TreeAtType
<1>4. /\ \A e \in 0 .. Newest : e \in 0 .. Newest' /\ e # Newest + 1 /\ e + 1 \in 1 .. Newest + 1
      /\ Newest + 1 \in 0 .. Newest'
  BY <1>2, <1>3
<1>5. \A e \in 0 .. Newest : TreeAt(e)' = TreeAt(e)
  BY <1>2, <1>4
<1> DEFINE new == Append(Rosters, MembersOf(commit.tree))
<1>6. /\ Rosters \in Seq(SUBSET Client) /\ Len(Rosters) = Newest + 1
      /\ \A e \in 0 .. Newest : Rosters[e + 1] = MembersOf(TreeAt(e))
  BY RostersOfGroup DEF RostersAreSeq
<1>7. /\ new \in Seq(SUBSET Client) /\ Len(new) = Newest + 2
      /\ \A i \in 1 .. Newest + 1 : new[i] = Rosters[i]
      /\ new[Newest + 2] = MembersOf(commit.tree)
  <2>1. MembersOf(commit.tree) \in SUBSET Client
    BY DEF MembersOf
  <2>2. /\ new \in Seq(SUBSET Client) /\ Len(new) = Len(Rosters) + 1
        /\ \A i \in 1 .. Len(Rosters) : new[i] = Rosters[i]
        /\ new[Len(Rosters) + 1] = MembersOf(commit.tree)
    BY <1>6, <2>1, AppendProperties
  <2>3. (Newest + 1) + 1 = Newest + 2
    BY <1>3
  <2> QED
    BY <1>6, <2>2, <2>3
<1>8. /\ Rosters' \in Seq(SUBSET Client) /\ Len(Rosters') = Newest + 2
      /\ \A e \in 0 .. Newest' : Rosters'[e + 1] = MembersOf(TreeAt(e)')
  <2>1. /\ Rosters' \in Seq(SUBSET Client) /\ Len(Rosters') = Newest' + 1
        /\ \A e \in 0 .. Newest' : Rosters'[e + 1] = MembersOf(TreeAt(e)')
    BY RostersOfNextGroup DEF RostersAreSeq, MembersOf
  <2>2. Newest' + 1 = Newest + 2
    BY <1>2, <1>3
  <2> QED
    BY <2>1, <2>2
<1> HIDE DEF new
<1>9. ASSUME NEW i \in 1 .. Newest + 2 PROVE Rosters'[i] = new[i]
  <2>1. PICK e \in 0 .. Newest' : i = e + 1
    <3>1. i - 1 \in 0 .. Newest' /\ i = (i - 1) + 1
      BY <1>2, <1>3
    <3> QED
      BY <3>1
  <2>2. CASE e = Newest + 1
    <3>1. i = Newest + 2
      BY <1>3, <2>1, <2>2
    <3> QED
      BY <1>2, <1>7, <1>8, <2>1, <2>2, <3>1
  <2>3. CASE e \in 0 .. Newest
    BY <1>4, <1>5, <1>6, <1>7, <1>8, <2>1, <2>3
  <2>4. e = Newest + 1 \/ e \in 0 .. Newest
    BY <1>2, <1>3
  <2> QED
    BY <2>2, <2>3, <2>4
<1>10. Rosters' = new
  BY <1>7, <1>8, <1>9, SeqEqual
<1>11. TreeAt(Newest)' = commit.tree
  <2>1. Newest + 1 # 0
    BY <1>3
  <2> QED
    BY <1>2, <2>1 DEF TreeAt
<1> QED
  BY <1>1, <1>2, <1>5, <1>10, <1>11 DEF new

Positions == [c \in Client |-> Position(c)]
Seen == [c \in Client |-> Roster(c)]

\* Where every client is, and what it sees, after the state of one has changed.
LEMMA ClientMoves ==
  ASSUME TypeOK, NEW c \in Client, NEW e, NEW t, NEW leaf, NEW active,
         Enter(c, e, t, leaf, active)
  PROVE  /\ Positions' = [Positions EXCEPT ![c] = Position(c)']
         /\ Seen' = [Seen EXCEPT ![c] = Roster(c)']
         /\ status'[c] = active /\ epoch'[c] = e /\ tree'[c] = t
<1>1. /\ status'[c] = active /\ epoch'[c] = e /\ tree'[c] = t
      /\ \A d \in Client \ {c} :
           status'[d] = status[d] /\ epoch'[d] = epoch[d] /\ tree'[d] = tree[d]
  BY DEF Enter, TypeOK
<1>2. \A d \in Client \ {c} : Position(d)' = Position(d) /\ Roster(d)' = Roster(d)
  BY <1>1 DEF Position, Roster, InGroup, MembersOf
<1> HIDE DEF Position, Roster
<1> QED
  BY <1>1, <1>2 DEF Positions, Seen

\* A client in the group is at its place in the history and sees what is there.
InHistory(c) ==
  InGroup(c) => /\ epoch[c] \in 0 .. Newest /\ Newest \in Nat
                /\ Position(c) = epoch[c] + 1
                /\ Roster(c) = MembersOf(TreeAt(epoch[c])) /\ Roster(c) = Rosters[Position(c)]
                /\ Roster(c) \in SUBSET Client /\ c \in Roster(c)

LEMMA ClientInHistory ==
  ASSUME GroupInv, NEW c \in Client
  PROVE  InHistory(c)
<1> SUFFICES ASSUME InGroup(c)
             PROVE  /\ epoch[c] \in 0 .. Newest /\ Newest \in Nat
                    /\ Position(c) = epoch[c] + 1
                    /\ Roster(c) = MembersOf(TreeAt(epoch[c])) /\ Roster(c) = Rosters[Position(c)]
                    /\ Roster(c) \in SUBSET Client /\ c \in Roster(c)
  BY DEF InHistory
<1>1. epoch[c] \in 0 .. Newest /\ Newest \in Nat
  BY TreeAtType, BoundsAssumption DEF GroupInv, TypeOK, ClientInv, Epoch
<1>2. /\ tree[c] = TreeAt(epoch[c]) /\ TreeAt(epoch[c])[leafIndex[c]] = c /\ leafIndex[c] \in Leaf
  BY DEF GroupInv, ClientInv, InGroup, TypeOK
<1>3. Rosters[epoch[c] + 1] = MembersOf(TreeAt(epoch[c]))
  BY <1>1, RostersOfGroup DEF RostersAreSeq, GroupInv
<1>4. c \in MembersOf(tree[c]) /\ MembersOf(tree[c]) \in SUBSET Client
  BY <1>2 DEF MembersOf
<1> QED
  BY <1>1, <1>2, <1>3, <1>4 DEF Position, Roster

LEMMA ClientInHistoryNext ==
  ASSUME NEW c \in Client
  PROVE  GroupInv' => InHistory(c)'
<1>1. GroupInv => InHistory(c)
  BY ClientInHistory
<1> QED
  BY <1>1, PTL

LEMMA CreateCommitImplements ==
  ASSUME GroupInv, GroupInv', NEW c \in Client, CreateCommit(c)
  PROVE  History!Commit(c)
<1>1. PICK commit, t, active :
        /\ active \in {"active", "suspendedPendingReinit"}
        /\ log' = Append(log, commit) /\ commit.tree = t
        /\ Enter(c, Newest + 1, t, leafIndex[c], active)
  <2> DEFINE result(extra) == ApplyProposals(tree[c], unapplied[c] \o extra, leafIndex[c])
  <2>1. PICK extra :
          /\ log' = Append(log, [committer |-> leafIndex[c], joiner |-> Nobody,
                                 references |-> unapplied[c], byValue |-> extra,
                                 tree |-> result(extra).tree])
          /\ Enter(c, Newest + 1, result(extra).tree, leafIndex[c],
                   IF result(extra).reinit THEN "suspendedPendingReinit" ELSE "active")
    BY DEF CreateCommit
  <2> HIDE DEF result
  <2> QED
    BY <2>1
<1>2. /\ Positions' = [Positions EXCEPT ![c] = Position(c)']
      /\ Seen' = [Seen EXCEPT ![c] = Roster(c)']
      /\ InGroup(c)' /\ epoch'[c] = Newest + 1 /\ tree'[c] = t
  BY <1>1, ClientMoves DEF GroupInv, InGroup
<1>3. Rosters' = Append(Rosters, MembersOf(t))
  BY <1>1, RostersGrow DEF GroupInv
<1>4. InGroup(c) /\ epoch[c] = Newest
  BY DEF CreateCommit, CheckCanSendHandshakeMessages, InGroup
<1>5. Position(c) = Newest + 1 /\ Len(Rosters) = Newest + 1
  BY <1>4, ClientInHistory, RostersOfGroup DEF InHistory, RostersAreSeq, GroupInv
<1>6. Position(c)' = Len(Rosters) + 1 /\ c \in Roster(c)' /\ Roster(c)' \in SUBSET Client
  BY <1>2, <1>5, ClientInHistoryNext DEF InHistory
<1>7. Roster(c)' = MembersOf(t)
  BY <1>2 DEF Roster, MembersOf
<1>8. Positions[c] = Position(c)
  BY DEF Positions
<1>9. PICK members \in SUBSET Client :
        /\ c \in members /\ Positions[c] = Len(Rosters)
        /\ Rosters' = Append(Rosters, members)
        /\ Positions' = [Positions EXCEPT ![c] = Len(Rosters) + 1]
        /\ Seen' = [Seen EXCEPT ![c] = members]
  BY <1>2, <1>3, <1>5, <1>6, <1>7, <1>8
<1> QED
  BY <1>9 DEF History!Commit, History!Extend, History!MoveTo, Rosters, Positions, Seen,
              Position, Roster

LEMMA JoinGroupExternalImplements ==
  ASSUME GroupInv, GroupInv', NEW c \in Client, JoinGroupExternal(c)
  PROVE  History!JoinExternally(c)
<1>1. PICK commit, t, leaf :
        /\ log' = Append(log, commit) /\ commit.tree = t /\ commit.joiner = c
        /\ Enter(c, Newest + 1, t, leaf, "active")
  BY DEF JoinGroupExternal
<1>2. /\ Positions' = [Positions EXCEPT ![c] = Position(c)']
      /\ Seen' = [Seen EXCEPT ![c] = Roster(c)']
      /\ InGroup(c)' /\ epoch'[c] = Newest + 1 /\ tree'[c] = t
  BY <1>1, ClientMoves DEF GroupInv, InGroup
<1>3. /\ Rosters' = Append(Rosters, MembersOf(t)) /\ commit \in Commit
      /\ Newest' = Newest + 1 /\ log'[Newest + 1] = commit
      /\ \A e \in 0 .. Newest : TreeAt(e)' = TreeAt(e)
  BY <1>1, RostersGrow DEF GroupInv
<1>4. /\ Newest \in Nat /\ Len(Rosters) = Newest + 1
      /\ Rosters[Newest + 1] = MembersOf(TreeAt(Newest))
      /\ TreeAt(Newest) \in Tree /\ OneLeafEach(TreeAt(Newest))
  <2>1. Newest \in Nat /\ Newest \in 0 .. Newest
    BY TreeAtType DEF GroupInv
  <2>2. TreeAt(Newest) \in Tree
    BY <2>1, TreeAtType DEF GroupInv
  <2> QED
    BY <2>1, <2>2, RostersOfGroup DEF RostersAreSeq, GroupInv, TreesInv
<1>5. MadeByJoiner(TreeAt(Newest), commit)
  <2>1. MadeByMember(TreeAt(Newest), commit) \/ MadeByJoiner(TreeAt(Newest), commit)
    <3>1. \A e \in 1 .. Newest' : \/ MadeByMember(TreeAt(e - 1)', log'[e])
                                  \/ MadeByJoiner(TreeAt(e - 1)', log'[e])
      BY DEF GroupInv, TreesInv
    <3>2. PICK e \in 1 .. Newest' : e = Newest + 1 /\ e - 1 = Newest /\ e - 1 \in 0 .. Newest
      BY <1>3, <1>4
    <3>3. TreeAt(e - 1)' = TreeAt(Newest)
      BY <1>3, <3>2
    <3> QED
      BY <1>3, <3>1, <3>2, <3>3
  <2> QED
    BY <1>1, <2>1, ClientAssumption DEF MadeByMember
<1>6. MembersOf(t) = Rosters[Len(Rosters)] \union {c}
  <2>1. MembersOf(ExternalTree(TreeAt(Newest), commit.byValue, c)) =
          MembersOf(TreeAt(Newest)) \union {c}
    BY <1>1, <1>3, <1>4, <1>5, JoinerCommit DEF MadeByJoiner, Commit
  <2> QED
    BY <1>1, <1>4, <1>5, <2>1 DEF MadeByJoiner
<1>7. Position(c)' = Len(Rosters) + 1 /\ Roster(c)' = MembersOf(t)
  BY <1>2, <1>4, ClientInHistoryNext DEF InHistory, Roster, MembersOf
<1>8. /\ Rosters' = Append(Rosters, Rosters[Len(Rosters)] \union {c})
      /\ Positions' = [Positions EXCEPT ![c] = Len(Rosters) + 1]
      /\ Seen' = [Seen EXCEPT ![c] = Rosters[Len(Rosters)] \union {c}]
  BY <1>2, <1>3, <1>6, <1>7
<1> QED
  BY <1>8 DEF History!JoinExternally, History!Extend, History!MoveTo, Rosters, Positions, Seen,
              Position, Roster

LEMMA ProcessCommitImplements ==
  ASSUME GroupInv, GroupInv', NEW c \in Client, ProcessCommit(c)
  PROVE  History!Follow(c)
<1>1. PICK t, active :
        /\ active \in {"active", "suspendedPendingReinit"}
        /\ log' = log /\ CanApply(c)
        /\ Enter(c, epoch[c] + 1, t, leafIndex[c], active)
  BY DEF ProcessCommit
<1>2. /\ Positions' = [Positions EXCEPT ![c] = Position(c)']
      /\ Seen' = [Seen EXCEPT ![c] = Roster(c)']
      /\ InGroup(c)' /\ epoch'[c] = epoch[c] + 1
  BY <1>1, ClientMoves DEF GroupInv, InGroup
<1>3. Rosters' = Rosters
  BY <1>1, SameRosters
<1>4. /\ epoch[c] \in Nat /\ Newest \in Nat /\ epoch[c] < Newest
      /\ Position(c) = epoch[c] + 1 /\ Len(Rosters) = Newest + 1
  BY <1>1, ReceiverAgrees, ClientInHistory, RostersOfGroup DEF InHistory, RostersAreSeq, GroupInv
<1>5. Position(c)' = Position(c) + 1 /\ Roster(c)' = Rosters[Position(c) + 1] /\ c \in Roster(c)'
  BY <1>2, <1>3, <1>4, ClientInHistoryNext DEF InHistory
<1>6. Position(c) \in 1 .. Len(Rosters) - 1 /\ Positions[c] = Position(c)
  BY <1>4 DEF Positions
<1>7. /\ Positions[c] \in 1 .. Len(Rosters) - 1 /\ c \in Rosters[Positions[c] + 1]
      /\ Positions' = [Positions EXCEPT ![c] = Positions[c] + 1]
      /\ Seen' = [Seen EXCEPT ![c] = Rosters[Positions[c] + 1]]
      /\ Rosters' = Rosters
  BY <1>2, <1>3, <1>5, <1>6
<1> QED
  BY <1>7 DEF History!Follow, History!MoveTo, Rosters, Positions, Seen, Position, Roster

LEMMA ProcessRemovalImplements ==
  ASSUME GroupInv, NEW c \in Client, ProcessRemoval(c)
  PROVE  History!Leave(c)
<1>1. PICK t :
        /\ log' = log /\ CanApply(c) /\ log[epoch[c] + 1].joiner = Nobody
        /\ t = Applied(c, log[epoch[c] + 1]).tree /\ t[leafIndex[c]] = Nobody
        /\ Enter(c, epoch[c], t, leafIndex[c], "removedFromGroup")
  BY DEF ProcessRemoval
<1>2. /\ Positions' = [Positions EXCEPT ![c] = 0]
      /\ Seen' = [Seen EXCEPT ![c] = {}]
  BY <1>1, ClientMoves DEF GroupInv, InGroup, Position, Roster
<1>3. Rosters' = Rosters
  BY <1>1, SameRosters
<1>4. /\ InGroup(c) /\ epoch[c] \in Nat /\ epoch[c] < Newest /\ leafIndex[c] \in Leaf
      /\ t = TreeAt(epoch[c] + 1)
      /\ MadeByMember(TreeAt(epoch[c]), log[epoch[c] + 1])
  BY <1>1, ReceiverAgrees
<1>5. Newest \in Nat /\ Position(c) = epoch[c] + 1 /\ Len(Rosters) = Newest + 1
  BY <1>4, ClientInHistory, RostersOfGroup DEF InHistory, RostersAreSeq, GroupInv
<1>6. Rosters[Position(c) + 1] = MembersOf(t)
  <2>1. epoch[c] + 1 \in 0 .. Newest
    BY <1>4, <1>5
  <2> QED
    BY <1>4, <1>5, <2>1, RostersOfGroup DEF RostersAreSeq, GroupInv
<1>7. c \notin MembersOf(t)
  <2> DEFINE commit == log[epoch[c] + 1]
             was == TreeAt(epoch[c])
  <2>1. was[leafIndex[c]] = c /\ c # Nobody
    BY <1>4, ClientAssumption DEF GroupInv, ClientInv, InGroup
  <2>2. /\ was \in Tree /\ OneLeafEach(was) /\ Proposals(commit) \in Seq(Proposal)
        /\ t = commit.tree
    BY <1>4, CommitOf
  <2>3. t = ApplyProposals(was, Proposals(commit), commit.committer).tree
    BY <1>4, <2>2 DEF MadeByMember
  <2>4. \A leaf \in Leaf : was[leaf] # Nobody /\ t[leaf] = Nobody => was[leaf] \notin MembersOf(t)
    BY <1>4, <2>2, <2>3, MemberCommit DEF MadeByMember
  <2> QED
    BY <1>1, <1>4, <2>1, <2>4
<1>8. Position(c) \in 1 .. Len(Rosters) - 1 /\ Positions[c] = Position(c)
  BY <1>4, <1>5 DEF Positions
<1>9. /\ Positions[c] \in 1 .. Len(Rosters) - 1 /\ c \notin Rosters[Positions[c] + 1]
      /\ Positions' = [Positions EXCEPT ![c] = 0]
      /\ Seen' = [Seen EXCEPT ![c] = {}]
      /\ Rosters' = Rosters
  BY <1>2, <1>3, <1>6, <1>7, <1>8
<1> QED
  BY <1>9 DEF History!Leave, History!MoveTo, History!Outside, Rosters, Positions, Seen,
              Position, Roster

LEMMA JoinGroupImplements ==
  ASSUME GroupInv, GroupInv', NEW c \in Client, NEW e \in 1 .. Newest, JoinGroup(c, e)
  PROVE  History!Join(c)
<1>1. PICK t, leaf : ~InGroup(c) /\ log' = log /\ Enter(c, e, t, leaf, "active")
  BY DEF JoinGroup
<1>2. /\ Positions' = [Positions EXCEPT ![c] = Position(c)']
      /\ Seen' = [Seen EXCEPT ![c] = Roster(c)']
      /\ InGroup(c)' /\ epoch'[c] = e
  BY <1>1, ClientMoves DEF GroupInv, InGroup
<1>3. Rosters' = Rosters
  BY <1>1, SameRosters
<1>4. Position(c)' = e + 1 /\ Roster(c)' = Rosters[e + 1]
  BY <1>2, <1>3, ClientInHistoryNext DEF InHistory
<1>5. /\ Newest \in Nat /\ Len(Rosters) = Newest + 1
      /\ \A d \in 0 .. Newest : Rosters[d + 1] = MembersOf(TreeAt(d))
  BY TreeAtType, RostersOfGroup DEF RostersAreSeq, GroupInv
<1>6. PICK p \in 2 .. Len(Rosters) : p = e + 1 /\ p - 1 = e
  <2>1. e + 1 \in 2 .. Newest + 1 /\ (e + 1) - 1 = e
    BY <1>5
  <2> QED
    BY <1>5, <2>1
<1>7. c \in Rosters[p] \ Rosters[p - 1]
  <2>1. e \in 0 .. Newest /\ e - 1 \in 0 .. Newest /\ (e - 1) + 1 = e
    BY <1>5
  <2>2. Rosters[e + 1] = MembersOf(TreeAt(e)) /\ Rosters[e] = MembersOf(TreeAt(e - 1))
    BY <1>5, <2>1
  <2> QED
    BY <1>6, <2>2, Welcomed
<1>8. /\ Positions[c] = 0
      /\ c \in Rosters[p] \ Rosters[p - 1]
      /\ Positions' = [Positions EXCEPT ![c] = p]
      /\ Seen' = [Seen EXCEPT ![c] = Rosters[p]]
      /\ Rosters' = Rosters
  BY <1>1, <1>2, <1>3, <1>4, <1>6, <1>7 DEF Positions, Position
<1> QED
  BY <1>8 DEF History!Join, History!MoveTo, History!Outside, Rosters, Positions, Seen,
              Position, Roster

\* Proposing leaves the history and every client's place in it.
LEMMA ProposingStutters ==
  ASSUME UNCHANGED <<status, epoch, tree, log>>
  PROVE  UNCHANGED History!vars
<1>1. UNCHANGED <<Rosters, Positions, Seen>>
  BY SameRosters DEF Positions, Seen, Position, Roster, InGroup, MembersOf
<1> QED
  BY <1>1 DEF History!vars, Rosters, Positions, Seen, Position, Roster

(***************************************************************************)
(* The clients walk through one history of rosters: whatever commits,      *)
(* Welcomes and external commits do to a group, in any order of delivery,  *)
(* is a step of GroupHistory.                                              *)
(***************************************************************************)
THEOREM ClientsShareHistory == Spec => ImplementsGroupHistory
<1>1. Init => History!Init
  <2> SUFFICES ASSUME Init PROVE History!Init
    OBVIOUS
  <2> DEFINE founders == MembersOf(FoundingTree)
  <2>1. founders \in (SUBSET Client) \ {{}}
    <3>1. PICK leaf \in Leaf : FoundingTree[leaf] # Nobody
      BY FoundingTreeAssumption
    <3>2. FoundingTree[leaf] \in Client
      BY <3>1, FoundingTreeAssumption DEF Tree
    <3>3. FoundingTree[leaf] \in founders
      BY <3>1, <3>2 DEF MembersOf
    <3> QED
      BY <3>3 DEF MembersOf
  <2>2. Rosters = <<founders>>
    <3>1. Newest = 0
      BY DEF Init, Newest
    <3>2. Rosters = [i \in 1 .. 1 |-> founders]
      BY <3>1 DEF Rosters, TreeAt
    <3> HIDE DEF founders
    <3> QED
      BY <3>2
  <2>3. /\ Positions = [c \in Client |-> IF c \in founders THEN 1 ELSE 0]
        /\ Seen = [c \in Client |-> IF c \in founders THEN founders ELSE {}]
    BY DEF Init, Positions, Seen, Position, Roster, InGroup
  <2> HIDE DEF founders
  <2> QED
    BY <2>1, <2>2, <2>3 DEF History!Init, History!Outside, Rosters, Positions, Seen, Position, Roster
<1>2. GroupInv /\ GroupInv' /\ [Next]_vars => [History!Next]_(History!vars)
  <2> SUFFICES ASSUME GroupInv, GroupInv', [Next]_vars PROVE [History!Next]_(History!vars)
    OBVIOUS
  <2>1. ASSUME NEW c \in Client, CreateCommit(c) PROVE History!Next
    BY <2>1, CreateCommitImplements DEF History!Next
  <2>2. ASSUME NEW c \in Client, JoinGroupExternal(c) PROVE History!Next
    BY <2>2, JoinGroupExternalImplements DEF History!Next
  <2>3. ASSUME NEW c \in Client, NEW e \in 1 .. Newest, JoinGroup(c, e) PROVE History!Next
    BY <2>3, JoinGroupImplements DEF History!Next
  <2>4. ASSUME NEW c \in Client, ProcessRemoval(c) PROVE History!Next
    BY <2>4, ProcessRemovalImplements DEF History!Next
  <2>5. ASSUME NEW c \in Client, ProcessCommit(c) PROVE History!Next
    BY <2>5, ProcessCommitImplements DEF History!Next
  <2>6. ASSUME NEW c \in Client,
               \/ CreateProposal(c) \/ ProposeAddExternal(c)
               \/ \E proposal \in network : ProcessProposal(c, proposal)
        PROVE  UNCHANGED History!vars
    <3>1. UNCHANGED <<status, epoch, tree, log>>
      BY <2>6 DEF CreateProposal, ProposeAddExternal, ProcessProposal
    <3> QED
      BY <3>1, ProposingStutters
  <2>7. CASE UNCHANGED vars
    BY <2>7, ProposingStutters DEF vars
  <2> QED
    BY <2>1, <2>2, <2>3, <2>4, <2>5, <2>6, <2>7 DEF Next
<1> QED
  BY <1>1, <1>2, GroupInvariant, PTL DEF Spec, ImplementsGroupHistory, History!Spec

=============================================================================
