-------------------------- MODULE CollisionDagProofs --------------------------
(***************************************************************************)
(* Proofs about CollisionDag, for any number of siblings and developers    *)
(* and any surfaces: the analyzer's plan is acyclic, overlapping subtasks  *)
(* stay ordered, and those of an upfront queue are never at work together. *)
(***************************************************************************)
EXTENDS CollisionDag, FiniteSetTheorems, WellFoundedInduction, TLAPS

Rows == {s \in Seq(Row) : Len(s) <= MaxSiblings}

LEMMA RowsAreTyped ==
  ASSUME NEW s \in Rows
  PROVE  /\ Len(s) \in Nat /\ DOMAIN s = 1..Len(s) /\ DOMAIN s \subseteq Ids
         /\ \A t \in DOMAIN s : s[t] \in Row
  BY SiblingsAreBounded DEF Rows, Ids

LEMMA LeastElement ==
  ASSUME NEW T \in SUBSET Nat, T # {}
  PROVE  \E n \in T : \A m \in T : n <= m
<1> DEFINE Below(n) == 0..n
           Belows == {Below(n) : n \in T}
<1>1. Belows \subseteq FiniteSubsetsOf(Nat) /\ Belows # {}
  <2>1. ASSUME NEW n \in T PROVE Below(n) \in FiniteSubsetsOf(Nat)
    BY FS_Interval DEF FiniteSubsetsOf
  <2> QED BY <2>1
<1>2. PICK x \in Belows : \A y \in Belows : <<y, x>> \notin StrictSubsetOrdering(Nat)
  <2> HIDE DEF Belows
  <2> QED BY <1>1, FS_StrictSubsetOrderingWellFounded, WFMin
<1>3. PICK n \in T : x = Below(n)
  BY <1>2
<1>4. ASSUME NEW m \in T, m < n PROVE FALSE
  <2>1. Below(m) \subseteq Below(n) /\ n \in Below(n) /\ n \notin Below(m)
    BY <1>4
  <2>2. Below(m) \in Belows /\ Below(m) \subseteq Nat /\ Below(n) \subseteq Nat
    OBVIOUS
  <2> HIDE DEF Below, Belows
  <2> QED BY <1>2, <1>3, <2>1, <2>2 DEF StrictSubsetOrdering
<1> QED BY <1>4

(***************************************************************************)
(* Every edge of the plan climbs in (touches_shared, sequence, id), and a  *)
(* set of subtasks has a least one in that order.                          *)
(***************************************************************************)
LEMMA PlanClimbs ==
  ASSUME NEW s \in Rows, NEW a, NEW b, <<a, b>> \in Analyze(s)
  PROVE  a \in DOMAIN s /\ b \in DOMAIN s /\ MigratesBefore(s, a, b)
  BY DEF Analyze, FileOverlapEdges, SharedLastEdges, MigrationChainEdges, MigratesBefore

LEMMA LeastClimber ==
  ASSUME NEW s \in Rows, NEW S \in SUBSET DOMAIN s, S # {}
  PROVE  \E t \in S : \A d \in S : ~MigratesBefore(s, d, t)
<1> DEFINE Unshared == {t \in S : ~s[t].surface.touches_shared}
           Lowest == IF Unshared # {} THEN Unshared ELSE S
           Waves == {s[t].sequence : t \in Lowest}
<1>1. /\ DOMAIN s \subseteq Nat
      /\ \A t \in DOMAIN s : s[t].sequence \in Nat /\ s[t].surface.touches_shared \in BOOLEAN
  BY RowsAreTyped DEF Row, SurfaceType
<1>2. PICK n \in Waves : \A m \in Waves : n <= m
  <2>1. Waves \in SUBSET Nat /\ Waves # {}
    BY <1>1
  <2> HIDE DEF Waves
  <2> QED BY <2>1, LeastElement
<1> DEFINE Tied == {t \in Lowest : s[t].sequence = n}
<1>3. PICK t \in Tied : \A u \in Tied : t <= u
  <2>1. Tied \in SUBSET Nat /\ Tied # {}
    BY <1>1, <1>2
  <2> HIDE DEF Tied
  <2> QED BY <2>1, LeastElement
<1>4. ASSUME NEW d \in S, MigratesBefore(s, d, t) PROVE FALSE
  <2>1. SameSharing(s, d, t) /\ Before(s, d, t)
    BY <1>3, <1>4 DEF MigratesBefore, SharedOnly
  <2>2. d \in Lowest
    BY <1>3, <2>1 DEF SameSharing
  <2>3. n <= s[d].sequence /\ s[t].sequence = n
    BY <1>2, <1>3, <2>2
  <2>4. d \in Tied /\ d < t
    BY <1>1, <1>3, <2>1, <2>2, <2>3 DEF Before
  <2> QED BY <1>1, <1>3, <2>4
<1> QED BY <1>3, <1>4

LEMMA AnalyzerIsAcyclic ==
  ASSUME NEW s \in Rows
  PROVE  Acyclic(Analyze(s))
<1> SUFFICES ASSUME NEW S \in SUBSET Ids, S # {}
             PROVE  \E t \in S : \A d \in S : <<d, t>> \notin Analyze(s)
  BY DEF Acyclic
<1>1. CASE S \cap DOMAIN s = {}
  BY <1>1, PlanClimbs
<1>2. CASE S \cap DOMAIN s # {}
  <2>1. PICK t \in S \cap DOMAIN s : \A d \in S \cap DOMAIN s : ~MigratesBefore(s, d, t)
    BY <1>2, LeastClimber
  <2> QED BY <2>1, PlanClimbs
<1> QED BY <1>1, <1>2

(***************************************************************************)
(* Types. A delegate appends a row, every other step rewrites rows.        *)
(***************************************************************************)
LEMMA CreatedIsTyped ==
  ASSUME TypeOK, NEW dev \in Devs, NEW surface \in Surfaces, NEW D \in SUBSET Sib,
         Len(siblings) < MaxSiblings
  PROVE  /\ Created(dev, surface, D) \in Rows
         /\ Len(Created(dev, surface, D)) = Len(siblings) + 1
         /\ DOMAIN Created(dev, surface, D) = Sib \cup {Len(siblings) + 1}
         /\ Len(siblings) + 1 \notin Sib
         /\ \A t \in Sib : Created(dev, surface, D)[t] = siblings[t]
         /\ Created(dev, surface, D)[Len(siblings) + 1].status = "pending"
<1>1. siblings \in Rows
  BY DEF TypeOK, Rows
<1>2. D \subseteq Ids /\ surface \in SurfaceType
  BY <1>1, RowsAreTyped, SurfacesAreTyped DEF Sib
<1> DEFINE r == [status |-> "pending", sequence |-> 0, assigned_to |-> dev,
                 developer |-> Nobody, surface |-> surface, dependency_ids |-> D, completed_dependency_ids |-> {}]
<1>3. r \in Row /\ r.status = "pending"
  BY <1>2 DEF Row, Statuses, Owners
<1>4. Created(dev, surface, D) = Append(siblings, r)
  BY DEF Created
<1> HIDE DEF r
<1>5. siblings \in Seq(Row) /\ Len(siblings) \in Nat /\ Sib = 1..Len(siblings)
  BY <1>1, RowsAreTyped DEF Rows, Sib
<1> QED BY <1>3, <1>4, <1>5, SiblingsAreBounded DEF Rows

LEMMA RewrittenIsTyped ==
  ASSUME NEW s \in Rows, NEW f \in [DOMAIN s -> Row]
  PROVE  f \in Rows /\ DOMAIN f = DOMAIN s
  BY RowsAreTyped DEF Rows

\* The row a move leaves behind.
Moved(row, to, owner, developer) ==
  [row EXCEPT !.status = to, !.assigned_to = owner, !.developer = developer]

LEMMA MoveRewrites ==
  ASSUME TypeOK, NEW t \in Sib, NEW from, NEW to, NEW owner, Move(t, from, to, owner)
  PROVE  \E developer \in Owners :
           siblings' = [siblings EXCEPT ![t] = Moved(siblings[t], to, owner, developer)]
<1> DEFINE row == siblings[t]
           developer == IF to # "in_review" THEN Nobody
                        ELSE IF row.developer = Nobody THEN row.assigned_to ELSE row.developer
<1>1. row \in Row
  BY RowsAreTyped DEF TypeOK, Rows, Sib
<1>2. developer \in Owners
  BY <1>1 DEF Row, Owners
<1>3. siblings' = [siblings EXCEPT ![t] = Moved(row, to, owner, developer)]
  BY <1>1 DEF Move, Moved, Row, TypeOK, Sib
<1> QED BY <1>2, <1>3

LEMMA MoveIsTyped ==
  ASSUME TypeOK, NEW t \in Sib, NEW from, NEW to \in Statuses, NEW owner \in Owners,
         Move(t, from, to, owner)
  PROVE  TypeOK'
<1>1. siblings \in Rows
  BY DEF TypeOK, Rows
<1>2. siblings \in [Sib -> Row]
  BY <1>1, RowsAreTyped DEF Rows, Sib
<1>3. PICK developer \in Owners :
        siblings' = [siblings EXCEPT ![t] = Moved(siblings[t], to, owner, developer)]
  BY MoveRewrites
<1>4. Moved(siblings[t], to, owner, developer) \in Row
  BY <1>2 DEF Row, Moved
<1>5. siblings' \in [Sib -> Row]
  BY <1>2, <1>3, <1>4
<1>6. UNCHANGED upfront
  BY DEF Move
<1> QED BY <1>1, <1>5, <1>6, RewrittenIsTyped DEF Rows, TypeOK, Sib

LEMMA FinishIsTyped ==
  ASSUME TypeOK, NEW t \in Sib, NEW to \in Terminal, Finish(t, to)
  PROVE  TypeOK'
<1>1. siblings \in Rows /\ t \in Ids
  BY RowsAreTyped DEF TypeOK, Rows, Sib
<1>2. ASSUME NEW u \in Sib PROVE siblings'[u] \in Row
  <2>1. siblings[u] \in Row
    BY <1>1, RowsAreTyped DEF Sib
  <2>2. Pruned(siblings[u], t) \in Row
    BY <1>1, <2>1 DEF Pruned, Row, Statuses, AtWork
  <2>3. [siblings[u] EXCEPT !.status = to, !.developer = Nobody] \in Row
    BY <2>1 DEF Row, Statuses, Owners
  <2> QED BY <2>1, <2>2, <2>3 DEF Finish
<1>3. siblings' \in [Sib -> Row]
  BY <1>2 DEF Finish
<1> QED BY <1>1, <1>3, RewrittenIsTyped DEF Rows, TypeOK, Finish, Sib

LEMMA DelegateIsTyped ==
  ASSUME TypeOK, NEW dev \in Devs, NEW surface \in Surfaces, NEW D \in SUBSET Sib,
         Delegate(dev, surface, D)
  PROVE  TypeOK'
<1> DEFINE s == Created(dev, surface, D)
           deps(u) == {d \in DOMAIN s : <<d, u>> \in Wired(s)}
<1>1. Len(siblings) < MaxSiblings
  BY DEF Delegate
<1>2. s \in Rows
  BY <1>1, CreatedIsTyped
<1>3. PICK n \in 0..MaxSiblings :
        siblings' = [u \in DOMAIN s |->
          [s[u] EXCEPT !.dependency_ids = deps(u), !.sequence = IF u = Len(s) THEN n ELSE @]]
  BY DEF Delegate
<1>4. ASSUME NEW u \in DOMAIN s PROVE deps(u) \in SUBSET Ids /\ s[u] \in Row
  <2> HIDE DEF s
  <2> QED BY <1>2, RowsAreTyped
<1>5. siblings' \in [DOMAIN s -> Row]
  <2> HIDE DEF s, deps
  <2>1. ASSUME NEW u \in DOMAIN s, NEW k \in Nat
        PROVE  [s[u] EXCEPT !.dependency_ids = deps(u), !.sequence = k] \in Row
    BY <1>4 DEF Row
  <2>2. ASSUME NEW u \in DOMAIN s PROVE siblings'[u] \in Row
    <3>1. siblings'[u] = [s[u] EXCEPT !.dependency_ids = deps(u),
                                      !.sequence = IF u = Len(s) THEN n ELSE s[u].sequence]
      BY <1>3
    <3>2. n \in Nat /\ s[u].sequence \in Nat
      BY <1>4, SiblingsAreBounded DEF Row
    <3> QED BY <2>1, <3>1, <3>2
  <2> QED BY <1>3, <2>2
<1>6. siblings' \in Rows
  BY <1>2, <1>5, RewrittenIsTyped
<1>7. upfront' \in BOOLEAN
  BY DEF Delegate, TypeOK
<1> QED BY <1>6, <1>7 DEF TypeOK, Rows

\* A step of the life of subtask t.
Lives(t) == \/ \E dev \in Devs : Claim(dev, t) \/ Reassign(dev, t)
            \/ \E owner \in Reviewers \cup {Nobody} : HandOver(t, owner)
            \/ Unclaim(t) \/ Reap(t) \/ Submit(t) \/ SendBack(t)
            \/ AutoBlock(t) \/ Unblock(t) \/ Complete(t) \/ Cancel(t)

Ends(t) == \E to \in Terminal : /\ Finish(t, to)
                                /\ to = "cancelled" \/ siblings[t].status = "in_review"
MovesOn(t, from, to, owner) == /\ Open(t) /\ Move(t, from, to, owner)
                               /\ Unmet(t) = {} \/ to = "pending" \/ from \cap {"pending", "cancelled"} = {}
Moves(t) == \E from \in SUBSET Statuses, to \in Statuses \ Terminal, owner \in Owners :
              MovesOn(t, from, to, owner)

\* Each of them moves t to another status or owner, or finishes it.
LEMMA LivesMoveOrFinish ==
  ASSUME TypeOK, NEW t \in Sib, Lives(t)
  PROVE  Ends(t) \/ Moves(t)
<1>1. /\ siblings[t].assigned_to \in Owners /\ siblings[t].developer \in Owners
      /\ Nobody \in Owners /\ Devs \subseteq Owners /\ Reviewers \subseteq Owners
  <2>1. siblings[t] \in Row
    BY RowsAreTyped DEF TypeOK, Rows, Sib
  <2> QED BY <2>1 DEF Row, Owners
<1>2. CASE Complete(t) \/ Cancel(t)
  BY <1>2 DEF Complete, Cancel, Terminal, Ends
<1>3. ASSUME NEW dev \in Devs, Claim(dev, t) PROVE Moves(t)
  <2>1. MovesOn(t, Statuses, "in_progress", dev)
    BY <1>3 DEF Claim, Claimable, Open, Terminal, MovesOn
  <2> QED BY <1>1, <2>1 DEF Statuses, AtWork, Terminal, Moves
<1> DEFINE Froms == {{"in_progress"}, {"in_review"}, {"blocked"}, {"in_progress", "needs_revision"}}
           Tos == {"pending", "in_review", "needs_revision", "blocked", "in_progress"}
<1>4. ASSUME NEW from \in Froms, NEW to \in Tos, NEW owner \in Owners, Move(t, from, to, owner)
      PROVE  Moves(t)
  <2>1. siblings[t].status \in from
    BY <1>4 DEF Move
  <2>2. MovesOn(t, from, to, owner)
    BY <1>4, <2>1 DEF Open, Terminal, MovesOn
  <2>3. from \in SUBSET Statuses /\ to \in Statuses \ Terminal
    BY <1>4 DEF Statuses, AtWork, Terminal
  <2> QED BY <2>2, <2>3 DEF Moves
<1>5. ASSUME NEW dev \in Devs, Reassign(dev, t) PROVE Moves(t)
  BY <1>1, <1>4, <1>5 DEF Reassign
<1>6. ASSUME NEW owner \in Reviewers \cup {Nobody}, HandOver(t, owner) PROVE Moves(t)
  BY <1>1, <1>4, <1>6 DEF HandOver
<1>7. CASE Submit(t) \/ SendBack(t)
  BY <1>1, <1>4, <1>7 DEF Submit, SendBack
<1>8. CASE Reap(t) \/ AutoBlock(t) \/ Unblock(t)
  BY <1>1, <1>4, <1>8 DEF Reap, AutoBlock, Unblock, Keep
<1>9. CASE Unclaim(t)
  <2> DEFINE held == Statuses \ (Terminal \cup {"in_review"})
  <2>1. MovesOn(t, held, "pending", Nobody)
    BY <1>9 DEF Unclaim, Move, Open, MovesOn
  <2> QED BY <1>1, <2>1 DEF Statuses, AtWork, Terminal, Moves
<1> QED BY <1>2, <1>3, <1>5, <1>6, <1>7, <1>8, <1>9 DEF Lives

LEMMA TypePreserved == TypeOK /\ [Next]_vars => TypeOK'
<1> SUFFICES ASSUME TypeOK, [Next]_vars PROVE TypeOK'
  OBVIOUS
<1>1. ASSUME NEW dev \in Devs, NEW surface \in Surfaces, NEW D \in SUBSET Sib,
             Delegate(dev, surface, D)
      PROVE  TypeOK'
  BY <1>1, DelegateIsTyped
<1>2. ASSUME NEW t \in Sib, Lives(t) PROVE TypeOK'
  <2>1. CASE Ends(t)
    BY <2>1, FinishIsTyped DEF Ends
  <2>2. CASE Moves(t)
    BY <2>2, MoveIsTyped DEF Moves, MovesOn
  <2> QED BY <1>2, <2>1, <2>2, LivesMoveOrFinish
<1>3. CASE UNCHANGED vars
  BY <1>3 DEF vars, TypeOK
<1> QED BY <1>1, <1>2, <1>3 DEF Next, Lives

\* The rows keep their types, for any number of siblings, developers and surfaces.
THEOREM TypeCorrect == Spec => []TypeOK
<1>1. Init => TypeOK
  BY SiblingsAreBounded DEF Init, TypeOK
<1> QED BY <1>1, TypePreserved, PTL DEF Spec

\* SequencingError is out of reach: whatever a parent's subtasks declare, and
\* whatever waves they have been stamped with, the analyzer's plan has no cycle.
THEOREM PlansAreAcyclic == Spec => []PlanIsAcyclic
<1>1. TypeOK => PlanIsAcyclic
  BY AnalyzerIsAcyclic DEF TypeOK, Rows, PlanIsAcyclic
<1> QED BY <1>1, TypeCorrect, PTL

(***************************************************************************)
(* What each kind of step does to the dependencies of unfinished subtasks. *)
(***************************************************************************)
LEMMA AnalyzerOrdersOverlaps ==
  ASSUME NEW s \in Rows, NEW a \in DOMAIN s, NEW b \in DOMAIN s, a # b, Overlap(s, a, b)
  PROVE  <<a, b>> \in Wired(s) \/ <<b, a>> \in Wired(s)
<1>1. Overlap(s, b, a)
  BY DEF Overlap
<1>2. Before(s, a, b) \/ Before(s, b, a)
  BY RowsAreTyped DEF Before, Row, Ids
<1>3. SharedOnly(s, a, b) \/ SharedOnly(s, b, a) \/ (SameSharing(s, a, b) /\ SameSharing(s, b, a))
  BY RowsAreTyped DEF SharedOnly, SameSharing, Row, SurfaceType
<1>4. <<a, b>> \in Analyze(s) \/ <<b, a>> \in Analyze(s)
  BY <1>1, <1>2, <1>3 DEF Analyze, FileOverlapEdges, SharedLastEdges
<1>5. Analyze(s) \subseteq Wired(s)
  BY DEF Wired, ExtendAcyclic
<1> QED BY <1>4, <1>5

LEMMA DelegateWrites ==
  ASSUME TypeOK, NEW dev \in Devs, NEW surface \in Surfaces, NEW D \in SUBSET Sib,
         Delegate(dev, surface, D)
  PROVE  \E s \in Rows :
         /\ s = Created(dev, surface, D) /\ Sib' = DOMAIN s
         /\ \A u \in DOMAIN s :
              /\ siblings'[u].dependency_ids = {d \in DOMAIN s : <<d, u>> \in Wired(s)}
              /\ siblings'[u].status = s[u].status /\ siblings'[u].surface = s[u].surface
<1> DEFINE s == Created(dev, surface, D)
<1>1. s \in Rows
  BY CreatedIsTyped DEF Delegate
<1>2. PICK n \in 0..MaxSiblings :
        siblings' = [u \in DOMAIN s |->
          [s[u] EXCEPT !.dependency_ids = {d \in DOMAIN s : <<d, u>> \in Wired(s)},
                       !.sequence = IF u = Len(s) THEN n ELSE @]]
  BY DEF Delegate
<1>3. \A u \in DOMAIN s : s[u] \in Row
  BY <1>1, RowsAreTyped
<1> HIDE DEF s
<1>4. /\ Sib' = DOMAIN s
      /\ \A u \in DOMAIN s :
           /\ siblings'[u].dependency_ids = {d \in DOMAIN s : <<d, u>> \in Wired(s)}
           /\ siblings'[u].status = s[u].status /\ siblings'[u].surface = s[u].surface
  BY <1>2, <1>3 DEF Sib, Row
<1> QED BY <1>1, <1>4 DEF s

\* Of the rows s: t is unfinished; the unfinished siblings t waits for.
Live(s, t) == s[t].status \notin Terminal
Waits(s, t) == {d \in s[t].dependency_ids \cap DOMAIN s : Live(s, d)}
Ordered(s) == \A a, b \in DOMAIN s : a # b /\ Overlap(s, a, b) /\ Live(s, a) /\ Live(s, b)
                                       => a \in Waits(s, b) \/ b \in Waits(s, a)

LEMMA MoveKeepsWaiting ==
  ASSUME TypeOK, NEW t \in Sib, NEW from, NEW to \in Statuses \ Terminal, NEW owner,
         Live(siblings, t), Move(t, from, to, owner)
  PROVE  /\ DOMAIN siblings' = DOMAIN siblings /\ siblings'[t].status = to
         /\ \A u \in DOMAIN siblings : /\ siblings'[u].surface = siblings[u].surface
                                       /\ Live(siblings', u) <=> Live(siblings, u)
                                       /\ Waits(siblings', u) = Waits(siblings, u)
         /\ \A u \in DOMAIN siblings \ {t} : siblings'[u].status = siblings[u].status
<1>1. siblings \in Rows
  BY DEF TypeOK, Rows
<1>2. \A u \in DOMAIN siblings : siblings[u] \in Row
  BY <1>1, RowsAreTyped DEF Sib
<1>3. /\ DOMAIN siblings' = DOMAIN siblings /\ siblings'[t].status = to
      /\ \A u \in DOMAIN siblings : /\ siblings'[u].surface = siblings[u].surface
                                    /\ siblings'[u].dependency_ids = siblings[u].dependency_ids
      /\ \A u \in DOMAIN siblings \ {t} : siblings'[u] = siblings[u]
  <2>1. PICK developer \in Owners :
          siblings' = [siblings EXCEPT ![t] = Moved(siblings[t], to, owner, developer)]
    BY MoveRewrites
  <2> QED BY <1>2, <2>1 DEF Moved, Sib, Row
<1>4. \A u \in DOMAIN siblings : Live(siblings', u) <=> Live(siblings, u)
  BY <1>3 DEF Live
<1>5. \A u \in DOMAIN siblings : Waits(siblings', u) = Waits(siblings, u)
  BY <1>3, <1>4 DEF Waits, Sib
<1> QED BY <1>3, <1>4, <1>5

LEMMA FinishKeepsWaiting ==
  ASSUME TypeOK, NEW t \in Sib, NEW to \in Terminal, Finish(t, to)
  PROVE  /\ DOMAIN siblings' = DOMAIN siblings /\ siblings'[t].status = to
         /\ \A u \in DOMAIN siblings : /\ siblings'[u].surface = siblings[u].surface
                                       /\ Live(siblings', u) => Live(siblings, u) /\ u # t
                                       /\ Waits(siblings', u) \subseteq Waits(siblings, u)
                                       /\ \A d \in Waits(siblings, u) : Live(siblings', d) => d \in Waits(siblings', u)
         /\ \A u \in DOMAIN siblings \ {t} : \/ siblings'[u].status = siblings[u].status
                                             \/ siblings[u].status = "blocked"
<1>1. siblings \in Rows
  BY DEF TypeOK, Rows
<1>2. \A u \in DOMAIN siblings : siblings[u] \in Row
  BY <1>1, RowsAreTyped DEF Sib
<1>3. /\ DOMAIN siblings' = DOMAIN siblings /\ siblings'[t].status = to /\ siblings'[t].surface = siblings[t].surface
      /\ siblings'[t].dependency_ids = siblings[t].dependency_ids
  <2>1. siblings'[t] = [siblings[t] EXCEPT !.status = to, !.developer = Nobody] /\ siblings[t] \in Row
    BY <1>2 DEF Finish, Sib
  <2>2. DOMAIN siblings' = DOMAIN siblings
    BY DEF Finish, Sib
  <2> QED BY <2>1, <2>2 DEF Row
<1>4. ASSUME NEW u \in DOMAIN siblings \ {t}
      PROVE  /\ siblings'[u].surface = siblings[u].surface
             /\ siblings'[u].dependency_ids = siblings[u].dependency_ids \ {t}
             /\ \/ siblings'[u].status = siblings[u].status
                \/ siblings[u].status = "blocked" /\ siblings'[u].status = "in_progress"
  <2>1. siblings'[u] = IF t \in siblings[u].dependency_ids THEN Pruned(siblings[u], t)
                       ELSE siblings[u]
    BY <1>4 DEF Finish, Sib
  <2>2. siblings[u] \in Row
    BY <1>2, <1>4
  <2> QED BY <2>1, <2>2 DEF Pruned, Row
<1>5. \A u \in DOMAIN siblings : Live(siblings', u) => Live(siblings, u) /\ u # t
  BY <1>3, <1>4 DEF Live, Terminal
<1>6. \A u \in DOMAIN siblings :
        /\ Waits(siblings', u) \subseteq Waits(siblings, u)
        /\ \A d \in Waits(siblings, u) : Live(siblings', d) => d \in Waits(siblings', u)
  BY <1>3, <1>4, <1>5 DEF Waits, Sib
<1> QED BY <1>3, <1>4, <1>5, <1>6

-----------------------------------------------------------------------------
(***************************************************************************)
(* Order: a delegate wires every overlapping pair, a finish only takes the *)
(* finished subtask out, a move leaves the dependencies alone.             *)
(***************************************************************************)
LEMMA OrderedIsOrdered == Ordered(siblings) <=> OverlapsAreOrdered
  BY DEF Ordered, OverlapsAreOrdered, Live, Waits, Open, Unmet, Sib

LEMMA DelegateOrders ==
  ASSUME TypeOK, NEW dev \in Devs, NEW surface \in Surfaces, NEW D \in SUBSET Sib,
         Delegate(dev, surface, D)
  PROVE  Ordered(siblings')
<1>1. PICK s \in Rows :
        /\ Sib' = DOMAIN s
        /\ \A u \in DOMAIN s :
             /\ siblings'[u].dependency_ids = {d \in DOMAIN s : <<d, u>> \in Wired(s)}
             /\ siblings'[u].status = s[u].status /\ siblings'[u].surface = s[u].surface
  BY DelegateWrites
<1>2. ASSUME NEW a \in DOMAIN s, NEW b \in DOMAIN s, a # b, Overlap(siblings', a, b),
             Live(siblings', a), Live(siblings', b)
      PROVE  a \in Waits(siblings', b) \/ b \in Waits(siblings', a)
  <2>1. Overlap(s, a, b)
    BY <1>1, <1>2 DEF Overlap
  <2>2. <<a, b>> \in Wired(s) \/ <<b, a>> \in Wired(s)
    BY <1>2, <2>1, AnalyzerOrdersOverlaps
  <2> QED BY <1>1, <1>2, <2>2 DEF Waits, Sib
<1> QED BY <1>1, <1>2 DEF Ordered, Sib

LEMMA LifeKeepsOrder ==
  ASSUME TypeOK, Ordered(siblings), NEW t \in Sib, Ends(t) \/ Moves(t)
  PROVE  Ordered(siblings')
<1>1. /\ DOMAIN siblings' = DOMAIN siblings
      /\ \A u \in DOMAIN siblings :
           /\ siblings'[u].surface = siblings[u].surface
           /\ Live(siblings', u) => Live(siblings, u)
           /\ \A d \in Waits(siblings, u) : Live(siblings', d) => d \in Waits(siblings', u)
  <2>1. CASE Ends(t)
    BY <2>1, FinishKeepsWaiting DEF Ends
  <2>2. CASE Moves(t)
    <3>1. PICK from \in SUBSET Statuses, to \in Statuses \ Terminal, owner \in Owners :
            MovesOn(t, from, to, owner)
      BY <2>2 DEF Moves
    <3>2. Live(siblings, t) /\ Move(t, from, to, owner)
      BY <3>1 DEF MovesOn, Open, Live
    <3> QED BY <3>2, MoveKeepsWaiting
  <2> QED BY <2>1, <2>2
<1>2. ASSUME NEW a \in DOMAIN siblings, NEW b \in DOMAIN siblings, a # b,
             Overlap(siblings', a, b), Live(siblings', a), Live(siblings', b)
      PROVE  a \in Waits(siblings', b) \/ b \in Waits(siblings', a)
  <2>1. Overlap(siblings, a, b)
    BY <1>1, <1>2 DEF Overlap
  <2>2. a \in Waits(siblings, b) \/ b \in Waits(siblings, a)
    BY <1>1, <1>2, <2>1 DEF Ordered
  <2> QED BY <1>1, <1>2, <2>2
<1> QED BY <1>1, <1>2 DEF Ordered

LEMMA OrderPreserved == TypeOK /\ OverlapsAreOrdered /\ [Next]_vars => OverlapsAreOrdered'
<1> SUFFICES ASSUME TypeOK, OverlapsAreOrdered, [Next]_vars PROVE OverlapsAreOrdered'
  OBVIOUS
<1>1. Ordered(siblings)
  BY OrderedIsOrdered
<1>2. Ordered(siblings')
  <2>1. ASSUME NEW dev \in Devs, NEW surface \in Surfaces, NEW D \in SUBSET Sib,
               Delegate(dev, surface, D)
        PROVE  Ordered(siblings')
    BY <2>1, DelegateOrders
  <2>2. ASSUME NEW t \in Sib, Lives(t) PROVE Ordered(siblings')
    BY <1>1, <2>2, LivesMoveOrFinish, LifeKeepsOrder
  <2>3. CASE UNCHANGED vars
    BY <1>1, <2>3 DEF vars
  <2> QED BY <2>1, <2>2, <2>3 DEF Next, Lives
<1> QED BY <1>2 DEF Ordered, OverlapsAreOrdered, Live, Waits, Open, Unmet, Sib

\* Two unfinished subtasks whose files overlap stay ordered by a dependency,
\* through every later delegate, pruning, cancellation and revival.
THEOREM OverlapsOrdered == Spec => []OverlapsAreOrdered
<1>1. Init => OverlapsAreOrdered
  BY DEF Init, OverlapsAreOrdered, Sib
<1> QED BY <1>1, OrderPreserved, TypeCorrect, PTL DEF Spec

-----------------------------------------------------------------------------
(***************************************************************************)
(* A subtask of an upfront queue that has been claimed waits for nothing   *)
(* from then on: that, and the order, keep overlapping subtasks apart.     *)
(***************************************************************************)
Unclaimed(s, t) == s[t].status \in {"pending", "cancelled"}
Clear(s) == \A t \in DOMAIN s : Unclaimed(s, t) \/ Waits(s, t) = {}
StartedIsClear == upfront => Clear(siblings)

LEMMA DelegateClears ==
  ASSUME TypeOK, NEW dev \in Devs, NEW surface \in Surfaces, NEW D \in SUBSET Sib,
         Delegate(dev, surface, D), upfront'
  PROVE  Clear(siblings')
<1>1. PICK s \in Rows :
        /\ s = Created(dev, surface, D) /\ Sib' = DOMAIN s
        /\ \A u \in DOMAIN s : siblings'[u].status = s[u].status
  BY DelegateWrites
<1>2. \A u \in Sib : Unclaimed(siblings, u)
  BY DEF Delegate, Unclaimed
<1>3. /\ DOMAIN s = Sib \cup {Len(siblings) + 1} /\ s[Len(siblings) + 1].status = "pending"
      /\ \A u \in Sib : s[u] = siblings[u]
  <2>1. Len(siblings) < MaxSiblings
    BY DEF Delegate
  <2> QED BY <1>1, <2>1, CreatedIsTyped
<1> QED BY <1>1, <1>2, <1>3 DEF Clear, Unclaimed, Sib

LEMMA LifeKeepsClear ==
  ASSUME TypeOK, Clear(siblings), NEW t \in Sib, Ends(t) \/ Moves(t)
  PROVE  Clear(siblings')
<1>1. CASE Ends(t)
  <2>1. PICK to \in Terminal :
          Finish(t, to) /\ (to = "cancelled" \/ siblings[t].status = "in_review")
    BY <1>1 DEF Ends
  <2>2. /\ DOMAIN siblings' = DOMAIN siblings /\ siblings'[t].status = to
        /\ \A u \in DOMAIN siblings : Waits(siblings', u) \subseteq Waits(siblings, u)
        /\ \A u \in DOMAIN siblings \ {t} : \/ siblings'[u].status = siblings[u].status
                                          \/ siblings[u].status = "blocked"
    BY <2>1, FinishKeepsWaiting
  <2> QED BY <2>1, <2>2 DEF Clear, Unclaimed
<1>2. CASE Moves(t)
  <2>1. PICK from \in SUBSET Statuses, to \in Statuses \ Terminal, owner \in Owners :
          MovesOn(t, from, to, owner)
    BY <1>2 DEF Moves
  <2>2. Live(siblings, t) /\ Move(t, from, to, owner)
    BY <2>1 DEF MovesOn, Open, Live
  <2>3. /\ DOMAIN siblings' = DOMAIN siblings /\ siblings'[t].status = to
        /\ \A u \in DOMAIN siblings : Waits(siblings', u) = Waits(siblings, u)
        /\ \A u \in DOMAIN siblings \ {t} : siblings'[u].status = siblings[u].status
    BY <2>2, MoveKeepsWaiting
  <2>4. Waits(siblings, t) = {} \/ to = "pending" \/ ~Unclaimed(siblings, t)
    BY <2>1 DEF MovesOn, Move, Unclaimed, Waits, Unmet, Live, Open
  <2>5. ASSUME NEW u \in DOMAIN siblings, ~Unclaimed(siblings', u)
        PROVE  Waits(siblings', u) = {}
    <3>1. CASE u = t
      <4>1. to # "pending"
        BY <2>3, <2>5, <3>1 DEF Unclaimed
      <4>2. ~Unclaimed(siblings, t) => Waits(siblings, t) = {}
        BY DEF Clear, Sib
      <4> QED BY <2>3, <2>4, <3>1, <4>1, <4>2
    <3>2. CASE u # t
      BY <2>3, <2>5, <3>2 DEF Clear, Unclaimed
    <3> QED BY <3>1, <3>2
  <2> QED BY <2>3, <2>5 DEF Clear
<1> QED BY <1>1, <1>2

LEMMA ClearPreserved == TypeOK /\ StartedIsClear /\ [Next]_vars => StartedIsClear'
<1> SUFFICES ASSUME TypeOK, StartedIsClear, [Next]_vars, upfront' PROVE Clear(siblings')
  BY DEF StartedIsClear, Clear, Unclaimed, Waits, Live
<1>1. ASSUME NEW dev \in Devs, NEW surface \in Surfaces, NEW D \in SUBSET Sib,
             Delegate(dev, surface, D)
      PROVE  Clear(siblings')
  BY <1>1, DelegateClears
<1>2. ASSUME NEW t \in Sib, Lives(t) PROVE Clear(siblings')
  <2>1. UNCHANGED upfront
    BY <1>2, LivesMoveOrFinish DEF Ends, Moves, MovesOn, Move, Finish
  <2> QED BY <1>2, <2>1, LivesMoveOrFinish, LifeKeepsClear DEF StartedIsClear
<1>3. CASE UNCHANGED vars
  BY <1>3 DEF vars, StartedIsClear
<1> QED BY <1>1, <1>2, <1>3 DEF Next, Lives

\* A developer of an upfront queue starts on the merged result of every subtask
\* whose files its own overlap: the two are never at work together.
THEOREM NoOverlapAtWork == Spec => []NeverTogether
<1>1. Init => StartedIsClear
  BY DEF Init, StartedIsClear, Clear
<1>2. OverlapsAreOrdered /\ StartedIsClear => NeverTogether
  <2> SUFFICES ASSUME OverlapsAreOrdered, StartedIsClear, upfront,
                      NEW a \in Sib, NEW b \in Sib, a # b, Overlap(siblings, a, b),
                      {siblings[a].status, siblings[b].status} \subseteq AtWork
               PROVE  FALSE
    BY DEF NeverTogether
  <2>1. /\ Live(siblings, a) /\ Live(siblings, b)
        /\ Waits(siblings, a) = {} /\ Waits(siblings, b) = {}
    BY DEF StartedIsClear, Clear, Unclaimed, Live, AtWork, Terminal, Sib
  <2> QED BY <2>1, OrderedIsOrdered DEF Ordered, Sib
<1> QED BY <1>1, <1>2, ClearPreserved, OverlapsOrdered, TypeCorrect, PTL DEF Spec

=============================================================================
