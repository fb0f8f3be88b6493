---------------------------- MODULE CollisionDag ----------------------------
(***************************************************************************)
(* The code subtasks a PM delegates under one parent, in one repository:   *)
(* the order services/sequencing.py derives from what they will touch, the *)
(* dependencies and wave numbers delegate writes from it, and the three    *)
(* bars a claim then has to pass: its dependencies, its wave, its lane.    *)
(*                                                                         *)
(* siblings[n] is the n-th subtask created; n stands for its id and for    *)
(* its created_at. Every delegated task has the default priority.          *)
(***************************************************************************)
EXTENDS Integers, Sequences, FiniteSets

CONSTANTS Devs,         \* the developers of the cell
          Reviewers,    \* who a subtask under review is handed to: QA, documenter, PM
          Nobody,
          Files,        \* what a surface's globs may overlap in
          Surfaces,     \* the surfaces a PM declares
          MaxSiblings,  \* bound: subtasks under the parent
          MaxDependsOn  \* bound: explicit depends_on entries of a delegate

SurfaceType == [files : SUBSET Files, adds_migration : BOOLEAN, touches_shared : BOOLEAN]
ASSUME SurfacesAreTyped == Surfaces \subseteq SurfaceType
ASSUME OwnersAreDistinct == Nobody \notin Devs \cup Reviewers /\ Devs \cap Reviewers = {}
ASSUME SiblingsAreBounded == MaxSiblings \in Nat

VARIABLES siblings,  \* the rows, in the order of created_at
          upfront    \* history: every delegate found its siblings pending or cancelled
vars == <<siblings, upfront>>

AtWork == {"in_progress", "in_review"}
Terminal == {"completed", "cancelled"}
Statuses == AtWork \cup Terminal \cup {"pending", "needs_revision", "blocked"}
Ids == 1..MaxSiblings
Owners == Devs \cup Reviewers \cup {Nobody}
Row == [status : Statuses, sequence : Nat, surface : SurfaceType,
        assigned_to : Owners,
        developer : Owners,  \* under review: whom a rework goes back to
        dependency_ids : SUBSET Ids, completed_dependency_ids : SUBSET Ids]

Sib == DOMAIN siblings
Open(t) == siblings[t].status \notin Terminal

Init == siblings = <<>> /\ upfront = TRUE

-----------------------------------------------------------------------------
(* dev_task_collision_edges. An edge <<a, b>> says that b waits for a; `s' *)
(* is a sequence of rows, the one the analyzer is given.                   *)

Before(s, a, b) == \/ s[a].sequence < s[b].sequence
                   \/ s[a].sequence = s[b].sequence /\ a < b

SharedOnly(s, a, b) == ~s[a].surface.touches_shared /\ s[b].surface.touches_shared
SameSharing(s, a, b) == s[a].surface.touches_shared = s[b].surface.touches_shared
Overlap(s, a, b) == s[a].surface.files \cap s[b].surface.files # {}

FileOverlapEdges(s) ==
  {e \in (DOMAIN s) \X (DOMAIN s) :
     Overlap(s, e[1], e[2]) /\ SameSharing(s, e[1], e[2]) /\ Before(s, e[1], e[2])}

SharedLastEdges(s) ==
  {e \in (DOMAIN s) \X (DOMAIN s) : Overlap(s, e[1], e[2]) /\ SharedOnly(s, e[1], e[2])}

\* Fault: the chain is sorted without its touches_shared key.
MigratesBySequence(s, a, b) == Before(s, a, b)

MigratesBefore(s, a, b) ==
  SharedOnly(s, a, b) \/ (SameSharing(s, a, b) /\ Before(s, a, b))

MigrationChainEdges(s) ==
  LET migs == {t \in DOMAIN s : s[t].surface.adds_migration}
  IN {e \in migs \X migs :
        /\ MigratesBefore(s, e[1], e[2])
        /\ ~\E m \in migs : MigratesBefore(s, e[1], m) /\ MigratesBefore(s, m, e[2])}

Analyze(s) == FileOverlapEdges(s) \cup MigrationChainEdges(s) \cup SharedLastEdges(s)

SameLane(s, a, b) == s[a].assigned_to = s[b].assigned_to /\ s[a].assigned_to # Nobody

LaneEdges(s) ==
  {e \in (DOMAIN s) \X (DOMAIN s) :
     /\ SameLane(s, e[1], e[2]) /\ Before(s, e[1], e[2])
     /\ ~\E m \in DOMAIN s : /\ SameLane(s, e[1], m)
                             /\ Before(s, e[1], m) /\ Before(s, m, e[2])}

\* The nodes that must run after a, a included.
After(G, a) ==
  LET f[n \in 0..MaxSiblings] ==
        IF n = 0 THEN {a} ELSE LET S == f[n-1] IN S \cup {e[2] : e \in {g \in G : g[1] \in S}}
  IN f[MaxSiblings]

\* The lanes come in the order of their first members, a lane's edges in its own.
LaneHead(s, a) == CHOOSE t \in DOMAIN s : /\ SameLane(s, t, a)
                                          /\ \A u \in DOMAIN s : SameLane(s, u, a) => t <= u
Sooner(s, e, g) == IF SameLane(s, e[1], g[1]) THEN Before(s, e[1], g[1])
                   ELSE LaneHead(s, e[1]) < LaneHead(s, g[1])

\* The lane edges kept: each that closes no cycle with the analyzer's edges and
\* the lane edges kept before it.
ExtendAcyclic(s) ==
  LET analyzed == Analyze(s)
      lanes == LaneEdges(s)
      Closes(K, e) == e[1] \in After(analyzed \cup {g \in K : Sooner(s, g, e)}, e[2])
  IN analyzed \cup CHOOSE K \in SUBSET lanes : \A e \in lanes : e \in K <=> ~Closes(K, e)

-----------------------------------------------------------------------------
(* delegate: create_subtask, wire_sibling_collision_dag and                *)
(* stamp_wave_sequence, in one transaction.                                *)

Edges(s) == {e \in (DOMAIN s) \X (DOMAIN s) : e[1] \in s[e[2]].dependency_ids}

\* No set of subtasks whose members each wait for a member.
Acyclic(G) == \A S \in SUBSET Ids : S # {} => \E t \in S : \A d \in S : <<d, t>> \notin G

Created(dev, surface, D) ==
  Append(siblings, [status |-> "pending", sequence |-> 0, assigned_to |-> dev, developer |-> Nobody,
                    surface |-> surface, dependency_ids |-> D,
                    completed_dependency_ids |-> {}])

\* Fault: only the new subtask's own edges are written.
WiredForNew(s) == Edges(s) \cup {e \in ExtendAcyclic(s) : e[2] = Len(s)}

Wired(s) == Edges(s) \cup ExtendAcyclic(s)

IsWave(s, D, n) == IF D = {} THEN n = 0
                   ELSE (\E d \in D : n = s[d].sequence + 1) /\ \A d \in D : s[d].sequence < n

\* add_dependency refuses the edge that closes a cycle, and the ConflictError
\* takes the whole delegate back.
Delegate(dev, surface, D) ==
  LET s == Created(dev, surface, D)
      G == Wired(s)
      deps(u) == {d \in DOMAIN s : <<d, u>> \in G}
  IN /\ Len(siblings) < MaxSiblings
     /\ Acyclic(G)
     /\ \E n \in 0..MaxSiblings :
          /\ IsWave(s, deps(Len(s)), n)
          /\ siblings' = [u \in DOMAIN s |->
               [s[u] EXCEPT !.dependency_ids = deps(u),
                            !.sequence = IF u = Len(s) THEN n ELSE @]]
     /\ upfront' = (upfront /\ \A u \in Sib : siblings[u].status \in {"pending", "cancelled"})

-----------------------------------------------------------------------------
(* The bars of a claim, and the life of a claimed subtask.                 *)

Unmet(t) == {d \in siblings[t].dependency_ids : Open(d)}

Known(t) == siblings[t].dependency_ids \cup siblings[t].completed_dependency_ids
KnownEdges == {e \in Sib \X Sib : e[1] \in Known(e[2])}

SequenceHeld(t) ==
  LET candidates == {c \in Sib : Open(c) /\ siblings[c].sequence < siblings[t].sequence}
  IN IF Known(t) = {} THEN candidates # {}
     ELSE \E c \in candidates : t \in After(KnownEdges, c)

LaneHeld(t) == \E u \in Sib : SameLane(siblings, u, t) /\ Open(u) /\ Before(siblings, u, t)

\* A blocked subtask counts as well: its unblock goes back to work.
AlreadyActive(dev, t) == \E u \in Sib \ {t} : /\ siblings[u].assigned_to = dev
                                              /\ siblings[u].status \in {"in_progress", "blocked"}

\* Fault: the claim looks at the wave and the lane only.
ClaimableByWave(dev, t) ==
  /\ siblings[t].status \in {"pending", "needs_revision"}
  /\ siblings[t].assigned_to \in {dev, Nobody}
  /\ ~AlreadyActive(dev, t) /\ ~SequenceHeld(t) /\ ~LaneHeld(t)

Claimable(dev, t) ==
  /\ siblings[t].status \in {"pending", "needs_revision"}
  /\ siblings[t].assigned_to \in {dev, Nobody}
  /\ ~AlreadyActive(dev, t) /\ Unmet(t) = {} /\ ~SequenceHeld(t) /\ ~LaneHeld(t)

Move(t, from, to, owner) ==
  /\ siblings[t].status \in from
  /\ siblings' = [siblings EXCEPT ![t].status = to, ![t].assigned_to = owner,
                                  ![t].developer = IF to # "in_review" THEN Nobody
                                                   ELSE IF @ = Nobody THEN siblings[t].assigned_to
                                                   ELSE @]
  /\ UNCHANGED upfront

Keep(t, from, to) == Move(t, from, to, siblings[t].assigned_to)

Claim(dev, t) == Claimable(dev, t) /\ Move(t, Statuses, "in_progress", dev)

\* The PM hands work under way to another developer.
Reassign(dev, t) == Move(t, {"in_progress"}, "in_progress", dev)
\* The developer gives it up, claimed or not.
Unclaim(t) == Move(t, Statuses \ (Terminal \cup {"in_review"}), "pending", Nobody)
\* Fault: the reaper takes the work back and leaves the claim.
ReapToClaimed(t) == Keep(t, {"in_progress"}, "claimed")
\* The reaper takes it back and leaves it with its developer.
Reap(t) == Keep(t, {"in_progress"}, "pending")

Submit(t) == Move(t, {"in_progress"}, "in_review", Nobody)
HandOver(t, owner) == Move(t, {"in_review"}, "in_review", owner)
SendBack(t) == Move(t, {"in_review"}, "needs_revision", siblings[t].developer)

\* The readiness gate of a respawn.
AutoBlock(t) == Unmet(t) # {} /\ Keep(t, {"in_progress", "needs_revision"}, "blocked")

\* The PM's unblock.
Unblock(t) == Unmet(t) = {} /\ Keep(t, {"blocked"}, "in_progress")

\* _unblock_dependents prunes the finished subtask and revives whom it was the
\* last dependency of.
Pruned(row, t) ==
  [row EXCEPT !.dependency_ids = @ \ {t},
              !.completed_dependency_ids = @ \cup {t},
              !.status = IF @ = "blocked" /\ row.dependency_ids = {t} THEN "in_progress" ELSE @]

Finish(t, to) ==
  /\ siblings' = [u \in Sib |->
       IF u = t THEN [siblings[u] EXCEPT !.status = to, !.developer = Nobody]
       ELSE IF t \in siblings[u].dependency_ids THEN Pruned(siblings[u], t) ELSE siblings[u]]
  /\ UNCHANGED upfront

Complete(t) == siblings[t].status = "in_review" /\ Finish(t, "completed")
Cancel(t) == Open(t) /\ Finish(t, "cancelled")

Next == \/ \E dev \in Devs, surface \in Surfaces, D \in SUBSET Sib :
             Cardinality(D) <= MaxDependsOn /\ Delegate(dev, surface, D)
        \/ \E t \in Sib :
             \/ \E dev \in Devs : Claim(dev, t) \/ Reassign(dev, t)
             \/ \E owner \in Reviewers \cup {Nobody} : HandOver(t, owner)
             \/ Unclaim(t) \/ Reap(t) \/ Submit(t) \/ SendBack(t)
             \/ AutoBlock(t) \/ Unblock(t) \/ Complete(t) \/ Cancel(t)
Spec == Init /\ [][Next]_vars

-----------------------------------------------------------------------------
TypeOK == /\ siblings \in Seq(Row) /\ Len(siblings) <= MaxSiblings
          /\ upfront \in BOOLEAN

\* The analyzer never raises SequencingError on a parent's subtasks: the chain
\* of the migrations, the shared-last rule and the overlap rule agree, whatever
\* is shared, migrates and overlaps, and whatever the waves have become.
PlanIsAcyclic == Acyclic(Analyze(siblings))

\* "Cross-dev and cross-reroute" (wire_sibling_collision_dag): of two unfinished
\* subtasks whose files overlap, one waits for the other, through every wiring,
\* pruning, cancellation and revival.
OverlapsAreOrdered ==
  \A a, b \in Sib : a # b /\ Overlap(siblings, a, b) /\ Open(a) /\ Open(b)
                       => a \in Unmet(b) \/ b \in Unmet(a)

\* While the whole queue was delegated before work began, two subtasks whose
\* files overlap are never at work together: the later one starts on the
\* earlier one's merged result.
NeverTogether ==
  upfront => \A a, b \in Sib : a # b /\ Overlap(siblings, a, b)
                                 => ~({siblings[a].status, siblings[b].status} \subseteq AtWork)

\* "A PM delegates a full queue of code subtasks to each cell dev up front ...
\* so the dev works its queue one live task at a time, in order"
\* (_blocked_by_earlier_lane_sibling): while a subtask is unfinished, some
\* subtask can be claimed, is at work, or can be unblocked.
CanMove(t) == \/ \E dev \in Devs : Claimable(dev, t)
              \/ siblings[t].status \in AtWork
              \/ siblings[t].status = "blocked" /\ Unmet(t) = {}
QueuesMove == (\E t \in Sib : Open(t)) => \E t \in Sib : CanMove(t)
=============================================================================
