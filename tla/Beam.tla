-------------------------------- MODULE Beam --------------------------------
(***************************************************************************)
(* What a stack decoder expects of its container of hypotheses: of each    *)
(* equivalence class it holds at most limit hypotheses, the best of those  *)
(* that compete; of a state whose hypotheses are all of one class it holds *)
(* at most one, the best that was offered; and it hands them out best      *)
(* first.  SmtMultiStackRec is shown to implement this module.             *)
(*                                                                         *)
(* A hypothesis is a record [cls, state, score].  The same hypothesis can  *)
(* be held twice, as two nodes [id, hyp].                                  *)
(***************************************************************************)
EXTENDS Integers, FiniteSets

CONSTANTS
  Hyps,           \* the hypotheses that can be offered
  Ids             \* names for the nodes

VARIABLES
  limit,          \* nodes held of each class
  held,           \* the nodes
  best            \* the best score offered for each state

vars == <<limit, held, best>>

BeamInit == limit \in Nat /\ held = {} /\ best = [s \in {} |-> 0]

Unique(s) == \A g, h \in Hyps : g.state = s /\ h.state = s => g.cls = h.cls

\* At most limit members of cand, none of them worse than one left out.
IsCut(kept, cand) ==
  /\ kept \subseteq cand
  /\ IF Cardinality(cand) <= limit THEN kept = cand ELSE Cardinality(kept) = limit
  /\ \A k \in kept, d \in cand \ kept : d.hyp.score <= k.hyp.score

\* The class becomes rest, which has no place for h.
NoRoom(class, rest, h) ==
  /\ Cardinality(rest) >= limit
  /\ \A n \in rest : n.hyp.score >= h.score
  /\ held' = (held \ class) \cup rest

\* The class becomes the best of rest and h.
Improves(class, rest, h) ==
  \E i \in Ids \ {n.id : n \in held} :
    LET cand == rest \cup {[id |-> i, hyp |-> h]} IN
    \E kept \in SUBSET cand : IsCut(kept, cand) /\ held' = (held \ class) \cup kept

Offer(h) ==
  LET class == {n \in held : n.hyp.cls = h.cls}
      same  == {n \in class : n.hyp.state = h.state}
  IN \/ /\ h.state \in DOMAIN best /\ best[h.state] > h.score
        /\ UNCHANGED vars
     \/ /\ h.state \in DOMAIN best => best[h.state] <= h.score
        /\ best' = [s \in DOMAIN best \cup {h.state} |->
                      IF s = h.state THEN h.score ELSE best[s]]
        /\ \E gone \in SUBSET same :
             /\ Unique(h.state) => gone = same
             /\ NoRoom(class, class \ gone, h) \/ Improves(class, class \ gone, h)
        /\ UNCHANGED limit

\* A node is taken that is best of all, or best of the first class.
Take ==
  /\ \E n \in held :
       /\ \/ \A m \in held : m.hyp.score <= n.hyp.score
          \/ \A m \in held : \/ n.hyp.cls < m.hyp.cls
                             \/ n.hyp.cls = m.hyp.cls /\ m.hyp.score <= n.hyp.score
       /\ held' = held \ {n}
  /\ UNCHANGED <<limit, best>>

Reset == held' = {} /\ best' = [s \in {} |-> 0] /\ UNCHANGED limit

SetLimit == limit' \in Nat /\ UNCHANGED <<held, best>>

BeamNext == (\E h \in Hyps : Offer(h)) \/ Take \/ Reset \/ SetLimit

BeamSpec == BeamInit /\ [][BeamNext]_vars
=============================================================================
