---------------------------- MODULE CancelGraph ----------------------------
(***************************************************************************)
(* The compressed ancestry of cancellation tokens (cancellation.rs and     *)
(* cancellation_graph*.rs).  A token that is dropped stays an entry until  *)
(* its batch is retired; it is then spliced out, or becomes a relay when   *)
(* splicing would multiply edges, and equivalent relays are merged.        *)
(*                                                                         *)
(* The domain lock serializes every operation.  One removal or one pass    *)
(* of normalize is a step, and no operation starts while removals or       *)
(* normalization are due.  A signature is the set it represents, a         *)
(* ParentSet or an IdSet the set of its members.                           *)
(***************************************************************************)
EXTENDS Naturals, Sequences, FiniteSets, FiniteSetsExt

CONSTANTS
  MaxIds,          \* bound on the identities handed out
  MaxCancels,      \* bound on the tokens cancelled
  RetirementBatch, \* RETIREMENT_BATCH
  Seeds            \* initial ancestries: the parents of each token, in order

Ids == 0..(MaxIds - 1)

\* A seed's tokens have parents among the tokens before them.
CancelGraphAssumption ==
  /\ MaxIds \in Nat
  /\ RetirementBatch \in Nat \ {0}
  /\ \A s \in Seeds : /\ s \in Seq(SUBSET Ids) /\ Len(s) <= MaxIds
                      /\ \A i \in 1..Len(s) : \A p \in s[i] : p + 1 < i

VARIABLES
  next,            \* graph.next
  graph,           \* nodes, relays, cancelled, parents, children, signature
  live,            \* tokens with a handle
  retired,         \* Domain.retired
  due,             \* retired tokens still to remove
  known, dirty,    \* the pending work of normalize
  ancestors,       \* the ancestry every token was given, for the properties
  requested        \* the tokens that were cancelled, for the properties

vars == <<next, graph, live, retired, due, known, dirty, ancestors, requested>>

\* A token with these parents, in a graph of tokens only.
Inherited(parents, anc) == parents \cup UNION {anc[p] : p \in parents}

Seeded(s, i) == [parents |-> s[i + 1], children |-> {j \in 0..(Len(s) - 1) : i \in s[j + 1]}]

Ancestry(s) ==
  LET A[i \in 0..(Len(s) - 1)] == s[i + 1] \cup UNION {A[p] : p \in s[i + 1]}
  IN [i \in Ids |-> IF i < Len(s) THEN A[i] ELSE {}]

Init ==
  \E s \in Seeds :
    LET used == 0..(Len(s) - 1) IN
    /\ next = Len(s) /\ live = used /\ ancestors = Ancestry(s)
    /\ graph = [nodes |-> used, relays |-> {}, cancelled |-> {},
                parents |-> [i \in Ids |-> IF i \in used THEN Seeded(s, i).parents ELSE {}],
                children |-> [i \in Ids |-> IF i \in used THEN Seeded(s, i).children ELSE {}],
                signature |-> [i \in Ids |-> {i}]]
    /\ retired = <<>> /\ due = <<>> /\ known = {} /\ dirty = {} /\ requested = {}

Unlocked == due = <<>> /\ known = {} /\ dirty = {}

-----------------------------------------------------------------------------
(* Tokens *)

\* child_token and child_for_scope: the new token is cancelled when a parent is.
insert(parents) ==
  /\ Unlocked /\ next \in Ids
  /\ next' = next + 1 /\ live' = live \cup {next}
  /\ graph' = [graph EXCEPT
       !.nodes = @ \cup {next},
       !.parents[next] = parents,
       !.children = [i \in Ids |-> IF i \in parents THEN @[i] \cup {next} ELSE @[i]],
       !.cancelled = IF parents \cap @ = {} THEN @ ELSE @ \cup {next}]
  /\ ancestors' = [ancestors EXCEPT ![next] = Inherited(parents, ancestors)]
  /\ UNCHANGED <<retired, due, known, dirty, requested>>

\* Mutant: the request stops at a relay.
Reached_tokens(g, id) ==
  LET R[i \in Ids] == i \notin g.cancelled \cup g.relays
                       /\ (i = id \/ \E p \in g.parents[i] : R[p])
  IN {i \in Ids : R[i]}

\* Everything below id that is reached through entries not yet cancelled.
\* A child always has a larger identity than its parents.
Reached(g, id) ==
  LET R[i \in Ids] == i \notin g.cancelled /\ (i = id \/ \E p \in g.parents[i] : R[p])
  IN {i \in Ids : R[i]}

\* Relays that changed are compared again.
cancel(id) ==
  LET hit == Reached(graph, id) IN
  /\ Unlocked /\ id \in live /\ Cardinality(requested) < MaxCancels
  /\ graph' = [graph EXCEPT !.cancelled = @ \cup hit]
  /\ known' = hit \cap graph.relays
  /\ requested' = requested \cup {id}
  /\ UNCHANGED <<next, live, retired, due, dirty, ancestors>>

\* The last handle of a token is dropped: retired in batches.
drop_token(id) ==
  /\ Unlocked /\ id \in live
  /\ live' = live \ {id}
  /\ IF Len(retired) + 1 < RetirementBatch
     THEN retired' = Append(retired, id) /\ UNCHANGED due
     ELSE retired' = <<>> /\ due' = Append(retired, id)
  /\ UNCHANGED <<next, graph, known, dirty, ancestors, requested>>

-----------------------------------------------------------------------------
(* Removal *)

\* erase with splice: the parents of id become the parents of its children.
erase(g, id) ==
  [g EXCEPT !.nodes = @ \ {id}, !.relays = @ \ {id}, !.cancelled = @ \ {id},
            !.parents = [i \in Ids |-> IF i \in g.children[id] THEN (@[i] \ {id}) \cup g.parents[id]
                                                               ELSE IF i = id THEN {} ELSE @[i]],
            !.children = [i \in Ids |-> IF i \in g.parents[id] THEN (@[i] \ {id}) \cup g.children[id]
                                                               ELSE IF i = id THEN {} ELSE @[i]],
            !.signature[id] = {id}]

signature_for(g, parents) == UNION {g.signature[p] : p \in parents}

\* A relay keeps only what it inherits: it is cancelled when a parent is.
to_relay(g, id) ==
  [g EXCEPT !.relays = @ \cup {id}, !.signature[id] = signature_for(g, g.parents[id]),
            !.cancelled = IF g.parents[id] \cap @ = {} THEN @ \ {id} ELSE @ \cup {id}]

\* Graph::remove of the next retired token.  A leaf below tokens needs no
\* normalization.
remove ==
  LET id == Head(due)
      up == graph.parents[id]
      down == graph.children[id]
  IN /\ due # <<>> /\ known = {} /\ dirty = {}
     /\ due' = Tail(due)
     /\ \/ /\ down = {} /\ up \cap graph.relays = {}
           /\ graph' = erase(graph, id) /\ UNCHANGED <<known, dirty>>
        \/ /\ Cardinality(up) > 1 /\ Cardinality(down) > 1
           /\ graph' = to_relay(graph, id) /\ known' = {id} /\ dirty' = down
        \/ /\ ~(down = {} /\ up \cap graph.relays = {})
           /\ ~(Cardinality(up) > 1 /\ Cardinality(down) > 1)
           /\ graph' = erase(graph, id) /\ known' = up /\ dirty' = down
     /\ UNCHANGED <<next, live, retired, ancestors, requested>>

-----------------------------------------------------------------------------
(* Normalization: the least pending identity first *)

equivalent_relays(g, id) ==
  {r \in g.relays \ {id} : g.signature[r] = g.signature[id]
                           /\ (r \in g.cancelled <=> id \in g.cancelled)}

merge_relays(g, keep, gone) ==
  [g EXCEPT !.nodes = @ \ {gone}, !.relays = @ \ {gone}, !.cancelled = @ \ {gone},
            !.parents = [i \in Ids |-> IF i \in g.children[gone] THEN (@[i] \ {gone}) \cup {keep}
                                                                 ELSE IF i = gone THEN {} ELSE @[i]],
            !.children = [i \in Ids |-> IF i = keep THEN (@[i] \cup g.children[gone]) \ {gone}
                                        ELSE IF i = gone THEN {} ELSE @[i] \ {gone}],
            !.signature[gone] = {gone}]

\* Work enqueued dirty stays dirty; a first pass of the popped id is done.
Enqueue(id, moreKnown, moreDirty) ==
  /\ dirty' = (dirty \ {id}) \cup moreDirty
  /\ known' = ((known \ {id}) \cup moreKnown) \ dirty'

\* A dirty relay takes the signature of its parents, and tells its children
\* when that changed; a token's signature is itself.
refresh_signature(g, id) == [g EXCEPT !.signature[id] = signature_for(g, g.parents[id])]

normalize ==
  LET id == Min(known \cup dirty)
      wide == Cardinality(graph.parents[id]) > 1 /\ Cardinality(graph.children[id]) > 1
      fresh == IF id \in dirty THEN refresh_signature(graph, id) ELSE graph
      below == IF fresh.signature[id] = graph.signature[id] THEN {} ELSE graph.children[id]
      same == equivalent_relays(fresh, id)
      other == Min(same)
      keep == Min({id, other})
      gone == Max({id, other})
  IN /\ known \cup dirty # {}
     /\ \/ id \notin graph.relays /\ graph' = graph /\ Enqueue(id, {}, {})
        \/ /\ id \in graph.relays /\ ~wide /\ graph' = erase(graph, id)
           /\ IF id \in dirty THEN Enqueue(id, graph.parents[id], graph.children[id])
                              ELSE Enqueue(id, graph.parents[id] \cup graph.children[id], {})
        \/ /\ id \in graph.relays /\ wide /\ same = {}
           /\ graph' = fresh /\ Enqueue(id, {}, below)
        \/ /\ id \in graph.relays /\ wide /\ same # {}
           /\ graph' = merge_relays(fresh, keep, gone)
           /\ Enqueue(id, graph.parents[gone] \cup graph.children[gone] \cup {keep}, below)
     /\ UNCHANGED <<next, live, retired, due, ancestors, requested>>

-----------------------------------------------------------------------------
Next ==
  \/ \E p \in live : insert({p})
  \/ \E p, q \in live : p # q /\ insert({p, q})
  \/ \E id \in live : cancel(id) \/ drop_token(id)
  \/ remove \/ normalize
Spec == Init /\ [][Next]_vars

-----------------------------------------------------------------------------
(* Properties *)

\* cancellation.rs:176: a token is cancelled exactly when it or one of its
\* ancestors, dropped or not, was.
CancelExact ==
  Unlocked => \A t \in live : t \in graph.cancelled <=> (ancestors[t] \cup {t}) \cap requested # {}
=============================================================================
