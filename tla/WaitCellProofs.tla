--------------------------- MODULE WaitCellProofs ---------------------------
(***************************************************************************)
(* WaitCell, for every set of cells, tasks, carriers and selectors: types, *)
(* the exclusive ownership of a claimed or binding word, the permit bit    *)
(* that a claim borrows and gives back, and the wake of a wait that was    *)
(* won.                                                                    *)
(***************************************************************************)
EXTENDS WaitCell, TLAPS

-----------------------------------------------------------------------------
(* Operations on words keep words. *)

\* The word operations of wait_state.rs map words to words.
LEMMA WordOps ==
  ASSUME NEW w \in Word
  PROVE  /\ initial \in Word
         /\ \A cause \in Causes : claimed(w, cause) \in Word
         /\ publish_claim(w) \in Word
         /\ retire(w) \in Word
         /\ \A p \in BOOLEAN : with_permit(w, p) \in Word
         /\ publish_observed_claim(w) \in Word
         /\ [w EXCEPT !.resource = "none"] \in Word
         /\ [w EXCEPT !.permit = FALSE, !.resource = "none"] \in Word
         /\ [w EXCEPT !.closed = FALSE] \in Word
         /\ [w EXCEPT !.closed = TRUE, !.permit = FALSE] \in Word
         /\ \A r \in Resources : resource_offer(w, r) \in Word
<1>. USE WaitCellAssumption
<1>1. initial \in Word
  BY DEF initial, Word, Phases, Causes, Resources
<1>2. \A cause \in Causes : claimed(w, cause) \in Word
  BY DEF claimed, Word, Phases, Causes
<1>3. publish_claim(w) \in Word /\ retire(w) \in Word
  BY DEF publish_claim, retire, Word, Phases
<1>4. \A p \in BOOLEAN : with_permit(w, p) \in Word
  BY DEF with_permit, Word
<1>5. publish_observed_claim(w) \in Word
  BY DEF publish_observed_claim, publish_claim, with_permit, Word, Phases
<1>6. /\ [w EXCEPT !.resource = "none"] \in Word
      /\ [w EXCEPT !.permit = FALSE, !.resource = "none"] \in Word
      /\ [w EXCEPT !.closed = FALSE] \in Word
      /\ [w EXCEPT !.closed = TRUE, !.permit = FALSE] \in Word
  BY DEF Word
<1>7. \A r \in Resources : resource_offer(w, r) \in Word
  BY DEF resource_offer, claimed, Word, Phases, Causes, Resources
<1>. QED
  BY <1>1, <1>2, <1>3, <1>4, <1>5, <1>6, <1>7

\* Activation and binding advance the generation within its bound.
LEMMA WordAdvance ==
  ASSUME NEW w \in Word, next_generation(w)
  PROVE  /\ \A hub \in {"primary", "fallback"} : activated(w, hub) \in Word
         /\ binding(w) \in Word
         /\ w.gen + 1 \in 0..MaxGeneration
<1>1. MaxGeneration \in Nat /\ w.gen \in 0..MaxGeneration /\ w.gen < MaxGeneration
  BY WaitCellAssumption DEF WaitCellAssumption, next_generation, Word
<1>2. w.gen + 1 \in 0..MaxGeneration
  BY <1>1
<1>3. \A hub \in {"primary", "fallback"} : activated(w, hub) \in Word
  BY <1>2 DEF activated, Word, Phases
<1>4. binding(w) \in Word
  BY <1>2 DEF binding, Word, Phases
<1>. QED
  BY <1>2, <1>3, <1>4

\* What the word operations do to the fields the protocol decides on.
LEMMA WordFields ==
  ASSUME NEW w \in Word
  PROVE  /\ initial.phase = "Idle"
         /\ \A cause : /\ claimed(w, cause).phase = "Claim"
                       /\ claimed(w, cause).cause = cause
                       /\ claimed(w, cause).gen = w.gen
                       /\ claimed(w, cause).permit = w.permit
                       /\ claimed(w, cause).hub = w.hub
         /\ publish_claim(w).phase = "Selected"
         /\ publish_claim(w).gen = w.gen
         /\ publish_claim(w).hub = w.hub
         /\ publish_observed_claim(w).phase = "Selected"
         /\ publish_observed_claim(w).gen = w.gen
         /\ publish_observed_claim(w).hub = w.hub
         /\ retire(w).phase = "Idle"
         /\ retire(w).gen = w.gen
         /\ \A p : /\ with_permit(w, p).phase = w.phase
                   /\ with_permit(w, p).gen = w.gen
                   /\ with_permit(w, p).cause = w.cause
                   /\ with_permit(w, p).hub = w.hub
                   /\ with_permit(w, p).permit = p
                   /\ \A q : with_permit(with_permit(w, q), p) = with_permit(w, p)
         /\ with_permit(w, w.permit) = w
         /\ \A hub : /\ activated(w, hub).phase = "Active"
                    /\ activated(w, hub).gen = w.gen + 1
                    /\ activated(w, hub).permit = w.permit
                    /\ activated(w, hub).hub = hub
         /\ binding(w).phase = "Binding"
         /\ binding(w).gen = w.gen + 1
         /\ w.gen \in Nat
<1>1. initial.phase = "Idle"
  BY DEF initial
<1>2. \A cause : /\ claimed(w, cause).phase = "Claim"
                 /\ claimed(w, cause).cause = cause
                 /\ claimed(w, cause).gen = w.gen
                 /\ claimed(w, cause).permit = w.permit
                 /\ claimed(w, cause).hub = w.hub
  BY DEF claimed, Word
<1>3. /\ publish_claim(w).phase = "Selected"
      /\ publish_claim(w).gen = w.gen
      /\ publish_claim(w).hub = w.hub
      /\ publish_observed_claim(w).phase = "Selected"
      /\ publish_observed_claim(w).gen = w.gen
      /\ publish_observed_claim(w).hub = w.hub
  BY DEF publish_claim, publish_observed_claim, with_permit, Word
<1>4. retire(w).phase = "Idle" /\ retire(w).gen = w.gen
  BY DEF retire, Word
<1>5. \A p : /\ with_permit(w, p).phase = w.phase
             /\ with_permit(w, p).gen = w.gen
             /\ with_permit(w, p).cause = w.cause
             /\ with_permit(w, p).hub = w.hub
             /\ with_permit(w, p).permit = p
             /\ \A q : with_permit(with_permit(w, q), p) = with_permit(w, p)
  BY DEF with_permit, Word
<1>6. with_permit(w, w.permit) = w
  BY DEF with_permit, Word
<1>7. \A hub : /\ activated(w, hub).phase = "Active"
              /\ activated(w, hub).gen = w.gen + 1
              /\ activated(w, hub).permit = w.permit
              /\ activated(w, hub).hub = hub
  BY DEF activated, Word
<1>8. binding(w).phase = "Binding" /\ binding(w).gen = w.gen + 1
  BY DEF binding, Word
<1>9. w.gen \in Nat
  BY WaitCellAssumption DEF WaitCellAssumption, Word
<1>. QED
  BY <1>1, <1>2, <1>3, <1>4, <1>5, <1>6, <1>7, <1>8, <1>9

\* Setting and clearing the permit bit, which a claim lends to its owner.
LEMMA PermitFields ==
  ASSUME NEW w \in Word
  PROVE  /\ with_permit(w, TRUE).phase = w.phase
         /\ with_permit(w, TRUE).gen = w.gen
         /\ with_permit(w, TRUE).hub = w.hub
         /\ with_permit(w, TRUE).cause = w.cause
         /\ with_permit(w, TRUE) \in Word
         /\ with_permit(with_permit(w, TRUE), FALSE) = with_permit(w, FALSE)
         /\ with_permit(w, FALSE).phase = w.phase
         /\ with_permit(w, FALSE).gen = w.gen
         /\ with_permit(w, FALSE).hub = w.hub
         /\ with_permit(w, FALSE).cause = w.cause
         /\ with_permit(w, FALSE) \in Word
         /\ w.permit => with_permit(w, TRUE) = w
         /\ ~w.permit => with_permit(w, FALSE) = w
<1>1. w.permit \in BOOLEAN
  BY DEF Word
<1>2. w.permit => with_permit(w, TRUE) = w
  BY <1>1 DEF with_permit, Word
<1>3. ~w.permit => with_permit(w, FALSE) = w
  BY <1>1 DEF with_permit, Word
<1>. QED
  BY <1>2, <1>3 DEF with_permit, Word

\* Claiming a word without a permit.
LEMMA ClaimedFields ==
  ASSUME NEW w \in Word, NEW cause \in Causes, ~w.permit
  PROVE  /\ claimed(w, cause) \in Word
         /\ claimed(w, cause).phase = "Claim"
         /\ claimed(w, cause).cause = cause
         /\ claimed(w, cause).gen = w.gen
         /\ claimed(w, cause).hub = w.hub
         /\ ~claimed(w, cause).permit
BY DEF claimed, Word, Phases

\* Offering a resource to a word without a permit.
LEMMA OfferFields ==
  ASSUME NEW w \in Word, NEW r \in Resources, ~w.permit
  PROVE  /\ resource_offer(w, r) \in Word
         /\ resource_offer(w, r).gen = w.gen
         /\ resource_offer(w, r).hub = w.hub
         /\ w.phase = "Active" => /\ resource_offer(w, r).phase = "Claim"
                                  /\ resource_offer(w, r).cause = "Ready"
                                  /\ ~resource_offer(w, r).permit
         /\ w.phase # "Active" => resource_offer(w, r).phase = w.phase
<1>1. CASE w.phase = "Active"
  BY <1>1 DEF resource_offer, claimed, Word, Phases, Causes, Resources
<1>2. CASE w.phase # "Active"
  BY <1>2 DEF resource_offer, Word, Resources
<1>. QED
  BY <1>1, <1>2

-----------------------------------------------------------------------------
(* Frames: what keeps the parts of the invariant. *)

\* Claims stay with their publishers when only owner interest touches them.
LEMMA ClaimFrame ==
  ASSUME Inv, UNCHANGED <<spc, scell, sclaim>>,
         \A d \in Cells :
           /\ word[d].phase = "Claim" =>
                word'[d] = word[d] \/ word'[d] = with_permit(word[d], TRUE)
           /\ word'[d].phase = "Claim" => word[d].phase = "Claim"
  PROVE  ClaimExclusive'
<1>1. \A s \in Selectors : Publishing(s)' <=> Publishing(s)
  BY DEF Publishing
<1>2. ASSUME NEW c \in Cells, word'[c].phase = "Claim"
      PROVE  \E s \in Selectors : Publishing(s)' /\ scell'[s] = c
  BY <1>1, <1>2 DEF Inv, ClaimExclusive
<1>3. ASSUME NEW s \in Selectors, Publishing(s)'
      PROVE  LET w == word'[scell[s]] IN
             /\ w.phase = "Claim"
             /\ spc[s] = "observed" => w = sclaim[s] /\ w.permit
             /\ spc[s] # "observed" => with_permit(w, FALSE) = sclaim[s]
  <2>. DEFINE c == scell[s]
  <2>1. /\ c \in Cells /\ word[c] \in Word
        /\ word[c].phase = "Claim"
        /\ spc[s] = "observed" => word[c] = sclaim[s] /\ word[c].permit
        /\ spc[s] # "observed" => with_permit(word[c], FALSE) = sclaim[s]
    BY <1>1, <1>3, ZenonT(60) DEF Inv, TypeOK, ClaimExclusive, SelectorShape
  <2>2. word[c].permit => with_permit(word[c], TRUE) = word[c]
    BY <2>1, PermitFields
  <2>4. CASE word'[c] = word[c]
    BY <2>1, <2>4
  <2>5. CASE word'[c] = with_permit(word[c], TRUE)
    <3>1. /\ with_permit(word[c], TRUE).phase = "Claim"
          /\ with_permit(with_permit(word[c], TRUE), FALSE) = with_permit(word[c], FALSE)
      BY <2>1, PermitFields
    <3>2. spc[s] = "observed" => with_permit(word[c], TRUE) = word[c]
      BY <2>1, <2>2
    <3>. QED
      BY <2>1, <2>5, <3>1, <3>2
  <2>. QED
    BY <2>1, <2>4, <2>5
<1>. QED
  BY <1>1, <1>2, <1>3 DEF Inv, ClaimExclusive

\* Steps of selectors and kernels: no target changes, no generation starts
\* or ends; a task stays where it is, with its carrier if it has it, or its
\* wait goes on and, if it is woken, its generation is selected.
LEMMA SelectorFrame ==
  ASSUME Inv,
         UNCHANGED <<tcell, tword, thub, tgen, boundTask, primaryHub, fallbackHub>>,
         \A t \in Tasks :
           \/ tpc'[t] = tpc[t] /\ ((busy'[HubOf[t]] = t) <=> (busy[HubOf[t]] = t))
           \/ /\ Waiting(t)
              /\ tpc'[t] \in {"parked", "resumed", "retire", "reparked"}
              /\ Woken(t)' => /\ word'[tcell[t]].gen = tgen[t]
                              /\ word'[tcell[t]].phase = "Selected",
         \A d \in Cells :
           /\ word'[d].gen = word[d].gen /\ word'[d].hub = word[d].hub
           /\ word[d].phase = "Idle" => word'[d].phase = "Idle"
           /\ word[d].phase = "Binding" => word'[d] = word[d]
           /\ word'[d].phase = "Binding" => word[d].phase = "Binding"
           /\ word'[d].phase = "Active" =>
                word[d].phase = "Active" /\ word'[d].permit = word[d].permit
           /\ word[d].phase = "Selected" => word'[d].phase = "Selected",
         word \in [Cells -> Word]
  PROVE  /\ CallShape' /\ ObservedWord' /\ ProbedTarget' /\ BindingExclusive'
         /\ OneBinder' /\ OwnedGeneration' /\ OwnedTarget' /\ WokenSelected'
<1>1. CallShape'
  BY DEF Inv, CallShape, Waiting
<1>2. ObservedWord'
  BY DEF Inv, ObservedWord, CallShape
<1>3. ProbedTarget'
  BY DEF Inv, ProbedTarget, CallShape, Targets
<1>4. BindingExclusive'
  <2>. SUFFICES ASSUME NEW t \in Tasks, tpc[t] \in {"binding", "bound"}
                PROVE  word'[tcell[t]] = binding(tword[t])
    BY DEF BindingExclusive, Waiting
  <2>1. tcell[t] \in Cells /\ word[tcell[t]] = binding(tword[t]) /\ tword[t] \in Word
    BY DEF Inv, TypeOK, CallShape, BindingExclusive
  <2>2. word[tcell[t]].phase = "Binding"
    BY <2>1, WordFields
  <2>. QED
    BY <2>1, <2>2
<1>5. OneBinder'
  BY DEF Inv, OneBinder
<1>6. OwnedGeneration'
  BY DEF Inv, OwnedGeneration, CallShape, Waiting
<1>7. OwnedTarget'
  <2>1. \A t \in Tasks, d \in Cells : Owns(t, d)' <=> Owns(t, d)
    BY DEF Owns, Waiting
  <2>2. ASSUME NEW d \in Cells, word'[d].phase \in {"Active", "Claim", "Selected"}
        PROVE  word[d].phase \in {"Active", "Claim", "Selected"}
    BY <2>2 DEF Word, Phases
  <2>3. \A d \in Cells : target_hub(d, word[d])' = target_hub(d, word[d])
    BY DEF target_hub
  <2>. QED
    BY <2>1, <2>2, <2>3 DEF Inv, OwnedTarget
<1>8. WokenSelected'
  BY DEF Inv, WokenSelected, Woken, CallShape
<1>. QED
  BY <1>1, <1>2, <1>3, <1>4, <1>5, <1>6, <1>7, <1>8

\* Only the kernel's queues and signals change.
LEMMA QuietInv ==
  ASSUME Inv, TypeOK', UNCHANGED <<cellVars, taskVars, selVars, busy>>
  PROVE  Inv'
<1>. USE DEF cellVars, taskVars, selVars
<1>1. \A d \in Cells : word'[d] = word[d]
  OBVIOUS
<1>2. SelectorShape'
  BY DEF Inv, SelectorShape, Publishing
<1>3. ClaimExclusive'
  BY <1>1, ClaimFrame
<1>4. /\ CallShape' /\ ObservedWord' /\ ProbedTarget' /\ BindingExclusive'
      /\ OneBinder' /\ OwnedGeneration' /\ OwnedTarget' /\ WokenSelected'
  <2>1. word \in [Cells -> Word]
    BY DEF Inv, TypeOK
  <2>. QED
    BY <1>1, <2>1, SelectorFrame
<1>. QED
  BY <1>2, <1>3, <1>4 DEF Inv

\* The task's park call is over.
Left(t) == tpc[t] \in {"out", "gone"}

\* Steps that end waits: a word changes by owner interest in a claim, within
\* an idle phase, or by the retirement of a generation whose owner leaves or
\* was not woken; a task that leaves owns no generation any more.
LEMMA RetireFrame ==
  ASSUME Inv, TypeOK',
         UNCHANGED <<boundTask, primaryHub, fallbackHub, selVars>>,
         \A s \in Selectors : CarrierOf[s] # Outside =>
           ((busy[CarrierOf[s]] = s) => (busy'[CarrierOf[s]] = s)),
         \A t \in Tasks : ~Left(t)' =>
           /\ tpc'[t] = tpc[t] /\ tcell'[t] = tcell[t] /\ tword'[t] = tword[t]
           /\ thub'[t] = thub[t] /\ tgen'[t] = tgen[t]
           /\ (busy'[HubOf[t]] = t) <=> (busy[HubOf[t]] = t),
         \A d \in Cells :
           \/ word'[d] = word[d]
           \/ word[d].phase = "Claim" /\ word'[d] = with_permit(word[d], TRUE)
           \/ /\ word'[d].gen = word[d].gen /\ word'[d].phase = "Idle"
              /\ \/ word[d].phase = "Idle"
                 \/ /\ word[d].phase \in {"Active", "Selected"}
                    /\ \E t \in Tasks : Owns(t, d) /\ (Left(t)' \/ ~Woken(t)),
         \A t \in Tasks : Left(t)' =>
           \A d \in Cells : Owns(t, d) => word'[d].phase = "Idle"
  PROVE  Inv'
<1>1. \A d \in Cells : /\ word[d] \in Word /\ word'[d] \in Word
                       /\ word[d].gen \in Nat
                       /\ word'[d].gen = word[d].gen
                       /\ word[d].phase = "Idle" => word'[d].phase = "Idle"
                       /\ word[d].phase = "Binding" => word'[d] = word[d]
                       /\ word'[d].phase # "Idle" =>
                            /\ word'[d].phase = word[d].phase
                            /\ word'[d].hub = word[d].hub
                            /\ word[d].phase # "Claim" => word'[d] = word[d]
  <2>1. \A d \in Cells : word[d] \in Word /\ word'[d] \in Word
    BY DEF Inv, TypeOK
  <2>. SUFFICES ASSUME NEW d \in Cells
                PROVE  /\ word[d].gen \in Nat
                       /\ word'[d].gen = word[d].gen
                       /\ word[d].phase = "Idle" => word'[d].phase = "Idle"
                       /\ word[d].phase = "Binding" => word'[d] = word[d]
                       /\ word'[d].phase # "Idle" =>
                            /\ word'[d].phase = word[d].phase
                            /\ word'[d].hub = word[d].hub
                            /\ word[d].phase # "Claim" => word'[d] = word[d]
    BY <2>1
  <2>2. /\ word[d].gen \in Nat
        /\ with_permit(word[d], TRUE).phase = word[d].phase
        /\ with_permit(word[d], TRUE).gen = word[d].gen
        /\ with_permit(word[d], TRUE).hub = word[d].hub
    BY <2>1, WordFields, PermitFields
  <2>. QED
    BY <2>2
<1>2. CallShape'
  BY DEF Inv, CallShape, Left
<1>3. ObservedWord'
  BY <1>1 DEF Inv, ObservedWord, CallShape, Left
<1>4. ProbedTarget'
  BY <1>1 DEF Inv, ProbedTarget, CallShape, Targets, Left
<1>5. BindingExclusive'
  <2>. SUFFICES ASSUME NEW t \in Tasks, tpc'[t] \in {"binding", "bound"}
                PROVE  word'[tcell'[t]] = binding(tword'[t])
    BY DEF BindingExclusive
  <2>1. /\ tcell'[t] = tcell[t] /\ tword'[t] = tword[t]
        /\ tcell[t] \in Cells /\ word[tcell[t]] = binding(tword[t]) /\ tword[t] \in Word
    BY DEF Inv, TypeOK, CallShape, BindingExclusive, Left
  <2>2. word[tcell[t]].phase = "Binding"
    BY <2>1, WordFields
  <2>. QED
    BY <1>1, <2>1, <2>2
<1>6. OneBinder'
  BY DEF Inv, OneBinder, Left
<1>7. OwnedGeneration'
  BY <1>1 DEF Inv, OwnedGeneration, CallShape, Waiting, Left
<1>8. OwnedTarget'
  <2>. SUFFICES ASSUME NEW d \in Cells, word'[d].phase \in {"Active", "Claim", "Selected"}
                PROVE  /\ boundTask[d] \in Tasks
                       /\ Owns(boundTask[d], d)'
                       /\ target_hub(d, word[d])' = HubOf[boundTask[d]]
                       /\ word'[d].phase = "Active" => ~word'[d].permit
    BY DEF OwnedTarget
  <2>1. /\ word[d].phase \in {"Active", "Claim", "Selected"}
        /\ word'[d].hub = word[d].hub
        /\ word'[d].phase = "Active" => word'[d] = word[d]
    BY <1>1
  <2>2. /\ boundTask[d] \in Tasks /\ Owns(boundTask[d], d)
        /\ target_hub(d, word[d]) = HubOf[boundTask[d]]
        /\ word[d].phase = "Active" => ~word[d].permit
    BY <2>1 DEF Inv, OwnedTarget
  <2>3. ~Left(boundTask[d])'
    BY <2>2
  <2>4. Owns(boundTask[d], d)'
    BY <1>1, <2>2, <2>3 DEF Owns, Waiting
  <2>5. target_hub(d, word[d])' = HubOf[boundTask[d]]
    BY <2>1, <2>2 DEF target_hub
  <2>. QED
    BY <2>1, <2>2, <2>4, <2>5
<1>9. WokenSelected'
  <2>. SUFFICES ASSUME NEW t \in Tasks, Woken(t)'
                PROVE  word'[tcell'[t]].gen = tgen'[t] /\ word'[tcell'[t]].phase = "Selected"
    BY DEF WokenSelected
  <2>1. /\ ~Left(t)' /\ Woken(t) /\ tcell'[t] = tcell[t] /\ tgen'[t] = tgen[t]
    BY DEF Woken, Left
  <2>2. /\ word[tcell[t]].gen = tgen[t] /\ word[tcell[t]].phase = "Selected"
        /\ tcell[t] \in Cells /\ Owns(t, tcell[t])
    BY <2>1 DEF Inv, WokenSelected, CallShape, Woken, Owns, Waiting
  <2>3. \A u \in Tasks : Owns(u, tcell[t]) => u = t
    BY <2>2 DEF Inv, OwnedGeneration, Owns
  <2>4. word'[tcell[t]].phase # "Idle"
    BY <2>1, <2>2, <2>3
  <2>. QED
    BY <1>1, <2>1, <2>2, <2>4
<1>10. SelectorShape'
  BY DEF Inv, SelectorShape, Publishing, selVars
<1>11. ClaimExclusive'
  <2>1. \A d \in Cells :
          /\ word[d].phase = "Claim" =>
               word'[d] = word[d] \/ word'[d] = with_permit(word[d], TRUE)
          /\ word'[d].phase = "Claim" => word[d].phase = "Claim"
    BY <1>1
  <2>. QED
    BY <2>1, ClaimFrame DEF selVars
<1>. QED
  BY <1>2, <1>3, <1>4, <1>5, <1>6, <1>7, <1>8, <1>9, <1>10, <1>11 DEF Inv

\* Ending park calls keeps the types of the task variables.
LEMMA LeaveType ==
  ASSUME TypeOK, NEW R, NEW pc \in TaskPcs, Leave(R, pc)
  PROVE  /\ tpc' \in [Tasks -> TaskPcs]
         /\ tcell' \in [Tasks -> Cells \cup {None}]
         /\ tword' \in [Tasks -> Word]
         /\ thub' \in [Tasks -> {"miss", "primary", "fallback"}]
         /\ tgen' \in [Tasks -> 0..MaxGeneration]
         /\ tcause' \in [Tasks -> Causes \cup {"none"}]
<1>1. /\ tpc' \in [Tasks -> TaskPcs]
      /\ tcell' \in [Tasks -> Cells \cup {None}]
      /\ thub' \in [Tasks -> {"miss", "primary", "fallback"}]
      /\ tcause' \in [Tasks -> Causes \cup {"none"}]
  BY DEF TypeOK, Leave
<1>2. tgen' \in [Tasks -> 0..MaxGeneration]
  BY WaitCellAssumption DEF TypeOK, Leave, WaitCellAssumption
<1>3. tword' \in [Tasks -> Word]
  <2>. SUFFICES ASSUME NEW t \in Tasks PROVE (IF t \in R THEN initial ELSE tword[t]) \in Word
    BY DEF Leave
  <2>1. tword[t] \in Word
    BY DEF TypeOK
  <2>. QED
    BY <2>1, WordOps
<1>. QED
  BY <1>1, <1>2, <1>3

-----------------------------------------------------------------------------
(* One lemma per action. *)

\* The exchange that activates a generation on a cached target.
LEMMA BeginActivateInv ==
  ASSUME Inv, NEW t \in Tasks, BeginActivate(t)
  PROVE  Inv'
<1>. DEFINE c == tcell[t]
<1>. USE WaitCellAssumption
<1>1. /\ c \in Cells /\ tword[t] \in Word /\ word[c] = tword[t]
      /\ next_generation(tword[t]) /\ Parkable(tword[t]) /\ ~tword[t].permit
      /\ Targets(t, c, thub[t])
  BY DEF Inv, TypeOK, CallShape, ProbedTarget, BeginActivate
<1>2. TypeOK'
  BY <1>1, WordAdvance DEF Inv, TypeOK, BeginActivate, selVars, kernelVars, TaskPcs
<1>3. CallShape'
  BY DEF Inv, TypeOK, CallShape, BeginActivate
<1>4. SelectorShape'
  BY DEF Inv, SelectorShape, BeginActivate, selVars, Publishing
<1>5. ObservedWord'
  BY <1>1, WordFields DEF Inv, TypeOK, ObservedWord, CallShape, BeginActivate, Parkable
<1>6. ProbedTarget'
  BY <1>1, WordFields DEF Inv, TypeOK, ProbedTarget, ObservedWord, CallShape, BeginActivate, Targets
<1>7. BindingExclusive'
  BY <1>1, WordFields DEF Inv, TypeOK, BindingExclusive, CallShape, BeginActivate, Parkable
<1>8. OneBinder'
  BY DEF Inv, TypeOK, OneBinder, BeginActivate
<1>9. OwnedGeneration'
  BY <1>1, WordFields DEF Inv, TypeOK, OwnedGeneration, CallShape, BeginActivate, Waiting, TaskPcs
<1>10. OwnedTarget'
  <2>1. Owns(t, c)' /\ target_hub(c, word[c])' = HubOf[t]
    BY <1>1, WordFields DEF Inv, TypeOK, BeginActivate, Owns, Waiting, Targets, target_hub
  <2>2. ASSUME NEW d \in Cells, d # c, Owns(boundTask[d], d), boundTask[d] \in Tasks
        PROVE  Owns(boundTask[d], d)'
    BY <1>1, <2>2 DEF Inv, TypeOK, BeginActivate, Owns, Waiting
  <2>. QED
    BY <1>1, <2>1, <2>2, WordFields DEF Inv, TypeOK, OwnedTarget, BeginActivate, Targets, target_hub
<1>11. ClaimExclusive'
  <2>1. word[c].phase # "Claim" /\ word'[c].phase # "Claim"
    BY <1>1, WordFields DEF Inv, TypeOK, BeginActivate, Parkable
  <2>2. \A d \in Cells : d # c => word'[d] = word[d]
    BY DEF Inv, TypeOK, BeginActivate
  <2>. QED
    BY <2>1, <2>2, ClaimFrame DEF BeginActivate, selVars
<1>12. WokenSelected'
  BY <1>1, WordFields DEF Inv, TypeOK, WokenSelected, CallShape, BeginActivate, Woken, Parkable
<1>. QED
  BY <1>2, <1>3, <1>4, <1>5, <1>6, <1>7, <1>8, <1>9, <1>10, <1>11, <1>12 DEF Inv

\* begin's first load of the word.
LEMMA BeginLoadInv ==
  ASSUME Inv, NEW t \in Tasks, NEW c \in Cells, BeginLoad(t, c)
  PROVE  Inv'
<1>. USE WaitCellAssumption
<1>2. TypeOK'
  BY WordOps, WordAdvance DEF Inv, TypeOK, BeginLoad, Mountable, Settled, KernelRuns, cellVars, selVars, kernelVars, TaskPcs
<1>3. CallShape'
  <2>1. ASSUME NEW u \in Tasks, u # t,
               tpc[u] \in {"begin", "probed", "binding", "bound", "registered"}
        PROVE  busy'[HubOf[u]] = u
    <3>1. busy[HubOf[u]] = u /\ busy[HubOf[t]] = Free /\ u # Free
      BY <2>1 DEF Inv, CallShape, BeginLoad, Mountable, Settled, KernelRuns, WaitCellAssumption
    <3>. QED
      BY <3>1 DEF BeginLoad, Inv, TypeOK
  <2>2. busy'[HubOf[t]] = t
    BY DEF BeginLoad, Inv, TypeOK, WaitCellAssumption
  <2>. QED
    BY <2>1, <2>2 DEF Inv, TypeOK, CallShape, BeginLoad
<1>4. SelectorShape'
  BY DEF Inv, SelectorShape, BeginLoad, Mountable, Settled, KernelRuns, selVars, Publishing, WaitCellAssumption
<1>5. ObservedWord'
  BY WordFields DEF Inv, TypeOK, ObservedWord, CallShape, BeginLoad, Mountable, Settled, KernelRuns, cellVars, Parkable
<1>6. ProbedTarget'
  BY WordFields DEF Inv, TypeOK, ProbedTarget, ObservedWord, CallShape, BeginLoad, Mountable, Settled, KernelRuns, cellVars, Targets
<1>7. BindingExclusive'
  BY WordFields DEF Inv, TypeOK, BindingExclusive, CallShape, BeginLoad, Mountable, Settled, KernelRuns, cellVars, Parkable
<1>8. OneBinder'
  BY WordFields DEF Inv, TypeOK, OneBinder, BindingExclusive, BeginLoad, Mountable, Settled, KernelRuns, Parkable
<1>9. OwnedGeneration'
  BY WordFields DEF Inv, TypeOK, OwnedGeneration, CallShape, BeginLoad, Mountable, Settled, KernelRuns, cellVars, Waiting, TaskPcs
<1>10. OwnedTarget'
  BY WordFields DEF Inv, TypeOK, OwnedTarget, OwnedGeneration, CallShape, BeginLoad, Mountable, Settled, KernelRuns, cellVars, Waiting, Owns, Targets, target_hub
<1>11. ClaimExclusive'
  BY ClaimFrame, WordFields DEF Inv, TypeOK, BeginLoad, Mountable, Settled, KernelRuns, cellVars, Parkable, selVars
<1>12. WokenSelected'
  BY WordFields DEF Inv, TypeOK, WokenSelected, CallShape, BeginLoad, Mountable, Settled, KernelRuns, cellVars, Woken, Parkable
<1>. QED
  BY <1>2, <1>3, <1>4, <1>5, <1>6, <1>7, <1>8, <1>9, <1>10, <1>11, <1>12 DEF Inv

\* begin returns without waiting.
LEMMA BeginReturnInv ==
  ASSUME Inv, NEW t \in Tasks, BeginReturn(t)
  PROVE  Inv'
<1>. USE WaitCellAssumption
<1>1. busy[HubOf[t]] = t /\ initial \in Word
  <2>1. tword[t] \in Word /\ busy[HubOf[t]] = t
    BY DEF Inv, TypeOK, CallShape, BeginReturn
  <2>. QED
    BY <2>1, WordOps
<1>2. TypeOK'
  <2>1. "out" \in TaskPcs /\ TypeOK
    BY DEF TaskPcs, Inv
  <2>. QED
    BY <2>1, LeaveType DEF TypeOK, BeginReturn, Return, Unmount, cellVars, selVars, kernelVars
<1>3. CallShape'
  BY <1>1, WordFields DEF Inv, TypeOK, CallShape, BeginReturn, Return, Leave, Unmount, cellVars, WaitCellAssumption
<1>4. SelectorShape'
  BY <1>1 DEF Inv, SelectorShape, BeginReturn, Return, Leave, Unmount, selVars, Publishing, WaitCellAssumption
<1>5. ObservedWord'
  BY <1>1, WordFields DEF Inv, TypeOK, ObservedWord, CallShape, BeginReturn, Return, Leave, Unmount, cellVars, Parkable
<1>6. ProbedTarget'
  BY <1>1, WordFields DEF Inv, TypeOK, ProbedTarget, ObservedWord, CallShape, BeginReturn, Return, Leave, Unmount, cellVars, Targets
<1>7. BindingExclusive'
  BY <1>1, WordFields DEF Inv, TypeOK, BindingExclusive, CallShape, BeginReturn, Return, Leave, Unmount, cellVars, Parkable
<1>8. OneBinder'
  BY <1>1, WordFields DEF Inv, TypeOK, OneBinder, BindingExclusive, BeginReturn, Return, Leave, Unmount, Parkable
<1>9. OwnedGeneration'
  BY <1>1, WordFields DEF Inv, TypeOK, OwnedGeneration, CallShape, BeginReturn, Return, Leave, Unmount, cellVars, Waiting, TaskPcs
<1>10. OwnedTarget'
  BY <1>1, WordFields DEF Inv, TypeOK, OwnedTarget, OwnedGeneration, CallShape, BeginReturn, Return, Leave, Unmount, cellVars, Waiting, Owns, Targets, target_hub
<1>11. ClaimExclusive'
  BY <1>1, ClaimFrame, WordFields DEF Inv, TypeOK, BeginReturn, Return, Leave, Unmount, cellVars, Parkable, selVars
<1>12. WokenSelected'
  BY <1>1, WordFields DEF Inv, TypeOK, WokenSelected, CallShape, BeginReturn, Return, Leave, Unmount, cellVars, Woken, Parkable
<1>. QED
  BY <1>2, <1>3, <1>4, <1>5, <1>6, <1>7, <1>8, <1>9, <1>10, <1>11, <1>12 DEF Inv

\* begin looks for a cached target.
LEMMA BeginProbeInv ==
  ASSUME Inv, NEW t \in Tasks, BeginProbe(t)
  PROVE  Inv'
<1>. USE WaitCellAssumption
<1>2. TypeOK'
  BY WordOps, WordAdvance DEF Inv, TypeOK, BeginProbe, cached_target, cellVars, selVars, kernelVars, TaskPcs
<1>3. CallShape'
  BY WordFields DEF Inv, TypeOK, CallShape, BeginProbe, cached_target, cellVars, WaitCellAssumption
<1>4. SelectorShape'
  BY DEF Inv, SelectorShape, BeginProbe, cached_target, selVars, Publishing, WaitCellAssumption
<1>5. ObservedWord'
  BY WordFields DEF Inv, TypeOK, ObservedWord, CallShape, BeginProbe, cached_target, cellVars, Parkable
<1>6. ProbedTarget'
  BY WordFields DEF Inv, TypeOK, ProbedTarget, ObservedWord, CallShape, BeginProbe, cached_target, cellVars, Targets
<1>7. BindingExclusive'
  BY WordFields DEF Inv, TypeOK, BindingExclusive, CallShape, BeginProbe, cached_target, cellVars, Parkable
<1>8. OneBinder'
  BY WordFields DEF Inv, TypeOK, OneBinder, BindingExclusive, BeginProbe, cached_target, Parkable
<1>9. OwnedGeneration'
  BY WordFields DEF Inv, TypeOK, OwnedGeneration, CallShape, BeginProbe, cached_target, cellVars, Waiting, TaskPcs
<1>10. OwnedTarget'
  BY WordFields DEF Inv, TypeOK, OwnedTarget, OwnedGeneration, CallShape, BeginProbe, cached_target, cellVars, Waiting, Owns, Targets, target_hub
<1>11. ClaimExclusive'
  BY ClaimFrame, WordFields DEF Inv, TypeOK, BeginProbe, cached_target, cellVars, Parkable, selVars
<1>12. WokenSelected'
  BY WordFields DEF Inv, TypeOK, WokenSelected, CallShape, BeginProbe, cached_target, cellVars, Woken, Parkable
<1>. QED
  BY <1>2, <1>3, <1>4, <1>5, <1>6, <1>7, <1>8, <1>9, <1>10, <1>11, <1>12 DEF Inv

\* The exchange that reserves a word for binding.
LEMMA BeginBindingInv ==
  ASSUME Inv, NEW t \in Tasks, BeginBinding(t)
  PROVE  Inv'
<1>. USE WaitCellAssumption
<1>. DEFINE c == tcell[t]
<1>1. /\ c \in Cells /\ tword[t] \in Word /\ word[c] = tword[t]
      /\ next_generation(tword[t]) /\ Parkable(tword[t]) /\ ~tword[t].permit
  BY DEF Inv, TypeOK, CallShape, BeginBinding
<1>2. TypeOK'
  BY <1>1, WordOps, WordAdvance DEF Inv, TypeOK, BeginBinding, cellVars, selVars, kernelVars, TaskPcs
<1>3. CallShape'
  BY <1>1, WordFields DEF Inv, TypeOK, CallShape, BeginBinding, cellVars, WaitCellAssumption
<1>4. SelectorShape'
  BY <1>1 DEF Inv, SelectorShape, BeginBinding, selVars, Publishing, WaitCellAssumption
<1>5. ObservedWord'
  BY <1>1, WordFields DEF Inv, TypeOK, ObservedWord, CallShape, BeginBinding, cellVars, Parkable
<1>6. ProbedTarget'
  BY <1>1, WordFields DEF Inv, TypeOK, ProbedTarget, ObservedWord, CallShape, BeginBinding, cellVars, Targets
<1>7. BindingExclusive'
  BY <1>1, WordFields DEF Inv, TypeOK, BindingExclusive, CallShape, BeginBinding, cellVars, Parkable
<1>8. OneBinder'
  BY <1>1, WordFields DEF Inv, TypeOK, OneBinder, BindingExclusive, BeginBinding, Parkable
<1>9. OwnedGeneration'
  BY <1>1, WordFields DEF Inv, TypeOK, OwnedGeneration, CallShape, BeginBinding, cellVars, Waiting, TaskPcs
<1>10. OwnedTarget'
  BY <1>1, WordFields DEF Inv, TypeOK, OwnedTarget, OwnedGeneration, CallShape, BeginBinding, cellVars, Waiting, Owns, Targets, target_hub
<1>11. ClaimExclusive'
  <2>1. word[c].phase # "Claim" /\ word'[c].phase # "Claim"
    BY <1>1, WordFields DEF Inv, TypeOK, BeginBinding, Parkable
  <2>2. \A d \in Cells : d # c => word'[d] = word[d]
    BY DEF Inv, TypeOK, BeginBinding
  <2>. QED
    BY <2>1, <2>2, ClaimFrame DEF BeginBinding, selVars
<1>12. WokenSelected'
  BY <1>1, WordFields DEF Inv, TypeOK, WokenSelected, CallShape, BeginBinding, cellVars, Woken, Parkable
<1>. QED
  BY <1>2, <1>3, <1>4, <1>5, <1>6, <1>7, <1>8, <1>9, <1>10, <1>11, <1>12 DEF Inv

\* A failed exchange makes begin decide again.
LEMMA BeginRetryInv ==
  ASSUME Inv, NEW t \in Tasks, BeginRetry(t)
  PROVE  Inv'
<1>. USE WaitCellAssumption
<1>1. tcell[t] \in Cells /\ word[tcell[t]] \in Word
  BY DEF Inv, TypeOK, CallShape, BeginRetry
<1>2. TypeOK'
  BY <1>1, WordOps, WordAdvance DEF Inv, TypeOK, BeginRetry, cellVars, selVars, kernelVars, TaskPcs
<1>3. CallShape'
  BY <1>1, WordFields DEF Inv, TypeOK, CallShape, BeginRetry, cellVars, WaitCellAssumption
<1>4. SelectorShape'
  BY <1>1 DEF Inv, SelectorShape, BeginRetry, selVars, Publishing, WaitCellAssumption
<1>5. ObservedWord'
  BY <1>1, WordFields DEF Inv, TypeOK, ObservedWord, CallShape, BeginRetry, cellVars, Parkable
<1>6. ProbedTarget'
  BY <1>1, WordFields DEF Inv, TypeOK, ProbedTarget, ObservedWord, CallShape, BeginRetry, cellVars, Targets
<1>7. BindingExclusive'
  BY <1>1, WordFields DEF Inv, TypeOK, BindingExclusive, CallShape, BeginRetry, cellVars, Parkable
<1>8. OneBinder'
  BY <1>1, WordFields DEF Inv, TypeOK, OneBinder, BindingExclusive, BeginRetry, Parkable
<1>9. OwnedGeneration'
  BY <1>1, WordFields DEF Inv, TypeOK, OwnedGeneration, CallShape, BeginRetry, cellVars, Waiting, TaskPcs
<1>10. OwnedTarget'
  BY <1>1, WordFields DEF Inv, TypeOK, OwnedTarget, OwnedGeneration, CallShape, BeginRetry, cellVars, Waiting, Owns, Targets, target_hub
<1>11. ClaimExclusive'
  BY <1>1, ClaimFrame, WordFields DEF Inv, TypeOK, BeginRetry, cellVars, Parkable, selVars
<1>12. WokenSelected'
  BY <1>1, WordFields DEF Inv, TypeOK, WokenSelected, CallShape, BeginRetry, cellVars, Woken, Parkable
<1>. QED
  BY <1>2, <1>3, <1>4, <1>5, <1>6, <1>7, <1>8, <1>9, <1>10, <1>11, <1>12 DEF Inv

\* The binding task writes the target.
LEMMA bind_targetInv ==
  ASSUME Inv, NEW t \in Tasks, bind_target(t)
  PROVE  Inv'
<1>. USE WaitCellAssumption
<1>. DEFINE c == tcell[t]
<1>1. /\ c \in Cells /\ tword[t] \in Word /\ word[c] = binding(tword[t])
      /\ HubOf[t] \in Hubs
  BY DEF Inv, TypeOK, CallShape, BindingExclusive, bind_target, WaitCellAssumption
<1>2. TypeOK'
  BY <1>1, WordOps, WordAdvance DEF Inv, TypeOK, bind_target, cellVars, selVars, kernelVars, TaskPcs
<1>3. CallShape'
  BY <1>1, WordFields DEF Inv, TypeOK, CallShape, bind_target, cellVars, WaitCellAssumption
<1>4. SelectorShape'
  BY <1>1 DEF Inv, SelectorShape, bind_target, selVars, Publishing, WaitCellAssumption
<1>5. ObservedWord'
  BY <1>1, WordFields DEF Inv, TypeOK, ObservedWord, CallShape, bind_target, cellVars, Parkable
<1>6. ProbedTarget'
  <2>1. word[c].phase = "Binding"
    BY <1>1, WordFields
  <2>2. ASSUME NEW u \in Tasks, u # t, tcell[u] = c
        PROVE  /\ tpc[u] # "bound"
               /\ ~(tpc[u] = "probed" /\ tword[u].gen = word[c].gen)
    BY <2>1, <2>2 DEF Inv, OneBinder, ObservedWord, CallShape, Parkable, bind_target
  <2>3. ASSUME NEW u \in Tasks, u # t
        PROVE  /\ (tpc[u] = "probed" /\ thub[u] # "miss" /\ tword[u].gen = word[tcell[u]].gen)'
                    => Targets(u, tcell[u], thub[u])'
               /\ (tpc[u] = "bound")' => Targets(u, tcell[u], thub[u])'
    BY <1>1, <2>2, <2>3 DEF Inv, TypeOK, ProbedTarget, CallShape, bind_target, Targets
  <2>4. Targets(t, c, thub[t])'
    BY <1>1 DEF Inv, TypeOK, bind_target, Targets
  <2>. QED
    BY <2>3, <2>4 DEF ProbedTarget, bind_target
<1>7. BindingExclusive'
  BY <1>1, WordFields DEF Inv, TypeOK, BindingExclusive, CallShape, bind_target, cellVars, Parkable
<1>8. OneBinder'
  BY <1>1, WordFields DEF Inv, TypeOK, OneBinder, BindingExclusive, bind_target, Parkable
<1>9. OwnedGeneration'
  BY <1>1, WordFields DEF Inv, TypeOK, OwnedGeneration, CallShape, bind_target, cellVars, Waiting, TaskPcs
<1>10. OwnedTarget'
  BY <1>1, WordFields DEF Inv, TypeOK, OwnedTarget, OwnedGeneration, CallShape, bind_target, cellVars, Waiting, Owns, Targets, target_hub
<1>11. ClaimExclusive'
  BY <1>1, ClaimFrame, WordFields DEF Inv, TypeOK, bind_target, cellVars, Parkable, selVars
<1>12. WokenSelected'
  BY <1>1, WordFields DEF Inv, TypeOK, WokenSelected, CallShape, bind_target, cellVars, Woken, Parkable
<1>. QED
  BY <1>2, <1>3, <1>4, <1>5, <1>6, <1>7, <1>8, <1>9, <1>10, <1>11, <1>12 DEF Inv

\* The plain store that activates a bound generation.
LEMMA BeginPublishInv ==
  ASSUME Inv, NEW t \in Tasks, BeginPublish(t)
  PROVE  Inv'
<1>. USE WaitCellAssumption
<1>. DEFINE c == tcell[t]
<1>1. /\ c \in Cells /\ tword[t] \in Word /\ word[c] = binding(tword[t])
      /\ next_generation(tword[t]) /\ Parkable(tword[t]) /\ ~tword[t].permit
      /\ Targets(t, c, thub[t]) /\ thub[t] \in {"primary", "fallback"}
  BY DEF Inv, TypeOK, CallShape, BindingExclusive, ProbedTarget, BeginPublish
<1>2. TypeOK'
  BY <1>1, WordOps, WordAdvance DEF Inv, TypeOK, BeginPublish, cellVars, selVars, kernelVars, TaskPcs
<1>3. CallShape'
  BY <1>1, WordFields DEF Inv, TypeOK, CallShape, BeginPublish, cellVars, WaitCellAssumption
<1>4. SelectorShape'
  BY <1>1 DEF Inv, SelectorShape, BeginPublish, selVars, Publishing, WaitCellAssumption
<1>5. ObservedWord'
  BY <1>1, WordFields DEF Inv, TypeOK, ObservedWord, CallShape, BeginPublish, cellVars, Parkable
<1>6. ProbedTarget'
  BY <1>1, WordFields DEF Inv, TypeOK, ProbedTarget, ObservedWord, CallShape, BeginPublish, cellVars, Targets
<1>7. BindingExclusive'
  BY <1>1, WordFields DEF Inv, TypeOK, BindingExclusive, OneBinder, CallShape, BeginPublish, cellVars, Parkable
<1>8. OneBinder'
  BY <1>1, WordFields DEF Inv, TypeOK, OneBinder, BindingExclusive, BeginPublish, Parkable
<1>9. OwnedGeneration'
  <2>1. word[c].phase = "Binding" /\ word[c].gen = tword[t].gen + 1
    BY <1>1, WordFields
  <2>2. ASSUME NEW u \in Tasks, Waiting(u), tcell[u] = c PROVE tgen[u] < tword[t].gen + 1
    <3>1. tgen[u] \in Nat /\ tword[t].gen \in Nat
      BY <1>1, WordFields DEF Inv, TypeOK, WaitCellAssumption
    <3>2. tgen[u] <= word[c].gen /\ tgen[u] # word[c].gen
      BY <2>1, <2>2 DEF Inv, OwnedGeneration
    <3>. QED
      BY <2>1, <3>1, <3>2
  <2>. QED
    BY <1>1, <2>1, <2>2, WordFields
       DEF Inv, TypeOK, OwnedGeneration, CallShape, BeginPublish, Waiting
<1>10. OwnedTarget'
  BY <1>1, WordFields DEF Inv, TypeOK, OwnedTarget, OwnedGeneration, CallShape, BeginPublish, cellVars, Waiting, Owns, Targets, target_hub
<1>11. ClaimExclusive'
  <2>1. word[c].phase # "Claim" /\ word'[c].phase # "Claim"
    BY <1>1, WordFields DEF Inv, TypeOK, BeginPublish, Parkable
  <2>2. \A d \in Cells : d # c => word'[d] = word[d]
    BY DEF Inv, TypeOK, BeginPublish
  <2>. QED
    BY <2>1, <2>2, ClaimFrame DEF BeginPublish, selVars
<1>12. WokenSelected'
  BY <1>1, WordFields DEF Inv, TypeOK, WokenSelected, CallShape, BeginPublish, cellVars, Woken, Parkable
<1>. QED
  BY <1>2, <1>3, <1>4, <1>5, <1>6, <1>7, <1>8, <1>9, <1>10, <1>11, <1>12 DEF Inv

\* A registration fails before the suspension.
LEMMA FailRegistrationInv ==
  ASSUME Inv, NEW t \in Tasks, FailRegistration(t)
  PROVE  Inv'
<1>. USE WaitCellAssumption
<1>2. TypeOK'
  BY WordOps, WordAdvance DEF Inv, TypeOK, FailRegistration, cellVars, selVars, kernelVars, TaskPcs
<1>3. CallShape'
  BY WordFields DEF Inv, TypeOK, CallShape, FailRegistration, cellVars, WaitCellAssumption
<1>4. SelectorShape'
  BY DEF Inv, SelectorShape, FailRegistration, selVars, Publishing, WaitCellAssumption
<1>5. ObservedWord'
  BY WordFields DEF Inv, TypeOK, ObservedWord, CallShape, FailRegistration, cellVars, Parkable
<1>6. ProbedTarget'
  BY WordFields DEF Inv, TypeOK, ProbedTarget, ObservedWord, CallShape, FailRegistration, cellVars, Targets
<1>7. BindingExclusive'
  BY WordFields DEF Inv, TypeOK, BindingExclusive, CallShape, FailRegistration, cellVars, Parkable
<1>8. OneBinder'
  BY WordFields DEF Inv, TypeOK, OneBinder, BindingExclusive, FailRegistration, Parkable
<1>9. OwnedGeneration'
  BY WordFields DEF Inv, TypeOK, OwnedGeneration, CallShape, FailRegistration, cellVars, Waiting, TaskPcs
<1>10. OwnedTarget'
  BY WordFields DEF Inv, TypeOK, OwnedTarget, OwnedGeneration, CallShape, FailRegistration, cellVars, Waiting, Owns, Targets, target_hub
<1>11. ClaimExclusive'
  BY ClaimFrame, WordFields DEF Inv, TypeOK, FailRegistration, cellVars, Parkable, selVars
<1>12. WokenSelected'
  BY WordFields DEF Inv, TypeOK, WokenSelected, CallShape, FailRegistration, cellVars, Woken, Parkable
<1>. QED
  BY <1>2, <1>3, <1>4, <1>5, <1>6, <1>7, <1>8, <1>9, <1>10, <1>11, <1>12 DEF Inv

\* The kernel records the parked task.
LEMMA park_taskInv ==
  ASSUME Inv, NEW t \in Tasks, park_task(t)
  PROVE  Inv'
<1>. USE WaitCellAssumption
<1>1. busy[HubOf[t]] = t /\ initial \in Word
  <2>1. tword[t] \in Word /\ busy[HubOf[t]] = t
    BY DEF Inv, TypeOK, CallShape, park_task
  <2>. QED
    BY <2>1, WordOps
<1>2. TypeOK'
  BY <1>1, WordOps, WordAdvance DEF Inv, TypeOK, park_task, Unmount, cellVars, selVars, kernelVars, TaskPcs
<1>3. CallShape'
  BY <1>1, WordFields DEF Inv, TypeOK, CallShape, park_task, Unmount, cellVars, WaitCellAssumption
<1>4. SelectorShape'
  BY <1>1 DEF Inv, SelectorShape, park_task, Unmount, selVars, Publishing, WaitCellAssumption
<1>5. ObservedWord'
  BY <1>1, WordFields DEF Inv, TypeOK, ObservedWord, CallShape, park_task, Unmount, cellVars, Parkable
<1>6. ProbedTarget'
  BY <1>1, WordFields DEF Inv, TypeOK, ProbedTarget, ObservedWord, CallShape, park_task, Unmount, cellVars, Targets
<1>7. BindingExclusive'
  BY <1>1, WordFields DEF Inv, TypeOK, BindingExclusive, CallShape, park_task, Unmount, cellVars, Parkable
<1>8. OneBinder'
  BY <1>1, WordFields DEF Inv, TypeOK, OneBinder, BindingExclusive, park_task, Unmount, Parkable
<1>9. OwnedGeneration'
  BY <1>1, WordFields DEF Inv, TypeOK, OwnedGeneration, CallShape, park_task, Unmount, cellVars, Waiting, TaskPcs
<1>10. OwnedTarget'
  BY <1>1, WordFields DEF Inv, TypeOK, OwnedTarget, OwnedGeneration, CallShape, park_task, Unmount, cellVars, Waiting, Owns, Targets, target_hub
<1>11. ClaimExclusive'
  BY <1>1, ClaimFrame, WordFields DEF Inv, TypeOK, park_task, Unmount, cellVars, Parkable, selVars
<1>12. WokenSelected'
  BY <1>1, WordFields DEF Inv, TypeOK, WokenSelected, CallShape, park_task, Unmount, cellVars, Woken, Parkable
<1>. QED
  BY <1>2, <1>3, <1>4, <1>5, <1>6, <1>7, <1>8, <1>9, <1>10, <1>11, <1>12 DEF Inv

-----------------------------------------------------------------------------
(* Steps that end a wait. *)

\* What try_retire does to the words of the waits it is asked to retire.
LEMMA RetireWord ==
  ASSUME Inv, NEW R \in SUBSET Tasks, \A t \in R : Waiting(t), try_retire(R)
  PROVE  /\ word' \in [Cells -> Word]
         /\ \A d \in Cells :
              \/ word'[d] = word[d]
              \/ word[d].phase = "Claim" /\ word'[d] = with_permit(word[d], TRUE)
              \/ /\ word'[d].gen = word[d].gen /\ word'[d].phase = "Idle"
                 /\ word[d].phase \in {"Active", "Selected"}
                 /\ \E t \in R : Owns(t, d)
         /\ \A t \in R, d \in Cells :
              Owns(t, d) /\ ~InFlight(t) => word'[d].phase = "Idle"
<1>1. \A d \in Cells : /\ word[d] \in Word
                       /\ retire(word[d]) \in Word /\ with_permit(word[d], TRUE) \in Word
                       /\ retire(word[d]).phase = "Idle"
                       /\ retire(word[d]).gen = word[d].gen
  <2>. SUFFICES ASSUME NEW d \in Cells
                PROVE  /\ word[d] \in Word
                       /\ retire(word[d]) \in Word /\ with_permit(word[d], TRUE) \in Word
                       /\ retire(word[d]).phase = "Idle"
                       /\ retire(word[d]).gen = word[d].gen
    OBVIOUS
  <2>1. word[d] \in Word
    BY DEF Inv, TypeOK
  <2>. QED
    BY <2>1, WordOps, WordFields, PermitFields
<1>2. \A d \in Cells : word[d].phase \in Phases
  BY <1>1 DEF Word
<1>3. \A t \in R : /\ tcell[t] \in Cells
                   /\ tgen[t] = word[tcell[t]].gen => word[tcell[t]].phase # "Binding"
  BY DEF Inv, CallShape, OwnedGeneration, Waiting
<1>4. ASSUME NEW d \in Cells, NEW t \in Retirable(R), tcell[t] = d
      PROVE  /\ word'[d] = retire(word[d])
             /\ word[d].phase \in {"Active", "Selected"}
             /\ t \in R /\ Owns(t, d)
  <2>1. word'[d] = retire(word[d])
    BY <1>4 DEF try_retire, Retirable, InFlight
  <2>2. t \in R /\ word[d].gen = tgen[t] /\ word[d].phase \notin {"Idle", "Claim"}
    BY <1>4 DEF Retirable, Gone
  <2>. QED
    BY <1>2, <1>3, <1>4, <2>1, <2>2 DEF Owns, Phases
<1>5. ASSUME NEW d \in Cells, \A t \in Retirable(R) : tcell[t] # d,
             NEW t \in R, tcell[t] = d, InFlight(t)
      PROVE  word[d].phase = "Claim" /\ word'[d] = with_permit(word[d], TRUE)
  BY <1>5 DEF try_retire, InFlight
<1>6. ASSUME NEW d \in Cells, \A t \in Retirable(R) : tcell[t] # d,
             \A t \in R : ~(tcell[t] = d /\ InFlight(t))
      PROVE  word'[d] = word[d]
  BY <1>6 DEF try_retire
<1>7. ASSUME NEW d \in Cells
      PROVE  \/ word'[d] = word[d]
             \/ word[d].phase = "Claim" /\ word'[d] = with_permit(word[d], TRUE)
             \/ /\ word'[d].gen = word[d].gen /\ word'[d].phase = "Idle"
                /\ word[d].phase \in {"Active", "Selected"}
                /\ \E t \in R : Owns(t, d)
  <2>1. CASE \E t \in Retirable(R) : tcell[t] = d
    <3>1. PICK t \in Retirable(R) : tcell[t] = d
      BY <2>1
    <3>. QED
      BY <1>1, <1>4, <3>1
  <2>2. CASE /\ \A t \in Retirable(R) : tcell[t] # d
             /\ \E t \in R : tcell[t] = d /\ InFlight(t)
    BY <1>5, <2>2
  <2>3. CASE /\ \A t \in Retirable(R) : tcell[t] # d
             /\ \A t \in R : ~(tcell[t] = d /\ InFlight(t))
    BY <1>6, <2>3
  <2>. QED
    BY <2>1, <2>2, <2>3
<1>8. word' \in [Cells -> Word]
  BY <1>1 DEF try_retire
<1>9. ASSUME NEW t \in R, NEW d \in Cells, Owns(t, d), ~InFlight(t)
      PROVE  word'[d].phase = "Idle"
  <2>1. tcell[t] = d /\ word[d].gen = tgen[t] /\ word[d].phase # "Claim"
    BY <1>9 DEF Owns, InFlight, Gone
  <2>2. CASE word[d].phase = "Idle"
    BY <1>1, <1>7, <2>2
  <2>3. CASE word[d].phase # "Idle"
    <3>1. t \in Retirable(R)
      BY <2>1, <2>3 DEF Retirable, Gone
    <3>. QED
      BY <1>1, <1>4, <2>1, <3>1
  <2>. QED
    BY <2>2, <2>3
<1>. QED
  BY <1>7, <1>8, <1>9

\* Notices taken out of the queues leave queues of notices.
LEMMA DiscardType ==
  ASSUME NEW q \in [Hubs -> SUBSET Notice], NEW R
  PROVE  discard_notice(q, R) \in [Hubs -> SUBSET Notice]
BY DEF discard_notice

\* begin consumes a stored permit.
LEMMA BeginTakePermitInv ==
  ASSUME Inv, NEW t \in Tasks, BeginTakePermit(t)
  PROVE  Inv'
<1>. DEFINE c == tcell[t]
<1>1. /\ c \in Cells /\ tword[t] \in Word /\ word[c] = tword[t]
      /\ word[c].phase = "Idle" /\ busy[HubOf[t]] = t
  BY DEF Inv, TypeOK, CallShape, BeginTakePermit, Parkable
<1>2. /\ with_permit(tword[t], FALSE) \in Word
      /\ with_permit(tword[t], FALSE).phase = "Idle"
      /\ with_permit(tword[t], FALSE).gen = word[c].gen
  BY <1>1, PermitFields
<1>3. TypeOK'
  <2>1. "out" \in TaskPcs /\ TypeOK
    BY DEF TaskPcs, Inv
  <2>. QED
    BY <1>1, <1>2, <2>1, LeaveType
       DEF TypeOK, BeginTakePermit, Return, Unmount, selVars, kernelVars
<1>4. \A u \in Tasks : ~Left(u)' =>
        /\ tpc'[u] = tpc[u] /\ tcell'[u] = tcell[u] /\ tword'[u] = tword[u]
        /\ thub'[u] = thub[u] /\ tgen'[u] = tgen[u]
        /\ (busy'[HubOf[u]] = u) <=> (busy[HubOf[u]] = u)
  BY <1>1, WaitCellAssumption
     DEF Inv, TypeOK, BeginTakePermit, Return, Leave, Left, Unmount, WaitCellAssumption
<1>5. \A s \in Selectors : CarrierOf[s] # Outside =>
        ((busy[CarrierOf[s]] = s) => (busy'[CarrierOf[s]] = s))
  BY <1>1, WaitCellAssumption DEF Inv, TypeOK, BeginTakePermit, Unmount, WaitCellAssumption
<1>6. \A d \in Cells : \/ word'[d] = word[d]
                       \/ /\ word'[d].gen = word[d].gen /\ word'[d].phase = "Idle"
                          /\ word[d].phase = "Idle"
  BY <1>1, <1>2 DEF Inv, TypeOK, BeginTakePermit
<1>7. \A u \in Tasks : Left(u)' => \A d \in Cells : ~Owns(u, d)
  BY DEF Inv, TypeOK, BeginTakePermit, Return, Leave, Left, Owns, Waiting
<1>. QED
  BY <1>3, <1>4, <1>5, <1>6, <1>7, RetireFrame DEF BeginTakePermit

\* finish retires the selected generation of a woken task.
LEMMA finishInv ==
  ASSUME Inv, NEW t \in Tasks, NEW clear \in BOOLEAN, finish(t, clear)
  PROVE  Inv'
<1>. DEFINE c == tcell[t]
            w == word[c]
            z == IF clear /\ w.cause = "Ready" THEN [w EXCEPT !.resource = "none"] ELSE w
<1>1. /\ c \in Cells /\ w \in Word /\ w.phase = "Selected" /\ w.gen = tgen[t]
      /\ tpc[t] = "resumed"
  BY DEF Inv, TypeOK, CallShape, WokenSelected, Woken, finish
<1>2. z \in Word /\ z.gen = w.gen
  BY <1>1 DEF Word, Resources
<1>3. retire(z) \in Word /\ retire(z).phase = "Idle" /\ retire(z).gen = w.gen
  <2>. HIDE DEF z
  <2>. QED
    BY <1>2, WordOps, WordFields
<1>4. /\ word' = [word EXCEPT ![c] = retire(z)] /\ Return(t) /\ Owns(t, c)
      /\ UNCHANGED <<boundTask, primaryHub, fallbackHub, stored, selVars, kernelVars, busy>>
  BY <1>1 DEF finish, Owns, Waiting
<1>. HIDE DEF z
<1>5. TypeOK'
  <2>1. "out" \in TaskPcs /\ TypeOK
    BY DEF TaskPcs, Inv
  <2>. QED
    BY <1>1, <1>3, <1>4, <2>1, LeaveType DEF TypeOK, Return, selVars, kernelVars
<1>6. \A u \in Tasks : ~Left(u)' =>
        /\ tpc'[u] = tpc[u] /\ tcell'[u] = tcell[u] /\ tword'[u] = tword[u]
        /\ thub'[u] = thub[u] /\ tgen'[u] = tgen[u]
        /\ (busy'[HubOf[u]] = u) <=> (busy[HubOf[u]] = u)
  BY <1>4 DEF Return, Leave, Left
<1>7. \A d \in Cells : \/ word'[d] = word[d]
                       \/ /\ word'[d].gen = word[d].gen /\ word'[d].phase = "Idle"
                          /\ word[d].phase \in {"Active", "Selected"}
                          /\ \E u \in Tasks : Owns(u, d) /\ Left(u)'
  BY <1>1, <1>3, <1>4 DEF Inv, TypeOK, Return, Leave, Left
<1>8. \A u \in Tasks : Left(u)' => \A d \in Cells : Owns(u, d) => word'[d].phase = "Idle"
  BY <1>1, <1>3, <1>4 DEF Inv, TypeOK, Return, Leave, Left, Owns, Waiting
<1>. QED
  BY <1>4, <1>5, <1>6, <1>7, <1>8, RetireFrame

\* A park call rolls its wait back.
LEMMA try_rollbackInv ==
  ASSUME Inv, NEW t \in Tasks, try_rollback(t)
  PROVE  Inv'
<1>1. /\ \A u \in {t} : Waiting(u)
      /\ try_retire({t}) /\ ~InFlight(t)
      /\ busy[HubOf[t]] = t \/ busy[HubOf[t]] = Free
  BY DEF try_rollback, Waiting, Mountable, Settled, KernelRuns
<1>2. /\ word' \in [Cells -> Word]
      /\ \A d \in Cells :
           \/ word'[d] = word[d]
           \/ word[d].phase = "Claim" /\ word'[d] = with_permit(word[d], TRUE)
           \/ /\ word'[d].gen = word[d].gen /\ word'[d].phase = "Idle"
              /\ word[d].phase \in {"Active", "Selected"}
              /\ Owns(t, d)
      /\ \A d \in Cells : Owns(t, d) => word'[d].phase = "Idle"
  <2>. DEFINE R == {t}
  <2>1. /\ R \in SUBSET Tasks /\ (\A u \in R : Waiting(u)) /\ try_retire(R)
        /\ t \in R /\ \A u \in R : u = t
    BY <1>1
  <2>. HIDE DEF R
  <2>2. /\ word' \in [Cells -> Word]
        /\ \A d \in Cells :
             \/ word'[d] = word[d]
             \/ word[d].phase = "Claim" /\ word'[d] = with_permit(word[d], TRUE)
             \/ /\ word'[d].gen = word[d].gen /\ word'[d].phase = "Idle"
                /\ word[d].phase \in {"Active", "Selected"}
                /\ \E u \in R : Owns(u, d)
        /\ \A u \in R, d \in Cells :
             Owns(u, d) /\ ~InFlight(u) => word'[d].phase = "Idle"
    BY <2>1, RetireWord
  <2>. QED
    BY <1>1, <2>1, <2>2
<1>3. TypeOK'
  <2>1. "out" \in TaskPcs /\ TypeOK
    BY DEF TaskPcs, Inv
  <2>2. inbox' \in [Hubs -> SUBSET Notice] /\ local' \in [Hubs -> SUBSET Notice]
    BY DiscardType DEF Inv, TypeOK, try_rollback
  <2>. QED
    BY <1>2, <2>1, <2>2, LeaveType DEF TypeOK, try_rollback, Return, Unmount, selVars
<1>4. \A u \in Tasks : ~Left(u)' =>
        /\ tpc'[u] = tpc[u] /\ tcell'[u] = tcell[u] /\ tword'[u] = tword[u]
        /\ thub'[u] = thub[u] /\ tgen'[u] = tgen[u]
        /\ (busy'[HubOf[u]] = u) <=> (busy[HubOf[u]] = u)
  BY <1>1, WaitCellAssumption
     DEF Inv, TypeOK, try_rollback, Return, Leave, Left, Unmount, WaitCellAssumption
<1>5. \A s \in Selectors : CarrierOf[s] # Outside =>
        ((busy[CarrierOf[s]] = s) => (busy'[CarrierOf[s]] = s))
  BY <1>1, WaitCellAssumption DEF Inv, TypeOK, try_rollback, Unmount, WaitCellAssumption
<1>6. Left(t)'
  BY DEF try_rollback, Return, Leave, Left
<1>7. \A u \in Tasks : Left(u)' => \A d \in Cells : Owns(u, d) => word'[d].phase = "Idle"
  BY <1>2 DEF try_rollback, Return, Leave, Left, Owns, Waiting
<1>. QED
  BY <1>2, <1>3, <1>4, <1>5, <1>6, <1>7, RetireFrame DEF try_rollback

\* An abort unwinds the parked and ready tasks of its scope.
LEMMA abortInv ==
  ASSUME Inv, NEW x \in Scopes, abort(x)
  PROVE  Inv'
<1>. DEFINE waits == {t \in Members(x) : Parked(t) \/ Woken(t)}
<1>1. waits \in SUBSET Tasks /\ (\A t \in waits : Waiting(t)) /\ try_retire(waits)
  BY DEF Members, Parked, Woken, Waiting, abort
<1>2. \A t \in Members(x) : busy[HubOf[t]] = Free /\ t # Free /\ t \in Tasks
  BY WaitCellAssumption
     DEF abort, CanAbort, Settled, KernelRuns, Members, WaitCellAssumption
<1>3. \A t \in Members(x) : Waiting(t) => t \in waits
  BY <1>2 DEF Inv, CallShape, Waiting, Parked, Woken
<1>4. \A t \in waits : ~InFlight(t)
  BY DEF Inv, WokenSelected, abort, ParkedIn, InFlight, Members
<1>. HIDE DEF waits
<1>5. /\ word' \in [Cells -> Word]
      /\ \A d \in Cells :
           \/ word'[d] = word[d]
           \/ word[d].phase = "Claim" /\ word'[d] = with_permit(word[d], TRUE)
           \/ /\ word'[d].gen = word[d].gen /\ word'[d].phase = "Idle"
              /\ word[d].phase \in {"Active", "Selected"}
              /\ \E t \in waits : Owns(t, d)
      /\ \A t \in waits, d \in Cells : Owns(t, d) => word'[d].phase = "Idle"
  BY <1>1, <1>4, RetireWord
<1>6. /\ Leave(Members(x), "gone") /\ waits \subseteq Members(x)
      /\ UNCHANGED <<boundTask, primaryHub, fallbackHub, stored, selVars, signalled, busy>>
  BY DEF abort, waits
<1>7. TypeOK'
  <2>1. "gone" \in TaskPcs /\ TypeOK
    BY DEF TaskPcs, Inv
  <2>2. /\ inbox' \in [Hubs -> SUBSET Notice] /\ local' \in [Hubs -> SUBSET Notice]
        /\ deferred' \in [Hubs -> SUBSET Notice] /\ recheck' \in [Hubs -> SUBSET Notice]
    BY DiscardType DEF Inv, TypeOK, abort
  <2>3. aborting' \in [Scopes -> {"no", "wait", "retry", "done"}]
    BY DEF Inv, TypeOK, abort
  <2>. QED
    BY <1>5, <1>6, <2>1, <2>2, <2>3, LeaveType DEF TypeOK, selVars
<1>8. \A u \in Tasks : ~Left(u)' =>
        /\ tpc'[u] = tpc[u] /\ tcell'[u] = tcell[u] /\ tword'[u] = tword[u]
        /\ thub'[u] = thub[u] /\ tgen'[u] = tgen[u]
        /\ (busy'[HubOf[u]] = u) <=> (busy[HubOf[u]] = u)
  BY <1>6 DEF Leave, Left
<1>9. \A t \in waits : t \in Tasks /\ Left(t)'
  BY <1>2, <1>6 DEF Leave, Left
<1>10. \A u \in Tasks : Left(u)' => \A d \in Cells : Owns(u, d) => word'[d].phase = "Idle"
  <2>. SUFFICES ASSUME NEW u \in Tasks, Left(u)', NEW d \in Cells, Owns(u, d)
                PROVE  word'[d].phase = "Idle"
    OBVIOUS
  <2>1. u \in Members(x)
    BY <1>6 DEF Leave, Left, Owns, Waiting
  <2>. QED
    BY <1>3, <1>5, <2>1 DEF Owns
<1>. QED
  BY <1>5, <1>6, <1>7, <1>8, <1>9, <1>10, RetireFrame

\* A deferred abort retires what it can and leaves its interest in the rest.
LEMMA defer_abortInv ==
  ASSUME Inv, NEW x \in Scopes, defer_abort(x)
  PROVE  Inv'
<1>1. ParkedIn(x) \in SUBSET Tasks /\ (\A t \in ParkedIn(x) : Waiting(t) /\ ~Woken(t))
  BY DEF ParkedIn, Members, Parked, Waiting, Woken
<1>2. try_retire(ParkedIn(x))
  BY DEF defer_abort
<1>3. /\ word' \in [Cells -> Word]
      /\ \A d \in Cells :
           \/ word'[d] = word[d]
           \/ word[d].phase = "Claim" /\ word'[d] = with_permit(word[d], TRUE)
           \/ /\ word'[d].gen = word[d].gen /\ word'[d].phase = "Idle"
              /\ word[d].phase \in {"Active", "Selected"}
              /\ \E t \in ParkedIn(x) : Owns(t, d)
  BY <1>1, <1>2, RetireWord
<1>4. UNCHANGED <<boundTask, primaryHub, fallbackHub, stored, taskVars, selVars,
                  local, deferred, recheck, signalled, busy>>
  BY DEF defer_abort
<1>5. TypeOK'
  <2>1. /\ inbox' \in [Hubs -> SUBSET Notice]
        /\ aborting' \in [Scopes -> {"no", "wait", "retry", "done"}]
    BY DiscardType DEF Inv, TypeOK, defer_abort
  <2>. QED
    BY <1>3, <1>4, <2>1 DEF Inv, TypeOK, selVars, taskVars
<1>6. \A u \in Tasks : Left(u)' => \A d \in Cells : ~Owns(u, d)
  BY <1>4 DEF Left, Owns, Waiting, taskVars
<1>. QED
  BY <1>1, <1>3, <1>4, <1>5, <1>6, RetireFrame DEF taskVars

-----------------------------------------------------------------------------
(* Steps of the kernel that end no wait. *)

\* A call that cannot retire its wait parks again.
LEMMA reparkInv ==
  ASSUME Inv, NEW t \in Tasks, repark(t)
  PROVE  Inv'
<1>. DEFINE c == tcell[t]
<1>1. /\ c \in Cells /\ word[c] \in Word /\ word[c].phase = "Claim" /\ tpc[t] = "retire"
      /\ busy[HubOf[t]] = t
  BY DEF Inv, TypeOK, CallShape, WokenSelected, Woken, repark, InFlight
<1>2. \A d \in Cells : word'[d] = IF d = c THEN with_permit(word[d], TRUE) ELSE word[d]
  BY <1>1 DEF repark, try_retire, Retirable, InFlight
<1>3. /\ with_permit(word[c], TRUE) \in Word
      /\ with_permit(word[c], TRUE).phase = "Claim"
      /\ with_permit(word[c], TRUE).gen = word[c].gen
      /\ with_permit(word[c], TRUE).hub = word[c].hub
  BY <1>1, PermitFields
<1>4. TypeOK'
  <2>1. word' \in [Cells -> Word]
    <3>1. word' = [d \in Cells |-> word'[d]]
      BY DEF repark, try_retire
    <3>2. \A d \in Cells : word'[d] \in Word
      BY <1>1, <1>2, <1>3 DEF Inv, TypeOK
    <3>. QED
      BY <3>1, <3>2
  <2>. QED
    BY <2>1 DEF Inv, TypeOK, repark, Unmount, selVars, kernelVars, TaskPcs
<1>5. \A u \in Tasks :
        \/ tpc'[u] = tpc[u] /\ ((busy'[HubOf[u]] = u) <=> (busy[HubOf[u]] = u))
        \/ Waiting(u) /\ tpc'[u] = "reparked"
  BY <1>1, WaitCellAssumption DEF Inv, TypeOK, repark, Unmount, Waiting, WaitCellAssumption
<1>6. SelectorShape'
  BY <1>1, WaitCellAssumption
     DEF Inv, TypeOK, SelectorShape, Publishing, repark, Unmount, selVars, WaitCellAssumption
<1>7. ClaimExclusive'
  BY <1>1, <1>2, <1>3, ClaimFrame DEF repark, selVars
<1>8. /\ CallShape' /\ ObservedWord' /\ ProbedTarget' /\ BindingExclusive'
      /\ OneBinder' /\ OwnedGeneration' /\ OwnedTarget' /\ WokenSelected'
  <2>1. \A u \in Tasks : tpc'[u] = "reparked" => ~Woken(u)'
    BY DEF Woken
  <2>2. word \in [Cells -> Word]
    BY DEF Inv, TypeOK
  <2>. QED
    BY <1>1, <1>2, <1>3, <1>5, <2>1, <2>2, SelectorFrame DEF repark
<1>. QED
  BY <1>4, <1>6, <1>7, <1>8 DEF Inv

\* A notice that the kernel receives or revisits.
LEMMA process_wakeInv ==
  ASSUME Inv, NEW h \in Hubs, NEW n \in Notice, NEW rest \in SUBSET Notice,
         process_wake(h, n, rest),
         inbox' \in [Hubs -> SUBSET Notice], local' \in [Hubs -> SUBSET Notice],
         recheck' \in [Hubs -> SUBSET Notice]
  PROVE  Inv'
<1>1. n.task \in Tasks /\ n.cell \in Cells /\ n.cause \in Causes /\ word[n.cell] \in Word
  BY DEF Inv, TypeOK, Notice
<1>2. Accepted(n) => /\ tpc[n.task] \in {"parked", "reparked"}
                     /\ tcell[n.task] = n.cell
                     /\ word[n.cell].gen = tgen[n.task]
                     /\ word[n.cell].phase = "Selected"
                     /\ ~MustDefer(n)
  BY DEF Accepted, MustDefer, OwnsRoute, Parked, publication
<1>3. MustDefer(n) => word[n.cell].phase = "Claim"
  BY DEF MustDefer, publication
<1>4. \A d \in Cells :
        \/ word'[d] = word[d]
        \/ ~Accepted(n) /\ word[d].phase = "Claim" /\ word'[d] = with_permit(word[d], TRUE)
  BY <1>1, <1>2, <1>3 DEF Inv, TypeOK, process_wake
<1>5. \A d \in Cells : /\ word[d] \in Word
                       /\ with_permit(word[d], TRUE) \in Word
                       /\ with_permit(word[d], TRUE).phase = word[d].phase
                       /\ with_permit(word[d], TRUE).gen = word[d].gen
                       /\ with_permit(word[d], TRUE).hub = word[d].hub
  BY PermitFields DEF Inv, TypeOK
<1>6. TypeOK'
  <2>1. word' \in [Cells -> Word]
    BY <1>1, <1>5 DEF Inv, TypeOK, process_wake
  <2>2. tpc' \in [Tasks -> TaskPcs] /\ tcause' \in [Tasks -> Causes \cup {"none"}]
    BY <1>1 DEF Inv, TypeOK, process_wake, TaskPcs
  <2>3. deferred' \in [Hubs -> SUBSET Notice]
    <3>1. {m \in rest : ~Mine(n.task, m)} \in SUBSET Notice /\ rest \cup {n} \in SUBSET Notice
      OBVIOUS
    <3>2. CASE Accepted(n)
      BY <1>2, <3>1, <3>2 DEF Inv, TypeOK, process_wake
    <3>3. CASE ~Accepted(n)
      BY <3>1, <3>3 DEF Inv, TypeOK, process_wake
    <3>. QED
      BY <3>2, <3>3
  <2>. QED
    BY <2>1, <2>2, <2>3 DEF Inv, TypeOK, process_wake, selVars
<1>7. \A u \in Tasks :
        \/ tpc'[u] = tpc[u] /\ ((busy'[HubOf[u]] = u) <=> (busy[HubOf[u]] = u))
        \/ /\ Waiting(u) /\ tpc'[u] \in {"resumed", "retire"}
           /\ word'[tcell[u]].gen = tgen[u] /\ word'[tcell[u]].phase = "Selected"
  <2>1. CASE Accepted(n)
    BY <1>1, <1>2, <1>4, <2>1 DEF Inv, TypeOK, process_wake, Waiting
  <2>2. CASE ~Accepted(n)
    BY <2>2 DEF process_wake
  <2>. QED
    BY <2>1, <2>2
<1>8. SelectorShape'
  BY DEF Inv, SelectorShape, Publishing, process_wake, selVars
<1>9. ClaimExclusive'
  BY <1>4, <1>5, ClaimFrame DEF process_wake, selVars
<1>10. /\ CallShape' /\ ObservedWord' /\ ProbedTarget' /\ BindingExclusive'
       /\ OneBinder' /\ OwnedGeneration' /\ OwnedTarget' /\ WokenSelected'
  <2>1. word \in [Cells -> Word]
    BY DEF Inv, TypeOK
  <2>2. \A d \in Cells :
          /\ word'[d].gen = word[d].gen /\ word'[d].hub = word[d].hub
          /\ word'[d].phase = word[d].phase
          /\ word[d].phase # "Claim" => word'[d] = word[d]
    BY <1>4, <1>5
  <2>3. UNCHANGED <<tcell, tword, thub, tgen, boundTask, primaryHub, fallbackHub>>
    BY DEF process_wake
  <2>. QED
    BY <1>7, <2>1, <2>2, <2>3, SelectorFrame
<1>. QED
  BY <1>6, <1>8, <1>9, <1>10 DEF Inv

\* The steps of a kernel's tick.
LEMMA KernelStepInv ==
  ASSUME Inv, NEW h \in Hubs, KernelStep(h)
  PROVE  Inv'
<1>1. CASE process_wakes(h)
  <2>1. CASE \E n \in local[h] :
               /\ local' = [local EXCEPT ![h] = @ \ {n}]
               /\ process_wake(h, n, deferred[h])
               /\ UNCHANGED <<inbox, recheck>>
    <3>1. PICK n \in local[h] : /\ local' = [local EXCEPT ![h] = @ \ {n}]
                               /\ process_wake(h, n, deferred[h])
                               /\ UNCHANGED <<inbox, recheck>>
      BY <2>1
    <3>2. /\ n \in Notice /\ deferred[h] \in SUBSET Notice
          /\ inbox' \in [Hubs -> SUBSET Notice] /\ local' \in [Hubs -> SUBSET Notice]
          /\ recheck' \in [Hubs -> SUBSET Notice]
      BY <3>1 DEF Inv, TypeOK
    <3>. QED
      BY <3>1, <3>2, process_wakeInv
  <2>2. CASE \E n \in inbox[h] :
               /\ inbox' = [inbox EXCEPT ![h] = @ \ {n}]
               /\ process_wake(h, n, deferred[h])
               /\ UNCHANGED <<local, recheck>>
    <3>1. PICK n \in inbox[h] : /\ inbox' = [inbox EXCEPT ![h] = @ \ {n}]
                               /\ process_wake(h, n, deferred[h])
                               /\ UNCHANGED <<local, recheck>>
      BY <2>2
    <3>2. /\ n \in Notice /\ deferred[h] \in SUBSET Notice
          /\ inbox' \in [Hubs -> SUBSET Notice] /\ local' \in [Hubs -> SUBSET Notice]
          /\ recheck' \in [Hubs -> SUBSET Notice]
      BY <3>1 DEF Inv, TypeOK
    <3>. QED
      BY <3>1, <3>2, process_wakeInv
  <2>. QED
    BY <1>1, <2>1, <2>2 DEF process_wakes
<1>2. CASE process_deferred_wakes(h)
  <2>1. PICK n \in recheck[h] : /\ recheck' = [recheck EXCEPT ![h] = @ \ {n}]
                               /\ process_wake(h, n, deferred[h] \ {n})
    BY <1>2 DEF process_deferred_wakes
  <2>2. /\ n \in Notice /\ deferred[h] \ {n} \in SUBSET Notice
        /\ inbox' \in [Hubs -> SUBSET Notice] /\ local' \in [Hubs -> SUBSET Notice]
        /\ recheck' \in [Hubs -> SUBSET Notice]
    BY <1>2, <2>1 DEF Inv, TypeOK, process_deferred_wakes
  <2>. QED
    BY <2>1, <2>2, process_wakeInv
<1>3. CASE observe_signal(h)
  <2>1. TypeOK'
    BY <1>3 DEF Inv, TypeOK, observe_signal, cellVars, taskVars, selVars
  <2>2. UNCHANGED <<cellVars, taskVars, selVars, busy>>
    BY <1>3 DEF observe_signal
  <2>. QED
    BY <2>1, <2>2, QuietInv
<1>. QED
  BY <1>1, <1>2, <1>3 DEF KernelStep

-----------------------------------------------------------------------------
(* Selectors. *)

\* A selector that takes or leaves its carrier takes it from no task.
LEMMA CarrierFrame ==
  ASSUME Inv, NEW s \in Selectors,
         \/ Occupy(s) /\ CanSelect(s)
         \/ Vacate(s) /\ spc[s] # "idle"
         \/ busy' = busy
  PROVE  /\ busy' \in [Hubs -> Tasks \cup Selectors \cup {Free}]
         /\ \A t \in Tasks : (busy'[HubOf[t]] = t) <=> (busy[HubOf[t]] = t)
         /\ \A r \in Selectors : r # s /\ CarrierOf[r] # Outside /\ spc[r] # "idle" =>
              busy'[CarrierOf[r]] = r
<1>1. /\ busy \in [Hubs -> Tasks \cup Selectors \cup {Free}]
      /\ \A r \in Selectors : spc[r] # "idle" /\ CarrierOf[r] # Outside => busy[CarrierOf[r]] = r
  BY DEF Inv, TypeOK, SelectorShape
<1>2. CASE busy' = busy
  BY <1>1, <1>2
<1>3. CASE Occupy(s) /\ CanSelect(s)
  BY <1>1, <1>3, WaitCellAssumption
     DEF Occupy, CanSelect, Settled, KernelRuns, WaitCellAssumption
<1>4. CASE Vacate(s) /\ spc[s] # "idle"
  BY <1>1, <1>4, WaitCellAssumption DEF Vacate, WaitCellAssumption
<1>. QED
  BY <1>2, <1>3, <1>4

\* The exchange that wins an active generation.
LEMMA ClaimInv ==
  ASSUME Inv, NEW s \in Selectors, NEW c \in Cells, NEW w \in Word,
         NEW next \in {"route", "routeLocal"},
         Claim(s, c, w, next), stored' \in [Cells -> BOOLEAN],
         word[c].phase = "Active", w.phase = "Claim", w.cause \in Causes,
         w.gen = word[c].gen, w.hub = word[c].hub, ~w.permit
  PROVE  Inv'
<1>1. /\ spc[s] = "idle" /\ word' = [word EXCEPT ![c] = w]
      /\ spc' = [spc EXCEPT ![s] = next]
      /\ scell' = [scell EXCEPT ![s] = c]
      /\ sclaim' = [sclaim EXCEPT ![s] = w]
      /\ UNCHANGED <<boundTask, primaryHub, fallbackHub, shub, taskVars, kernelVars>>
  BY DEF Claim
<1>2. /\ word \in [Cells -> Word] /\ spc \in [Selectors -> SelPcs]
      /\ scell \in [Selectors -> Cells \cup {None}] /\ sclaim \in [Selectors -> Word]
  BY DEF Inv, TypeOK
<1>3. /\ busy' \in [Hubs -> Tasks \cup Selectors \cup {Free}]
      /\ \A t \in Tasks : (busy'[HubOf[t]] = t) <=> (busy[HubOf[t]] = t)
      /\ \A r \in Selectors : r # s /\ CarrierOf[r] # Outside /\ spc[r] # "idle" =>
           busy'[CarrierOf[r]] = r
  BY CarrierFrame DEF Claim
<1>4. TypeOK'
  BY <1>1, <1>2, <1>3 DEF Inv, TypeOK, taskVars, kernelVars, SelPcs
<1>5. SelectorShape'
  <2>1. CarrierOf[s] # Outside => busy'[CarrierOf[s]] = s
    BY WaitCellAssumption, ZenonT(60) DEF Inv, TypeOK, Claim, Occupy, WaitCellAssumption
  <2>. QED
    BY <1>1, <1>2, <1>3, <2>1 DEF Inv, SelectorShape, Publishing
<1>6. ClaimExclusive'
  <2>1. \A r \in Selectors : r # s =>
          /\ spc'[r] = spc[r] /\ scell'[r] = scell[r] /\ sclaim'[r] = sclaim[r]
          /\ Publishing(r)' <=> Publishing(r)
    BY <1>1, <1>2 DEF Publishing
  <2>2. \A r \in Selectors : Publishing(r) => scell[r] # c /\ scell[r] \in Cells
    BY DEF Inv, ClaimExclusive, SelectorShape
  <2>3. Publishing(s)' /\ scell'[s] = c /\ sclaim'[s] = w /\ spc'[s] # "observed" /\ word'[c] = w
    BY <1>1, <1>2 DEF Publishing
  <2>4. with_permit(w, FALSE) = w
    BY PermitFields
  <2>5. \A d \in Cells : d # c => word'[d] = word[d]
    BY <1>1, <1>2
  <2>6. \A d \in Cells : word'[d].phase = "Claim" =>
          \E r \in Selectors : Publishing(r)' /\ scell'[r] = d
    <3>. SUFFICES ASSUME NEW d \in Cells, word'[d].phase = "Claim"
                  PROVE  \E r \in Selectors : Publishing(r)' /\ scell'[r] = d
      OBVIOUS
    <3>1. CASE d = c
      BY <2>3, <3>1
    <3>2. CASE d # c
      <4>1. PICK r \in Selectors : Publishing(r) /\ scell[r] = d
        BY <2>5, <3>2 DEF Inv, ClaimExclusive
      <4>2. r # s
        BY <1>1, <4>1 DEF Publishing
      <4>. QED
        BY <2>1, <4>1, <4>2
    <3>. QED
      BY <3>1, <3>2
  <2>7. \A r, q \in Selectors :
          Publishing(r)' /\ Publishing(q)' /\ scell'[r] = scell'[q] => r = q
    BY <2>1, <2>2, <2>3 DEF Inv, ClaimExclusive
  <2>8. ASSUME NEW r \in Selectors, Publishing(r)'
        PROVE  /\ word'[scell'[r]].phase = "Claim"
               /\ spc'[r] = "observed" => word'[scell'[r]] = sclaim'[r] /\ word'[scell'[r]].permit
               /\ spc'[r] # "observed" => with_permit(word'[scell'[r]], FALSE) = sclaim'[r]
    <3>1. CASE r = s
      BY <2>3, <2>4, <3>1
    <3>2. CASE r # s
      <4>1. /\ Publishing(r) /\ spc'[r] = spc[r] /\ scell'[r] = scell[r]
            /\ sclaim'[r] = sclaim[r] /\ word'[scell[r]] = word[scell[r]]
        BY <2>1, <2>2, <2>5, <2>8, <3>2
      <4>2. /\ word[scell[r]].phase = "Claim"
            /\ spc[r] = "observed" => word[scell[r]] = sclaim[r] /\ word[scell[r]].permit
            /\ spc[r] # "observed" => with_permit(word[scell[r]], FALSE) = sclaim[r]
        BY <4>1 DEF Inv, ClaimExclusive
      <4>. QED
        BY <4>1, <4>2
    <3>. QED
      BY <3>1, <3>2
  <2>. QED
    BY <2>6, <2>7, <2>8 DEF ClaimExclusive
<1>7. /\ CallShape' /\ ObservedWord' /\ ProbedTarget' /\ BindingExclusive'
      /\ OneBinder' /\ OwnedGeneration' /\ OwnedTarget' /\ WokenSelected'
  <2>1. \A d \in Cells : word'[d] = IF d = c THEN w ELSE word[d]
    BY <1>1, <1>2
  <2>2. UNCHANGED <<tpc, tcell, tword, thub, tgen, boundTask, primaryHub, fallbackHub>>
    BY <1>1 DEF taskVars
  <2>. QED
    BY <1>2, <1>3, <2>1, <2>2, SelectorFrame
<1>. QED
  BY <1>4, <1>5, <1>6, <1>7 DEF Inv

\* A change of a word that is neither claimed nor bound: a stored permit, a
\* closed gate, a taken or recycled resource.
LEMMA StoreInv ==
  ASSUME Inv, NEW c \in Cells, NEW w \in Word,
         word' = [word EXCEPT ![c] = w], stored' \in [Cells -> BOOLEAN],
         word[c].phase \notin {"Claim", "Binding"}, w.phase = word[c].phase,
         w.gen = word[c].gen, w.hub = word[c].hub,
         w.phase = "Active" => w.permit = word[c].permit,
         UNCHANGED <<boundTask, primaryHub, fallbackHub, taskVars, selVars, kernelVars, busy>>
  PROVE  Inv'
<1>1. word \in [Cells -> Word]
  BY DEF Inv, TypeOK
<1>2. \A d \in Cells : word'[d] = IF d = c THEN w ELSE word[d]
  BY <1>1
<1>3. TypeOK'
  BY <1>1 DEF Inv, TypeOK, taskVars, selVars, kernelVars
<1>4. SelectorShape'
  BY DEF Inv, SelectorShape, Publishing, selVars
<1>5. ClaimExclusive'
  BY <1>2, ClaimFrame DEF selVars
<1>6. /\ CallShape' /\ ObservedWord' /\ ProbedTarget' /\ BindingExclusive'
      /\ OneBinder' /\ OwnedGeneration' /\ OwnedTarget' /\ WokenSelected'
  BY <1>1, <1>2, SelectorFrame DEF taskVars
<1>. QED
  BY <1>3, <1>4, <1>5, <1>6 DEF Inv

\* Every wake: the claim of an active generation, or a stored mark.
LEMMA SelectStepInv ==
  ASSUME Inv, NEW s \in Selectors, SelectStep(s)
  PROVE  Inv'
<1>1. ASSUME NEW c \in Cells
      PROVE  /\ word[c] \in Word
             /\ word[c].phase = "Active" => ~word[c].permit
  BY DEF Inv, TypeOK, OwnedTarget
<1>2. ASSUME NEW c \in Cells, NEW cause \in Causes, NEW next \in {"route", "routeLocal"},
             word[c].phase = "Active", Claim(s, c, claimed(word[c], cause), next),
             UNCHANGED stored
      PROVE  Inv'
  <2>1. /\ claimed(word[c], cause) \in Word
        /\ claimed(word[c], cause).phase = "Claim"
        /\ claimed(word[c], cause).cause = cause
        /\ claimed(word[c], cause).gen = word[c].gen
        /\ claimed(word[c], cause).hub = word[c].hub
        /\ ~claimed(word[c], cause).permit
    BY <1>1, <1>2, ClaimedFields
  <2>2. stored' \in [Cells -> BOOLEAN]
    BY <1>2 DEF Inv, TypeOK
  <2>. QED
    BY <1>2, <2>1, <2>2, ClaimInv
<1>3. ASSUME NEW c \in Cells, NEW w \in Word, word[c].phase \in {"Idle", "Selected"},
             Mark(s, c, w), stored' \in [Cells -> BOOLEAN],
             w.phase = word[c].phase, w.gen = word[c].gen, w.hub = word[c].hub
      PROVE  Inv'
  BY <1>3, StoreInv DEF Mark
<1>4. ASSUME NEW c \in Cells, notify(s, c) PROVE Inv'
  <2>1. CASE /\ selectable(word[c])
             /\ Claim(s, c, claimed(word[c], "Ready"), "routeLocal")
             /\ UNCHANGED stored
    BY <1>2, <2>1 DEF selectable, Causes
  <2>2. CASE /\ markable(word[c])
             /\ Mark(s, c, with_permit(word[c], TRUE))
             /\ stored' = [stored EXCEPT ![c] = TRUE]
    <3>1. stored' \in [Cells -> BOOLEAN]
      BY <2>2 DEF Inv, TypeOK
    <3>2. /\ with_permit(word[c], TRUE) \in Word
          /\ with_permit(word[c], TRUE).phase = word[c].phase
          /\ with_permit(word[c], TRUE).gen = word[c].gen
          /\ with_permit(word[c], TRUE).hub = word[c].hub
      BY <1>1, PermitFields
    <3>. QED
      BY <1>3, <2>2, <3>1, <3>2 DEF markable
  <2>. QED
    BY <1>4, <2>1, <2>2 DEF notify
<1>5. ASSUME NEW c \in Cells, cancel(s, c) PROVE Inv'
  BY <1>2, <1>5 DEF cancel, selectable, Causes
<1>6. ASSUME NEW c \in Cells, close(s, c) PROVE Inv'
  <2>. DEFINE w == [word[c] EXCEPT !.closed = TRUE, !.permit = FALSE]
  <2>1. /\ w \in Word /\ w.phase = word[c].phase /\ w.gen = word[c].gen
        /\ w.hub = word[c].hub /\ ~w.permit
    BY <1>1 DEF Word
  <2>2. stored' \in [Cells -> BOOLEAN]
    BY <1>6 DEF close, Inv, TypeOK
  <2>3. \/ /\ word[c].phase = "Active"
           /\ Claim(s, c, claimed(w, "Closed"), "route")
        \/ word[c].phase \in {"Idle", "Selected"} /\ Mark(s, c, w)
    BY <1>6 DEF close, selectable, markable
  <2>. HIDE DEF w
  <2>4. CASE /\ word[c].phase = "Active"
             /\ Claim(s, c, claimed(w, "Closed"), "route")
    <3>1. /\ claimed(w, "Closed") \in Word
          /\ claimed(w, "Closed").phase = "Claim"
          /\ claimed(w, "Closed").cause \in Causes
          /\ claimed(w, "Closed").gen = word[c].gen
          /\ claimed(w, "Closed").hub = word[c].hub
          /\ ~claimed(w, "Closed").permit
      BY <2>1, ClaimedFields DEF Causes
    <3>. QED
      BY <2>2, <2>4, <3>1, ClaimInv
  <2>5. CASE word[c].phase \in {"Idle", "Selected"} /\ Mark(s, c, w)
    BY <1>3, <2>1, <2>2, <2>5
  <2>. QED
    BY <2>3, <2>4, <2>5
<1>7. ASSUME NEW c \in Cells, NEW g, NEW cause \in Causes, select_generation(s, c, g, cause)
      PROVE  Inv'
  BY <1>2, <1>7 DEF select_generation, selectable
<1>8. ASSUME NEW c \in Cells, NEW r \in Resources, claim_resource(s, c, r) PROVE Inv'
  <2>. DEFINE w == resource_offer(word[c], r)
  <2>1. /\ w \in Word /\ w.gen = word[c].gen /\ w.hub = word[c].hub
        /\ word[c].phase = "Active" => w.phase = "Claim" /\ w.cause = "Ready" /\ ~w.permit
        /\ word[c].phase = "Idle" => w.phase = "Idle"
    BY <1>1, <1>8, OfferFields DEF claim_resource, resource_open
  <2>. HIDE DEF w
  <2>2. stored' \in [Cells -> BOOLEAN]
    BY <1>8 DEF claim_resource, Inv, TypeOK
  <2>3. CASE word[c].phase = "Active"
    <3>1. Claim(s, c, w, "routeLocal") /\ w.cause \in Causes
      BY <1>8, <2>1, <2>3 DEF claim_resource, Causes, w
    <3>. QED
      BY <2>1, <2>2, <2>3, <3>1, ClaimInv
  <2>4. CASE word[c].phase = "Idle"
    <3>1. Mark(s, c, w)
      BY <1>8, <2>4 DEF claim_resource, w
    <3>. QED
      BY <1>3, <2>1, <2>2, <2>4, <3>1
  <2>. QED
    BY <1>8, <2>3, <2>4 DEF claim_resource, resource_open
<1>9. ASSUME NEW t \in Tasks, expire_timers(s, t) PROVE Inv'
  <2>1. tcell[t] \in Cells /\ "TimedOut" \in Causes
    BY <1>9 DEF expire_timers, Inv, CallShape, Causes
  <2>. QED
    BY <1>7, <1>9, <2>1 DEF expire_timers
<1>. QED
  BY <1>4, <1>5, <1>6, <1>7, <1>8, <1>9 DEF SelectStep, Causes

\* The resident cell's task between its waits.
LEMMA ResidentStepInv ==
  ASSUME Inv, NEW t \in Tasks, NEW c \in Resident, ResidentStep(t, c)
  PROVE  Inv'
<1>1. c \in Cells /\ word[c] \in Word /\ stored \in [Cells -> BOOLEAN]
  BY WaitCellAssumption DEF Inv, TypeOK, WaitCellAssumption
<1>2. ASSUME NEW w \in Word, SetIdleWord(c, w), word[c].phase \notin {"Claim", "Binding"},
             w.phase = word[c].phase, w.gen = word[c].gen, w.hub = word[c].hub,
             w.phase = "Active" => w.permit = word[c].permit,
             stored' \in [Cells -> BOOLEAN]
      PROVE  Inv'
  BY <1>1, <1>2, StoreInv DEF SetIdleWord
<1>3. CASE take_resource(t, c)
  <2>. DEFINE w == [word[c] EXCEPT !.resource = "none"]
  <2>1. /\ w \in Word /\ w.phase = word[c].phase /\ w.gen = word[c].gen
        /\ w.hub = word[c].hub /\ w.permit = word[c].permit
    BY <1>1 DEF Word
  <2>2. SetIdleWord(c, w) /\ word[c].phase \notin {"Claim", "Binding"} /\ UNCHANGED stored
    BY <1>3 DEF take_resource
  <2>. HIDE DEF w
  <2>. QED
    BY <1>1, <1>2, <2>1, <2>2
<1>4. CASE recycle(t, c)
  <2>. DEFINE w == [word[c] EXCEPT !.permit = FALSE, !.resource = "none"]
  <2>1. /\ w \in Word /\ w.phase = word[c].phase /\ w.gen = word[c].gen
        /\ w.hub = word[c].hub
    BY <1>1 DEF Word
  <2>2. SetIdleWord(c, w) /\ word[c].phase = "Idle" /\ stored' \in [Cells -> BOOLEAN]
    BY <1>1, <1>4 DEF recycle
  <2>. HIDE DEF w
  <2>. QED
    BY <1>1, <1>2, <2>1, <2>2
<1>5. CASE reset_closed_gate(t, c)
  <2>. DEFINE w == [word[c] EXCEPT !.closed = FALSE]
  <2>1. /\ w \in Word /\ w.phase = word[c].phase /\ w.gen = word[c].gen
        /\ w.hub = word[c].hub
    BY <1>1 DEF Word
  <2>2. SetIdleWord(c, w) /\ word[c].phase = "Idle" /\ UNCHANGED stored
    BY <1>1, <1>5 DEF reset_closed_gate
  <2>. HIDE DEF w
  <2>. QED
    BY <1>1, <1>2, <2>1, <2>2
<1>. QED
  BY <1>3, <1>4, <1>5 DEF ResidentStep

\* What the publisher of a claim finds in the word.
LEMMA PublisherWord ==
  ASSUME Inv, NEW s \in Selectors, Publishing(s)
  PROVE  LET w == word[scell[s]] IN
         /\ scell[s] \in Cells /\ w \in Word /\ w.phase = "Claim"
         /\ sclaim[s] \in Word /\ sclaim[s].phase = "Claim"
         /\ sclaim[s].gen = w.gen /\ sclaim[s].hub = w.hub
         /\ sclaim[s].cause = w.cause /\ w.cause \in Causes
         /\ spc[s] # "observed" /\ w # sclaim[s] => w.permit
         /\ \A r \in Selectors : Publishing(r) /\ scell[r] = scell[s] => r = s
<1>. DEFINE w == word[scell[s]]
<1>1. /\ scell[s] \in Cells /\ w \in Word /\ w.phase = "Claim" /\ sclaim[s] \in Word
      /\ sclaim[s].cause \in Causes
      /\ spc[s] = "observed" => w = sclaim[s]
      /\ spc[s] # "observed" => with_permit(w, FALSE) = sclaim[s]
  BY ZenonT(60) DEF Inv, TypeOK, SelectorShape, ClaimExclusive
<1>2. /\ with_permit(w, FALSE).phase = w.phase /\ with_permit(w, FALSE).gen = w.gen
      /\ with_permit(w, FALSE).hub = w.hub /\ with_permit(w, FALSE).cause = w.cause
      /\ ~w.permit => with_permit(w, FALSE) = w
  BY <1>1, PermitFields
<1>3. \A r \in Selectors : Publishing(r) /\ scell[r] = scell[s] => r = s
  BY DEF Inv, ClaimExclusive
<1>. QED
  BY <1>1, <1>2, <1>3

\* The exchange that publishes a claim ends its publisher's ownership.
LEMMA PublishInv ==
  ASSUME Inv, TypeOK', NEW s \in Selectors, Publishing(s), NEW w \in Word,
         word' = [word EXCEPT ![scell[s]] = w],
         w.phase = "Selected", w.gen = word[scell[s]].gen, w.hub = word[scell[s]].hub,
         ~Publishing(s)', spc'[s] # "idle" => busy' = busy,
         \A r \in Selectors : r # s =>
           spc'[r] = spc[r] /\ scell'[r] = scell[r] /\ sclaim'[r] = sclaim[r],
         UNCHANGED <<boundTask, primaryHub, fallbackHub, tpc, tcell, tword, thub, tgen>>,
         Vacate(s) \/ busy' = busy
  PROVE  Inv'
<1>. DEFINE c == scell[s]
<1>1. /\ c \in Cells /\ word[c].phase = "Claim" /\ spc[s] # "idle"
      /\ \A r \in Selectors : Publishing(r) /\ scell[r] = c => r = s
  BY PublisherWord DEF Publishing
<1>2. word \in [Cells -> Word]
  BY DEF Inv, TypeOK
<1>3. \A d \in Cells : word'[d] = IF d = c THEN w ELSE word[d]
  BY <1>2
<1>4. /\ \A t \in Tasks : (busy'[HubOf[t]] = t) <=> (busy[HubOf[t]] = t)
      /\ \A r \in Selectors : r # s /\ CarrierOf[r] # Outside /\ spc[r] # "idle" =>
           busy'[CarrierOf[r]] = r
  BY <1>1, CarrierFrame
<1>5. SelectorShape'
  BY <1>1, <1>4 DEF Inv, SelectorShape, Publishing
<1>6. ClaimExclusive'
  <2>1. \A r \in Selectors : Publishing(r)' =>
          /\ Publishing(r) /\ scell'[r] = scell[r] /\ spc'[r] = spc[r]
          /\ sclaim'[r] = sclaim[r] /\ scell[r] # c /\ scell[r] \in Cells
    BY <1>1 DEF Publishing, Inv, SelectorShape
  <2>2. \A d \in Cells : word'[d].phase = "Claim" =>
          \E r \in Selectors : Publishing(r)' /\ scell'[r] = d
    <3>. SUFFICES ASSUME NEW d \in Cells, word'[d].phase = "Claim"
                  PROVE  \E r \in Selectors : Publishing(r)' /\ scell'[r] = d
      OBVIOUS
    <3>1. d # c /\ word[d].phase = "Claim"
      BY <1>3
    <3>2. PICK r \in Selectors : Publishing(r) /\ scell[r] = d
      BY <3>1 DEF Inv, ClaimExclusive
    <3>. QED
      BY <3>1, <3>2 DEF Publishing
  <2>3. ASSUME NEW r \in Selectors, Publishing(r)'
        PROVE  /\ word'[scell'[r]].phase = "Claim"
               /\ spc'[r] = "observed" => word'[scell'[r]] = sclaim'[r] /\ word'[scell'[r]].permit
               /\ spc'[r] # "observed" => with_permit(word'[scell'[r]], FALSE) = sclaim'[r]
    <3>1. /\ Publishing(r) /\ spc'[r] = spc[r] /\ scell'[r] = scell[r]
          /\ sclaim'[r] = sclaim[r] /\ word'[scell[r]] = word[scell[r]]
      BY <1>3, <2>1, <2>3
    <3>2. /\ word[scell[r]].phase = "Claim"
          /\ spc[r] = "observed" => word[scell[r]] = sclaim[r] /\ word[scell[r]].permit
          /\ spc[r] # "observed" => with_permit(word[scell[r]], FALSE) = sclaim[r]
      BY <3>1 DEF Inv, ClaimExclusive
    <3>. QED
      BY <3>1, <3>2
  <2>4. \A r, q \in Selectors :
          Publishing(r)' /\ Publishing(q)' /\ scell'[r] = scell'[q] => r = q
    BY <2>1 DEF Inv, ClaimExclusive
  <2>. QED
    BY <2>2, <2>3, <2>4 DEF ClaimExclusive
<1>7. /\ CallShape' /\ ObservedWord' /\ ProbedTarget' /\ BindingExclusive'
      /\ OneBinder' /\ OwnedGeneration' /\ OwnedTarget' /\ WokenSelected'
  BY <1>1, <1>2, <1>3, <1>4, SelectorFrame
<1>. QED
  BY <1>5, <1>6, <1>7 DEF Inv

\* A publisher's step that leaves the word alone.
LEMMA PublisherFrame ==
  ASSUME Inv, NEW s \in Selectors, UNCHANGED word,
         \A r \in Selectors : r # s =>
           spc'[r] = spc[r] /\ scell'[r] = scell[r] /\ sclaim'[r] = sclaim[r],
         Publishing(s)' <=> Publishing(s),
         Publishing(s) =>
           /\ scell'[s] = scell[s]
           /\ spc'[s] = "observed" => word[scell[s]] = sclaim'[s] /\ word[scell[s]].permit
           /\ spc'[s] # "observed" => with_permit(word[scell[s]], FALSE) = sclaim'[s]
  PROVE  ClaimExclusive'
<1>1. \A r \in Selectors : (Publishing(r)' <=> Publishing(r)) /\
                           (Publishing(r) => scell'[r] = scell[r])
  BY DEF Publishing
<1>2. \A c \in Cells : word'[c].phase = "Claim" =>
        \E r \in Selectors : Publishing(r)' /\ scell'[r] = c
  BY <1>1 DEF Inv, ClaimExclusive
<1>3. \A r, q \in Selectors :
        Publishing(r)' /\ Publishing(q)' /\ scell'[r] = scell'[q] => r = q
  BY <1>1 DEF Inv, ClaimExclusive
<1>4. ASSUME NEW r \in Selectors, Publishing(r)'
      PROVE  /\ word'[scell'[r]].phase = "Claim"
             /\ spc'[r] = "observed" => word'[scell'[r]] = sclaim'[r] /\ word'[scell'[r]].permit
             /\ spc'[r] # "observed" => with_permit(word'[scell'[r]], FALSE) = sclaim'[r]
  <2>1. /\ Publishing(r) /\ scell'[r] = scell[r] /\ word' = word
        /\ word[scell[r]].phase = "Claim"
        /\ spc[r] = "observed" => word[scell[r]] = sclaim[r] /\ word[scell[r]].permit
        /\ spc[r] # "observed" => with_permit(word[scell[r]], FALSE) = sclaim[r]
    BY <1>1, <1>4 DEF Inv, ClaimExclusive
  <2>2. CASE r = s
    BY <2>1, <2>2
  <2>3. CASE r # s
    <3>1. spc'[r] = spc[r] /\ sclaim'[r] = sclaim[r]
      BY <2>3
    <3>. QED
      BY <2>1, <3>1
  <2>. QED
    BY <2>2, <2>3
<1>. QED
  BY <1>2, <1>3, <1>4 DEF ClaimExclusive

\* A selector that routes and publishes what it claimed.
LEMMA RouteStepInv ==
  ASSUME Inv, NEW s \in Selectors, RouteStep(s)
  PROVE  Inv'
<1>. DEFINE c == scell[s]
<1>1. TypeOK
  BY DEF Inv
<1>2. Publishing(s) =>
        /\ c \in Cells /\ word[c] \in Word /\ word[c].phase = "Claim"
        /\ sclaim[s] \in Word /\ sclaim[s].phase = "Claim"
        /\ sclaim[s].gen = word[c].gen /\ sclaim[s].hub = word[c].hub
        /\ sclaim[s].cause = word[c].cause /\ word[c].cause \in Causes
        /\ spc[s] # "observed" /\ word[c] # sclaim[s] => word[c].permit
  BY PublisherWord
<1>3. CASE enqueue_selected(s)
  <2>1. Publishing(s)
    BY <1>3 DEF enqueue_selected, Publishing
  <2>2. boundTask[c] \in Tasks
    BY <1>2, <2>1 DEF Inv, OwnedTarget
  <2>. DEFINE n == [task |-> boundTask[c], cell |-> c, gen |-> sclaim[s].gen,
                    cause |-> sclaim[s].cause]
  <2>3. n \in Notice
    BY <1>2, <2>1, <2>2 DEF Notice, Word
  <2>4. /\ inbox' \in [Hubs -> SUBSET Notice] /\ local' \in [Hubs -> SUBSET Notice]
        /\ spc' = [spc EXCEPT ![s] = "publish"]
        /\ UNCHANGED <<cellVars, taskVars, scell, sclaim, shub, deferred, recheck,
                       signalled, aborting, busy>>
    <3>. HIDE DEF n
    <3>. QED
      BY <1>1, <1>3, <2>3 DEF enqueue_selected, TypeOK, n
  <2>5. TypeOK'
    BY <1>1, <2>4 DEF TypeOK, cellVars, taskVars, SelPcs
  <2>6. \A r \in Selectors : (Publishing(r)' <=> Publishing(r)) /\
                             (spc'[r] = "observed" <=> spc[r] = "observed") /\
                             (spc'[r] = "idle" <=> spc[r] = "idle")
    BY <1>1, <1>3, <2>4 DEF TypeOK, Publishing, enqueue_selected
  <2>7. SelectorShape' /\ ClaimExclusive'
    <3>1. SelectorShape'
      BY <2>4, <2>6 DEF Inv, SelectorShape
    <3>2. \A r \in Selectors : r # s =>
            spc'[r] = spc[r] /\ scell'[r] = scell[r] /\ sclaim'[r] = sclaim[r]
      BY <1>1, <2>4 DEF TypeOK
    <3>3. /\ Publishing(s)' /\ scell'[s] = scell[s] /\ spc'[s] # "observed"
          /\ with_permit(word[scell[s]], FALSE) = sclaim'[s]
      BY <1>1, <1>3, <2>1, <2>4, <2>6 DEF TypeOK, Inv, ClaimExclusive, enqueue_selected
    <3>4. ClaimExclusive'
      BY <2>1, <2>4, <3>2, <3>3, PublisherFrame DEF cellVars
    <3>. QED
      BY <3>1, <3>4
  <2>8. /\ CallShape' /\ ObservedWord' /\ ProbedTarget' /\ BindingExclusive'
        /\ OneBinder' /\ OwnedGeneration' /\ OwnedTarget' /\ WokenSelected'
    BY <1>1, <2>4, SelectorFrame DEF TypeOK, cellVars, taskVars
  <2>. QED
    BY <2>5, <2>7, <2>8 DEF Inv
<1>4. CASE PublishClaim(s)
  <2>1. Publishing(s) /\ spc[s] # "idle"
    BY <1>4 DEF PublishClaim, Publishing
  <2>2. /\ publish_claim(sclaim[s]) \in Word
        /\ publish_claim(sclaim[s]).phase = "Selected"
        /\ publish_claim(sclaim[s]).gen = word[c].gen
        /\ publish_claim(sclaim[s]).hub = word[c].hub
        /\ initial \in Word
    BY <1>2, <2>1, WordOps, WordFields
  <2>3. busy' \in [Hubs -> Tasks \cup Selectors \cup {Free}]
    BY <1>4, <2>1, CarrierFrame DEF PublishClaim
  <2>4. TypeOK'
    BY <1>1, <1>4, <2>2, <2>3 DEF TypeOK, PublishClaim, Done, taskVars, kernelVars, SelPcs
  <2>5. /\ spc'[s] = "idle" /\ ~Publishing(s)'
        /\ \A r \in Selectors : r # s =>
             spc'[r] = spc[r] /\ scell'[r] = scell[r] /\ sclaim'[r] = sclaim[r]
    BY <1>1, <1>4 DEF TypeOK, PublishClaim, Done, Publishing
  <2>. QED
    BY <1>4, <2>1, <2>2, <2>4, <2>5, PublishInv DEF PublishClaim, taskVars
<1>5. CASE ObserveInterest(s)
  <2>1. Publishing(s) /\ spc[s] # "observed" /\ spc[s] # "idle"
    BY <1>5 DEF ObserveInterest, Publishing
  <2>2. target_hub(c, word[c]) \in Hubs \cup {None}
    BY <1>1, <1>2, <2>1 DEF TypeOK, target_hub
  <2>3. /\ spc' = [spc EXCEPT ![s] = "observed"] /\ sclaim' = [sclaim EXCEPT ![s] = word[c]]
        /\ word[c] # sclaim[s]
        /\ UNCHANGED <<cellVars, taskVars, scell, kernelVars, busy>>
    BY <1>5 DEF ObserveInterest
  <2>4. TypeOK'
    BY <1>1, <1>2, <1>5, <2>1, <2>2
       DEF TypeOK, ObserveInterest, cellVars, taskVars, kernelVars, SelPcs
  <2>5. \A r \in Selectors : r # s =>
          spc'[r] = spc[r] /\ sclaim'[r] = sclaim[r] /\ (Publishing(r)' <=> Publishing(r))
    BY <1>1, <2>3 DEF TypeOK, Publishing
  <2>6. Publishing(s)' /\ spc'[s] = "observed" /\ sclaim'[s] = word[c]
    BY <1>1, <2>3 DEF TypeOK, Publishing
  <2>7. SelectorShape'
    BY <1>2, <2>1, <2>3, <2>5, <2>6 DEF Inv, SelectorShape
  <2>8. ClaimExclusive'
    BY <1>2, <2>1, <2>3, <2>5, <2>6, PublisherFrame DEF cellVars
  <2>9. /\ CallShape' /\ ObservedWord' /\ ProbedTarget' /\ BindingExclusive'
        /\ OneBinder' /\ OwnedGeneration' /\ OwnedTarget' /\ WokenSelected'
    BY <1>1, <2>3, SelectorFrame DEF TypeOK, cellVars, taskVars
  <2>. QED
    BY <2>4, <2>7, <2>8, <2>9 DEF Inv
<1>6. CASE PublishObserved(s)
  <2>1. Publishing(s)
    BY <1>6 DEF PublishObserved, Publishing
  <2>2. /\ publish_observed_claim(sclaim[s]) \in Word
        /\ publish_observed_claim(sclaim[s]).phase = "Selected"
        /\ publish_observed_claim(sclaim[s]).gen = word[c].gen
        /\ publish_observed_claim(sclaim[s]).hub = word[c].hub
    BY <1>2, <2>1, WordOps, WordFields
  <2>3. TypeOK'
    BY <1>1, <1>6, <2>2 DEF TypeOK, PublishObserved, taskVars, kernelVars, SelPcs
  <2>4. /\ ~Publishing(s)'
        /\ \A r \in Selectors : r # s =>
             spc'[r] = spc[r] /\ scell'[r] = scell[r] /\ sclaim'[r] = sclaim[r]
    BY <1>1, <1>6 DEF TypeOK, PublishObserved, Publishing
  <2>. QED
    BY <1>6, <2>1, <2>2, <2>3, <2>4, PublishInv DEF PublishObserved, taskVars
<1>7. CASE publication_complete(s)
  <2>1. /\ spc[s] = "signal" /\ Done(s) /\ Vacate(s)
        /\ UNCHANGED <<cellVars, taskVars, inbox, local, deferred, recheck, aborting>>
    BY <1>7 DEF publication_complete
  <2>2. /\ busy' \in [Hubs -> Tasks \cup Selectors \cup {Free}]
        /\ \A t \in Tasks : (busy'[HubOf[t]] = t) <=> (busy[HubOf[t]] = t)
        /\ \A r \in Selectors : r # s /\ CarrierOf[r] # Outside /\ spc[r] # "idle" =>
             busy'[CarrierOf[r]] = r
    BY <2>1, CarrierFrame
  <2>3. initial \in Word
    BY <1>1, WordOps DEF TypeOK
  <2>4. TypeOK'
    <3>1. signalled' \in [Hubs -> BOOLEAN]
      BY <1>1, <1>7 DEF TypeOK, publication_complete
    <3>2. /\ spc' \in [Selectors -> SelPcs] /\ scell' \in [Selectors -> Cells \cup {None}]
          /\ sclaim' \in [Selectors -> Word] /\ shub' \in [Selectors -> Hubs \cup {None}]
      BY <1>1, <2>1, <2>3 DEF TypeOK, Done, SelPcs
    <3>. QED
      BY <1>1, <2>1, <2>2, <3>1, <3>2 DEF TypeOK, cellVars, taskVars
  <2>5. /\ spc'[s] = "idle" /\ ~Publishing(s)' /\ ~Publishing(s)
        /\ \A r \in Selectors : r # s =>
             spc'[r] = spc[r] /\ scell'[r] = scell[r] /\ sclaim'[r] = sclaim[r]
    BY <1>1, <2>1 DEF TypeOK, Done, Publishing
  <2>6. SelectorShape'
    <3>. SUFFICES ASSUME NEW r \in Selectors
                  PROVE  /\ Publishing(r)' => scell'[r] \in Cells /\ sclaim'[r].cause \in Causes
                         /\ spc'[r] # "idle" /\ CarrierOf[r] # Outside => busy'[CarrierOf[r]] = r
      BY DEF SelectorShape
    <3>1. CASE r = s
      BY <2>5, <3>1
    <3>2. CASE r # s
      BY <2>2, <2>5, <3>2 DEF Inv, SelectorShape, Publishing
    <3>. QED
      BY <3>1, <3>2
  <2>7. ClaimExclusive'
    <3>1. UNCHANGED word
      BY <2>1 DEF cellVars
    <3>. QED
      BY <2>5, <3>1, PublisherFrame
  <2>8. /\ CallShape' /\ ObservedWord' /\ ProbedTarget' /\ BindingExclusive'
        /\ OneBinder' /\ OwnedGeneration' /\ OwnedTarget' /\ WokenSelected'
    BY <1>1, <2>1, <2>2, SelectorFrame DEF TypeOK, cellVars, taskVars
  <2>. QED
    BY <2>4, <2>6, <2>7, <2>8 DEF Inv
<1>. QED
  BY <1>3, <1>4, <1>5, <1>6, <1>7 DEF RouteStep

-----------------------------------------------------------------------------
(* The theorems. *)

\* The initial state satisfies the inductive invariant.
LEMMA InitInv == Init => Inv
<1>. SUFFICES ASSUME Init PROVE Inv
  OBVIOUS
<1>1. initial \in Word /\ initial.phase = "Idle"
  BY WaitCellAssumption
     DEF initial, Word, Phases, Causes, Resources, WaitCellAssumption
<1>2. TypeOK
  BY <1>1, WaitCellAssumption DEF Init, TypeOK, TaskPcs, SelPcs, WaitCellAssumption
<1>3. /\ \A t \in Tasks : tpc[t] = "out"
      /\ \A s \in Selectors : spc[s] = "idle"
      /\ \A c \in Cells : word[c].phase = "Idle"
  BY <1>1 DEF Init
<1>4. CallShape /\ SelectorShape /\ ObservedWord /\ ProbedTarget
  BY <1>3 DEF CallShape, SelectorShape, ObservedWord, ProbedTarget, Publishing
<1>5. BindingExclusive /\ OneBinder
  BY <1>3 DEF BindingExclusive, OneBinder
<1>6. OwnedGeneration /\ OwnedTarget /\ WokenSelected
  BY <1>3 DEF OwnedGeneration, OwnedTarget, WokenSelected, Waiting, Woken
<1>7. ClaimExclusive
  BY <1>3 DEF ClaimExclusive, Publishing
<1>. QED
  BY <1>2, <1>4, <1>5, <1>6, <1>7 DEF Inv

\* Every step of a task keeps the inductive invariant.
LEMMA TaskStepInv ==
  ASSUME Inv, NEW t \in Tasks, TaskStep(t)
  PROVE  Inv'
BY BeginLoadInv, BeginReturnInv, BeginTakePermitInv, BeginProbeInv, BeginActivateInv,
   BeginBindingInv, BeginRetryInv, bind_targetInv, BeginPublishInv, FailRegistrationInv,
   park_taskInv, finishInv, try_rollbackInv, reparkInv DEF TaskStep

\* The exclusive-ownership invariant holds in every reachable state.
THEOREM Ownership == Spec => []Inv
<1>1. Init => Inv
  BY InitInv
<1>2. Inv /\ [Next]_vars => Inv'
  <2>. SUFFICES ASSUME Inv, [Next]_vars PROVE Inv'
    OBVIOUS
  <2>1. CASE Next
    BY <2>1, TaskStepInv, KernelStepInv, abortInv, defer_abortInv, SelectStepInv,
       RouteStepInv, ResidentStepInv DEF Next, AbortStep
  <2>2. CASE UNCHANGED vars
    <3>1. TypeOK'
      BY <2>2 DEF Inv, TypeOK, vars, cellVars, taskVars, selVars, kernelVars
    <3>. QED
      BY <2>2, <3>1, QuietInv DEF vars
  <2>. QED
    BY <2>1, <2>2
<1>. QED
  BY <1>1, <1>2, PTL DEF Spec

\* Types are kept; in particular no generation exceeds MAX_GENERATION.
THEOREM TypeCorrect == Spec => []TypeOK
<1>1. Inv => TypeOK
  BY DEF Inv
<1>. QED
  BY <1>1, Ownership, PTL

\* A claimed word has exactly one publisher, whose publication cannot fail:
\* the assertions of publish_observed_claim hold.
THEOREM ClaimsAreExclusive == Spec => []ClaimExclusive
<1>1. Inv => ClaimExclusive
  BY DEF Inv
<1>. QED
  BY <1>1, Ownership, PTL

\* The plain store that ends begin's binding overwrites nothing.
THEOREM BindingsAreExclusive == Spec => []BindingExclusive
<1>1. Inv => BindingExclusive
  BY DEF Inv
<1>. QED
  BY <1>1, Ownership, PTL

\* Active, claimed and selected generations have exactly one owning task.
THEOREM OneOwnerEach == Spec => []OneOwner
<1>1. Inv => OneOwner
  BY DEF Inv, OwnedTarget, OwnedGeneration, OneOwner, Owns
<1>. QED
  BY <1>1, Ownership, PTL

\* The target a publisher reads outside the word is the owner of its claim.
THEOREM ClaimsAreRoutedToTheirOwner == Spec => []RoutedToOwner
<1>1. ASSUME Inv PROVE RoutedToOwner
  <2>. SUFFICES ASSUME NEW s \in Selectors, Publishing(s)
                PROVE  /\ boundTask[scell[s]] \in Tasks
                       /\ Owns(boundTask[scell[s]], scell[s])
                       /\ target_hub(scell[s], sclaim[s]) = HubOf[boundTask[scell[s]]]
    BY DEF RoutedToOwner
  <2>1. /\ scell[s] \in Cells /\ word[scell[s]].phase = "Claim"
        /\ sclaim[s].hub = word[scell[s]].hub
    BY <1>1, PublisherWord
  <2>. QED
    BY <1>1, <2>1 DEF Inv, OwnedTarget, target_hub
<1>. QED
  BY <1>1, Ownership, PTL

-----------------------------------------------------------------------------
(* The permit bit. *)

\* A word that is not claimed keeps its permit with the stored permit.
Settles(w, st) == IF w.phase = "Claim" THEN ~st ELSE w.permit = st

\* Only the changed cell matters.
LEMMA PermitAt ==
  ASSUME PermitInv, TypeOK, NEW c \in Cells, NEW w, NEW st, Settles(w, st),
         word' = [word EXCEPT ![c] = w], stored' = [stored EXCEPT ![c] = st]
  PROVE  PermitInv'
<1>1. \A d \in Cells : /\ word'[d] = IF d = c THEN w ELSE word[d]
                       /\ stored'[d] = IF d = c THEN st ELSE stored[d]
  BY DEF TypeOK
<1>. QED
  BY <1>1 DEF PermitInv, Settles

\* The permit bits of the words that are not claimed, and the claims, stay.
LEMMA PermitFrame ==
  ASSUME PermitInv, stored' = stored,
         \A d \in Cells :
           /\ word'[d].phase = "Claim" <=> word[d].phase = "Claim"
           /\ word[d].phase # "Claim" => word'[d].permit = word[d].permit
  PROVE  PermitInv'
BY DEF PermitInv

\* Retirement keeps the permit bit and touches no claim but by owner interest.
LEMMA RetirePermit ==
  ASSUME Inv, PermitInv, NEW R \in SUBSET Tasks, \A t \in R : Waiting(t), try_retire(R),
         stored' = stored
  PROVE  PermitInv'
<1>1. ASSUME NEW d \in Cells
      PROVE  /\ word'[d].phase = "Claim" <=> word[d].phase = "Claim"
             /\ word[d].phase # "Claim" => word'[d].permit = word[d].permit
  <2>1. word[d] \in Word
    BY DEF Inv, TypeOK
  <2>2. /\ retire(word[d]).phase = "Idle" /\ retire(word[d]).permit = word[d].permit
        /\ with_permit(word[d], TRUE).phase = word[d].phase
    BY <2>1 DEF retire, with_permit, Word
  <2>3. CASE \E t \in Retirable(R) : tcell[t] = d
    <3>1. word'[d] = retire(word[d]) /\ word[d].phase # "Claim"
      BY <2>3 DEF try_retire, Retirable, InFlight
    <3>. QED
      BY <2>2, <3>1
  <2>4. CASE /\ ~\E t \in Retirable(R) : tcell[t] = d
             /\ \E t \in R : tcell[t] = d /\ InFlight(t)
    <3>1. word'[d] = with_permit(word[d], TRUE) /\ word[d].phase = "Claim"
      BY <2>4 DEF try_retire, InFlight
    <3>. QED
      BY <2>2, <3>1
  <2>5. CASE /\ ~\E t \in Retirable(R) : tcell[t] = d
             /\ ~\E t \in R : tcell[t] = d /\ InFlight(t)
    BY <2>5 DEF try_retire
  <2>. QED
    BY <2>3, <2>4, <2>5
<1>. QED
  BY <1>1, PermitFrame

\* begin consumes the stored permit, activation and binding carry it along,
\* and finish leaves it.
LEMMA TaskPermit ==
  ASSUME Inv, PermitInv, NEW t \in Tasks, TaskStep(t)
  PROVE  PermitInv'
<1>. DEFINE c == tcell[t]
            w == tword[t]
<1>1. TypeOK /\ tword[t] \in Word
  BY DEF Inv, TypeOK
<1>2. CASE UNCHANGED <<word, stored>>
  BY <1>2, PermitFrame
<1>3. CASE BeginTakePermit(t)
  <2>1. /\ c \in Cells /\ word' = [word EXCEPT ![c] = with_permit(w, FALSE)]
        /\ stored' = [stored EXCEPT ![c] = FALSE] /\ w.phase = "Idle"
    BY <1>3 DEF BeginTakePermit, Inv, CallShape, Parkable
  <2>2. with_permit(w, FALSE).phase = "Idle" /\ ~with_permit(w, FALSE).permit
    BY <1>1, <2>1 DEF with_permit, Word
  <2>3. Settles(with_permit(w, FALSE), FALSE)
    BY <2>2 DEF Settles, with_permit
  <2>. QED
    BY <1>1, <2>1, <2>3, PermitAt
<1>4. \A hub : /\ activated(w, hub).phase = "Active" /\ activated(w, hub).permit = w.permit
  BY <1>1, WordFields
<1>5. binding(w).phase = "Binding" /\ binding(w).permit = w.permit
  BY <1>1 DEF binding, Word
<1>6. CASE BeginActivate(t)
  <2>1. /\ c \in Cells /\ word' = [word EXCEPT ![c] = activated(w, thub[t])]
        /\ word[c] = w /\ w.phase = "Idle" /\ stored' = stored
    BY <1>6 DEF BeginActivate, Inv, CallShape, Parkable
  <2>. QED
    BY <1>1, <1>4, <2>1, PermitFrame DEF TypeOK
<1>7. CASE BeginBinding(t)
  <2>1. /\ c \in Cells /\ word' = [word EXCEPT ![c] = binding(w)]
        /\ word[c] = w /\ w.phase = "Idle" /\ stored' = stored
    BY <1>7 DEF BeginBinding, Inv, CallShape, Parkable
  <2>. QED
    BY <1>1, <1>5, <2>1, PermitFrame DEF TypeOK
<1>8. CASE BeginPublish(t)
  <2>1. /\ c \in Cells /\ word' = [word EXCEPT ![c] = activated(w, thub[t])]
        /\ word[c] = binding(w) /\ stored' = stored
    BY <1>8 DEF BeginPublish, Inv, CallShape, BindingExclusive
  <2>. QED
    BY <1>1, <1>4, <1>5, <2>1, PermitFrame DEF TypeOK
<1>9. ASSUME NEW clear \in BOOLEAN, finish(t, clear) PROVE PermitInv'
  <2>. DEFINE v == word[c]
              z == IF clear /\ v.cause = "Ready" THEN [v EXCEPT !.resource = "none"] ELSE v
  <2>1. /\ c \in Cells /\ v \in Word /\ v.phase = "Selected" /\ v.gen = tgen[t]
        /\ stored' = stored
    BY <1>9 DEF Inv, TypeOK, CallShape, WokenSelected, Woken, finish
  <2>2. word' = [word EXCEPT ![c] = retire(z)]
    BY <1>9, <2>1 DEF finish
  <2>3. z \in Word /\ z.permit = v.permit
    BY <2>1 DEF Word, Resources
  <2>. HIDE DEF z
  <2>4. retire(z).phase = "Idle" /\ retire(z).permit = v.permit
    BY <2>3 DEF retire, Word
  <2>. QED
    BY <1>1, <2>1, <2>2, <2>4, PermitFrame DEF TypeOK
<1>10. CASE try_rollback(t) \/ repark(t)
  <2>1. try_retire({t}) /\ Waiting(t) /\ stored' = stored
    BY <1>10 DEF try_rollback, repark, Waiting
  <2>. DEFINE R == {t}
  <2>2. R \in SUBSET Tasks /\ (\A u \in R : Waiting(u)) /\ try_retire(R)
    BY <2>1
  <2>. HIDE DEF R
  <2>. QED
    BY <2>1, <2>2, RetirePermit
<1>11. TaskStep(t) =>
         \/ UNCHANGED <<word, stored>> \/ BeginTakePermit(t) \/ BeginActivate(t)
         \/ BeginBinding(t) \/ BeginPublish(t)
         \/ (\E clear \in BOOLEAN : finish(t, clear))
         \/ try_rollback(t) \/ repark(t)
  BY DEF TaskStep, BeginLoad, BeginReturn, BeginProbe, BeginRetry, bind_target,
         FailRegistration, park_task, cellVars
<1>. QED
  BY <1>2, <1>3, <1>6, <1>7, <1>8, <1>9, <1>10, <1>11

\* The kernel and its aborts leave stored permits alone: their interest goes
\* to claimed words only.
LEMMA KernelPermit ==
  ASSUME Inv, PermitInv,
         (\E h \in Hubs : KernelStep(h)) \/ (\E x \in Scopes : AbortStep(x))
  PROVE  PermitInv'
<1>1. ASSUME NEW h \in Hubs, NEW n \in Notice, NEW rest, process_wake(h, n, rest)
      PROVE  PermitInv'
  <2>1. /\ n.cell \in Cells /\ word[n.cell] \in Word /\ word \in [Cells -> Word]
        /\ stored' = stored
        /\ word' = IF MustDefer(n)
                   THEN [word EXCEPT ![n.cell] = with_permit(@, TRUE)] ELSE word
    BY <1>1 DEF Inv, TypeOK, Notice, process_wake
  <2>2. MustDefer(n) => word[n.cell].phase = "Claim"
    BY DEF MustDefer, publication
  <2>3. with_permit(word[n.cell], TRUE).phase = word[n.cell].phase
    BY <2>1, PermitFields
  <2>. QED
    BY <2>1, <2>2, <2>3, PermitFrame
<1>2. ASSUME NEW h \in Hubs, KernelStep(h) PROVE PermitInv'
  <2>1. CASE process_wakes(h)
    <3>1. PICK n \in local[h] \cup inbox[h] : process_wake(h, n, deferred[h])
      BY <2>1 DEF process_wakes
    <3>2. n \in Notice
      BY DEF Inv, TypeOK
    <3>. QED
      BY <1>1, <3>1, <3>2
  <2>2. CASE process_deferred_wakes(h)
    <3>1. PICK n \in recheck[h] : process_wake(h, n, deferred[h] \ {n})
      BY <2>2 DEF process_deferred_wakes
    <3>2. n \in Notice
      BY DEF Inv, TypeOK
    <3>. QED
      BY <1>1, <3>1, <3>2
  <2>3. CASE observe_signal(h)
    BY <2>3, PermitFrame DEF observe_signal, cellVars
  <2>. QED
    BY <1>2, <2>1, <2>2, <2>3 DEF KernelStep
<1>3. ASSUME NEW x \in Scopes, abort(x) PROVE PermitInv'
  <2>. DEFINE waits == {t \in Members(x) : Parked(t) \/ Woken(t)}
  <2>1. waits \in SUBSET Tasks /\ (\A t \in waits : Waiting(t)) /\ try_retire(waits)
        /\ stored' = stored
    BY <1>3 DEF Members, Parked, Woken, Waiting, abort
  <2>. HIDE DEF waits
  <2>. QED
    BY <2>1, RetirePermit
<1>4. ASSUME NEW x \in Scopes, defer_abort(x) PROVE PermitInv'
  <2>1. /\ ParkedIn(x) \in SUBSET Tasks /\ (\A t \in ParkedIn(x) : Waiting(t))
        /\ try_retire(ParkedIn(x)) /\ stored' = stored
    BY <1>4 DEF ParkedIn, Members, Parked, Waiting, defer_abort
  <2>. QED
    BY <2>1, RetirePermit
<1>. QED
  BY <1>2, <1>3, <1>4 DEF AbortStep

\* A claim takes a word without a permit; a mark or a cleanup changes the
\* stored permit together with the bit.
LEMMA SelectPermit ==
  ASSUME Inv, PermitInv, NEW s \in Selectors, SelectStep(s)
  PROVE  PermitInv'
<1>1. TypeOK /\ \A c \in Cells : /\ word[c] \in Word
                                 /\ word[c].phase = "Active" => ~word[c].permit /\ ~stored[c]
  BY DEF Inv, TypeOK, OwnedTarget, PermitInv
<1>2. ASSUME NEW c \in Cells, NEW w, word' = [word EXCEPT ![c] = w], NEW st,
             stored' = [stored EXCEPT ![c] = st], Settles(w, st)
      PROVE  PermitInv'
  BY <1>1, <1>2, PermitAt
<1>3. ASSUME NEW c \in Cells, NEW w, NEW next, Claim(s, c, w, next), w.phase = "Claim",
             word[c].phase = "Active", stored' = stored \/ stored' = [stored EXCEPT ![c] = FALSE]
      PROVE  PermitInv'
  <2>1. stored' = [stored EXCEPT ![c] = FALSE]
    BY <1>1, <1>3 DEF TypeOK
  <2>. QED
    BY <1>2, <1>3, <2>1 DEF Claim, Settles
<1>4. \A cause : \A c \in Cells : claimed(word[c], cause).phase = "Claim"
  BY <1>1, WordFields
<1>5. ASSUME NEW c \in Cells, notify(s, c) PROVE PermitInv'
  <2>1. /\ with_permit(word[c], TRUE).phase = word[c].phase
        /\ with_permit(word[c], TRUE).permit = TRUE
    BY <1>1 DEF with_permit, Word
  <2>2. CASE /\ selectable(word[c])
             /\ Claim(s, c, claimed(word[c], "Ready"), "routeLocal") /\ UNCHANGED stored
    BY <1>3, <1>4, <2>2 DEF selectable
  <2>3. CASE /\ markable(word[c]) /\ Mark(s, c, with_permit(word[c], TRUE))
             /\ stored' = [stored EXCEPT ![c] = TRUE]
    BY <1>2, <2>1, <2>3 DEF markable, Mark, Settles
  <2>. QED
    BY <1>5, <2>2, <2>3 DEF notify
<1>6. ASSUME NEW c \in Cells, cancel(s, c) PROVE PermitInv'
  BY <1>3, <1>4, <1>6 DEF cancel, selectable
<1>7. ASSUME NEW c \in Cells, close(s, c) PROVE PermitInv'
  <2>. DEFINE w == [word[c] EXCEPT !.closed = TRUE, !.permit = FALSE]
  <2>1. w \in Word /\ w.phase = word[c].phase /\ w.permit = FALSE
    BY <1>1 DEF Word
  <2>2. stored' = [stored EXCEPT ![c] = FALSE]
    BY <1>7 DEF close
  <2>3. \/ word[c].phase = "Active" /\ Claim(s, c, claimed(w, "Closed"), "route")
        \/ word[c].phase \in {"Idle", "Selected"} /\ Mark(s, c, w)
    BY <1>7 DEF close, selectable, markable
  <2>. HIDE DEF w
  <2>4. claimed(w, "Closed").phase = "Claim"
    BY <2>1, WordFields
  <2>. QED
    BY <1>2, <1>3, <2>1, <2>2, <2>3, <2>4 DEF Mark, Settles
<1>8. ASSUME NEW c \in Cells, NEW g, NEW cause, select_generation(s, c, g, cause)
      PROVE  PermitInv'
  BY <1>3, <1>4, <1>8 DEF select_generation, selectable
<1>9. ASSUME NEW c \in Cells, NEW r \in Resources, claim_resource(s, c, r) PROVE PermitInv'
  <2>. DEFINE w == resource_offer(word[c], r)
  <2>1. ~word[c].permit /\ word[c].phase \in {"Idle", "Active"}
    BY <1>9 DEF claim_resource, resource_open
  <2>2. CASE word[c].phase = "Active"
    <3>1. Claim(s, c, w, "routeLocal") /\ stored' = stored
      BY <1>9, <2>2 DEF claim_resource
    <3>2. w.phase = "Claim"
      BY <1>1, <2>1, <2>2, OfferFields
    <3>. HIDE DEF w
    <3>. QED
      BY <1>3, <2>2, <3>1, <3>2
  <2>3. CASE word[c].phase = "Idle"
    <3>1. word' = [word EXCEPT ![c] = w] /\ stored' = [stored EXCEPT ![c] = TRUE]
      BY <1>9, <2>3 DEF claim_resource, Mark
    <3>2. w.phase = "Idle" /\ w.permit = TRUE
      BY <1>1, <2>3 DEF resource_offer, Word
    <3>. HIDE DEF w
    <3>. QED
      BY <1>2, <3>1, <3>2 DEF Settles
  <2>. QED
    BY <2>1, <2>2, <2>3
<1>10. ASSUME NEW t \in Tasks, expire_timers(s, t) PROVE PermitInv'
  <2>1. tcell[t] \in Cells
    BY <1>10 DEF expire_timers, Inv, CallShape
  <2>. QED
    BY <1>8, <1>10, <2>1 DEF expire_timers
<1>. QED
  BY <1>5, <1>6, <1>7, <1>8, <1>9, <1>10 DEF SelectStep

\* Publication gives the bit back; a cleanup between waits clears both.
LEMMA RoutePermit ==
  ASSUME Inv, PermitInv, NEW s \in Selectors, RouteStep(s)
  PROVE  PermitInv'
<1>. DEFINE c == scell[s]
<1>1. TypeOK
  BY DEF Inv
<1>2. ASSUME NEW w, c \in Cells, word' = [word EXCEPT ![c] = w], stored' = stored,
             ~stored[c], w.phase = "Selected", w.permit = FALSE
      PROVE  PermitInv'
  <2>1. stored' = [stored EXCEPT ![c] = FALSE] /\ Settles(w, FALSE)
    BY <1>1, <1>2 DEF TypeOK, Settles
  <2>. QED
    BY <1>1, <1>2, <2>1, PermitAt
<1>4. CASE UNCHANGED <<word, stored>>
  BY <1>4, PermitFrame
<1>3. CASE PublishClaim(s) \/ PublishObserved(s)
  <2>1. /\ c \in Cells /\ word[c].phase = "Claim" /\ sclaim[s] \in Word
        /\ word[c] = sclaim[s] /\ ~stored[c]
    BY <1>3, PublisherWord DEF PublishClaim, PublishObserved, Publishing, PermitInv
  <2>2. CASE PublishClaim(s)
    <3>1. with_permit(sclaim[s], FALSE) = sclaim[s]
      BY <2>1, <2>2 DEF PublishClaim, Inv, ClaimExclusive, Publishing
    <3>2. ~sclaim[s].permit
      <4>1. with_permit(sclaim[s], FALSE).permit = FALSE
        BY <2>1 DEF with_permit, Word
      <4>. QED
        BY <3>1, <4>1
    <3>3. publish_claim(sclaim[s]).phase = "Selected" /\ ~publish_claim(sclaim[s]).permit
      BY <2>1, <3>2 DEF publish_claim, Word
    <3>4. word' = [word EXCEPT ![c] = publish_claim(sclaim[s])] /\ stored' = stored
      BY <2>2 DEF PublishClaim
    <3>5. publish_claim(sclaim[s]).permit = FALSE
      BY <2>1, <3>2 DEF publish_claim, Word
    <3>. QED
      BY <2>1, <3>3, <3>4, <3>5, <1>2
  <2>3. CASE PublishObserved(s)
    <3>1. /\ publish_observed_claim(sclaim[s]).phase = "Selected"
          /\ publish_observed_claim(sclaim[s]).permit = FALSE
      BY <2>1 DEF publish_observed_claim, publish_claim, with_permit, Word
    <3>2. word' = [word EXCEPT ![c] = publish_observed_claim(sclaim[s])] /\ stored' = stored
      BY <2>3 DEF PublishObserved
    <3>. QED
      BY <2>1, <3>1, <3>2, <1>2
  <2>. QED
    BY <1>3, <2>2, <2>3
<1>. QED
  BY <1>3, <1>4 DEF RouteStep, enqueue_selected, ObserveInterest, publication_complete, cellVars

\* The resident cell's task clears the bit and the stored permit together.
LEMMA ResidentPermit ==
  ASSUME Inv, PermitInv, NEW t \in Tasks, NEW c \in Resident, ResidentStep(t, c)
  PROVE  PermitInv'
<1>1. TypeOK /\ c \in Cells /\ word[c] \in Word
  BY WaitCellAssumption DEF Inv, TypeOK, WaitCellAssumption
<1>2. CASE take_resource(t, c)
  <2>. DEFINE w == [word[c] EXCEPT !.resource = "none"]
  <2>1. w.phase = word[c].phase /\ w.permit = word[c].permit
    BY <1>1 DEF Word
  <2>2. word' = [word EXCEPT ![c] = w] /\ stored' = stored
    BY <1>2 DEF take_resource, SetIdleWord
  <2>. HIDE DEF w
  <2>. QED
    BY <1>1, <2>1, <2>2, PermitFrame DEF TypeOK
<1>3. CASE recycle(t, c)
  <2>. DEFINE w == [word[c] EXCEPT !.permit = FALSE, !.resource = "none"]
  <2>1. w.phase = "Idle" /\ w.permit = FALSE
    BY <1>1, <1>3 DEF Word, recycle
  <2>2. word' = [word EXCEPT ![c] = w] /\ stored' = [stored EXCEPT ![c] = FALSE]
    BY <1>3 DEF recycle, SetIdleWord
  <2>. HIDE DEF w
  <2>. QED
    BY <1>1, <2>1, <2>2, PermitAt DEF Settles
<1>4. CASE reset_closed_gate(t, c)
  <2>. DEFINE w == [word[c] EXCEPT !.closed = FALSE]
  <2>1. w.phase = word[c].phase /\ w.permit = word[c].permit
    BY <1>1 DEF Word
  <2>2. word' = [word EXCEPT ![c] = w] /\ stored' = stored
    BY <1>4 DEF reset_closed_gate, SetIdleWord
  <2>. HIDE DEF w
  <2>. QED
    BY <1>1, <2>1, <2>2, PermitFrame DEF TypeOK
<1>. QED
  BY <1>2, <1>3, <1>4 DEF ResidentStep

\* Outside a claim the permit bit of a word is exactly a stored permit: the
\* completion interest of the owner, which borrows the bit of a claim, is
\* never mistaken for a permit and never erases one.
THEOREM PermitStaysConserved == Spec => []PermitConserved
<1>1. Init => PermitInv
  <2>1. initial.phase = "Idle" /\ initial.permit = FALSE
    BY DEF initial
  <2>2. Init => \A c \in Cells : word[c] = initial /\ stored[c] = FALSE
    BY DEF Init
  <2>. QED
    BY <2>1, <2>2 DEF PermitInv
<1>2. Inv /\ PermitInv /\ [Next]_vars => PermitInv'
  <2>. SUFFICES ASSUME Inv, PermitInv, [Next]_vars PROVE PermitInv'
    OBVIOUS
  <2>1. CASE Next
    BY <2>1, TaskPermit, KernelPermit, SelectPermit, RoutePermit, ResidentPermit DEF Next
  <2>2. CASE UNCHANGED vars
    BY <2>2, PermitFrame DEF vars, cellVars
  <2>. QED
    BY <2>1, <2>2
<1>3. PermitInv => PermitConserved
  BY DEF PermitInv, PermitConserved
<1>. QED
  BY <1>1, <1>2, <1>3, Ownership, PTL DEF Spec

-----------------------------------------------------------------------------
(* The wake of a wait. *)

\* A pending wait in the terms of the variables it depends on.
LEMMA PendingFacts ==
  ASSUME Inv, NEW t \in Tasks, Pending(t)
  PROVE  /\ Waiting(t) /\ ~Woken(t) /\ tcell[t] \in Cells /\ tgen[t] = word[tcell[t]].gen
         /\ word[tcell[t]] \in Word /\ word[tcell[t]].phase \in {"Claim", "Selected"}
         /\ HubOf[t] \in Hubs /\ ~Gone(t)
         /\ \A u \in Tasks : Owns(u, tcell[t]) => u = t
         /\ boundTask[tcell[t]] = t
<1>1. Waiting(t) /\ tcell[t] \in Cells /\ tgen[t] = word[tcell[t]].gen /\ Owns(t, tcell[t])
      /\ word[tcell[t]].phase \in {"Claim", "Selected"}
  BY DEF Pending, Owns, Unwoken, Inv, CallShape, Waiting
<1>2. ~Woken(t)
  BY DEF Pending, Unwoken, Woken
<1>3. word[tcell[t]] \in Word /\ HubOf[t] \in Hubs
  BY <1>1, WaitCellAssumption DEF Inv, TypeOK, WaitCellAssumption
<1>4. \A u \in Tasks : Owns(u, tcell[t]) => u = t
  BY <1>1 DEF Inv, OwnedGeneration, Owns
<1>5. boundTask[tcell[t]] = t
  BY <1>1, <1>4 DEF Inv, OwnedTarget
<1>. QED
  BY <1>1, <1>2, <1>3, <1>4, <1>5 DEF Gone

\* What a carrier does with the notices of a wait that stays pending.
KeepsNotices(t) ==
  LET h == HubOf[t] IN
  \A n : Mine(t, n) =>
    /\ n \in inbox[h] \cup local[h] \cup recheck[h] =>
         \/ n \in inbox'[h] \cup local'[h] \cup recheck'[h]
         \/ n \in deferred'[h] /\ word[tcell[t]].phase = "Claim" /\ word'[tcell[t]].permit
    /\ n \in deferred[h] =>
         \/ n \in recheck'[h]
         \/ n \in deferred'[h] /\ (signalled[h] => signalled'[h])

\* Steps that win and publish nothing: the waits in D cease to be pending, and
\* no notice of theirs stays in an inbox; the others stay as they are.
LEMMA WakeFrame ==
  ASSUME Inv, WakeInv, NEW D \in SUBSET Tasks,
         UNCHANGED <<spc, scell, shub>>,
         \A u \in Tasks : Pending(u)' <=> Pending(u) /\ u \notin D,
         \A u \in Tasks : Pending(u) /\ u \notin D =>
           /\ tcell'[u] = tcell[u] /\ tgen'[u] = tgen[u]
           /\ word'[tcell[u]].phase = word[tcell[u]].phase
           /\ word[tcell[u]].phase = "Claim" /\ word[tcell[u]].permit => word'[tcell[u]].permit
           /\ KeepsNotices(u),
         \A d \in Cells :
           /\ word[d].gen \in Nat /\ word'[d].gen \in Nat /\ word[d].gen <= word'[d].gen
           /\ word'[d].gen = word[d].gen /\ word'[d].phase \in {"Active", "Binding"} =>
                word[d].phase \in {"Active", "Binding"},
         \A s \in Selectors : spc[s] = "observed" => boundTask'[scell[s]] = boundTask[scell[s]],
         \A h \in Hubs :
           /\ inbox'[h] \subseteq inbox[h] /\ \A n \in inbox'[h] : n.task \notin D
           /\ \A n \in Held(h)' : n \in Held(h) \/ (n \in inbox[h] /\ n \notin inbox'[h])
  PROVE  WakeInv'
<1>1. \A h \in Hubs : /\ \A n \in inbox[h] \cup Held(h) : n \in Notice
                      /\ \A n \in inbox[h] \cup Held(h) :
                           n.cell \in Cells /\ n.task \in Tasks /\ n.gen \in Nat
  BY WaitCellAssumption DEF Inv, TypeOK, Held, Notice, WaitCellAssumption
<1>2. \A d : Routing(d)' <=> Routing(d)
  BY DEF Routing
<1>3. ASSUME NEW n, n.cell \in Cells, n.gen \in Nat, Sent(n)
      PROVE  Sent(n)'
  <2>1. n.gen <= word[n.cell].gen
    BY <1>3 DEF Sent
  <2>2. n.gen <= word'[n.cell].gen
    BY <1>3, <2>1
  <2>3. n.gen = word'[n.cell].gen => word'[n.cell].gen = word[n.cell].gen
    BY <1>3, <2>1
  <2>. QED
    BY <1>2, <1>3, <2>2, <2>3 DEF Sent
<1>4. WakeUnderway'
  <2>. SUFFICES ASSUME NEW u \in Tasks, Pending(u)'
                PROVE  LET h == HubOf[u] IN
                       \/ Routing(tcell[u])'
                       \/ \E n \in inbox'[h] \cup local'[h] \cup recheck'[h] : Mine(u, n)'
                       \/ (\E n \in deferred'[h] : Mine(u, n)') /\ Revisited(u)'
    BY DEF WakeUnderway
  <2>. DEFINE h == HubOf[u]
  <2>1. /\ Pending(u) /\ u \notin D /\ tcell'[u] = tcell[u] /\ tgen'[u] = tgen[u]
        /\ KeepsNotices(u)
        /\ word'[tcell[u]].phase = word[tcell[u]].phase
        /\ word[tcell[u]].phase = "Claim" /\ word[tcell[u]].permit => word'[tcell[u]].permit
    OBVIOUS
  <2>2. \A n : Mine(u, n)' <=> Mine(u, n)
    BY <2>1 DEF Mine
  <2>3. CASE Routing(tcell[u])
    BY <2>1, <2>3 DEF Routing
  <2>4. CASE \E n \in inbox[h] \cup local[h] \cup recheck[h] : Mine(u, n)
    <3>1. PICK n \in inbox[h] \cup local[h] \cup recheck[h] : Mine(u, n)
      BY <2>4
    <3>2. CASE n \in inbox'[h] \cup local'[h] \cup recheck'[h]
      BY <2>2, <3>1, <3>2
    <3>3. CASE n \in deferred'[h] /\ word[tcell[u]].phase = "Claim" /\ word'[tcell[u]].permit
      BY <2>1, <2>2, <3>1, <3>3 DEF Revisited
    <3>. QED
      BY <2>1, <3>1, <3>2, <3>3 DEF KeepsNotices
  <2>5. CASE (\E n \in deferred[h] : Mine(u, n)) /\ Revisited(u)
    <3>1. PICK n \in deferred[h] : Mine(u, n)
      BY <2>5
    <3>2. CASE n \in recheck'[h]
      BY <2>2, <3>1, <3>2
    <3>3. CASE n \in deferred'[h] /\ (signalled[h] => signalled'[h])
      <4>1. Revisited(u)'
        BY <2>1, <2>5, <3>3 DEF Revisited
      <4>. QED
        BY <2>2, <3>1, <3>3, <4>1
    <3>. QED
      BY <2>1, <3>1, <3>2, <3>3 DEF KeepsNotices
  <2>. QED
    BY <2>1, <2>3, <2>4, <2>5 DEF WakeInv, WakeUnderway
<1>5. HeldSent'
  BY <1>1, <1>3 DEF WakeInv, HeldSent, InboxCurrent
<1>6. InboxCurrent'
  <2>. SUFFICES ASSUME NEW h \in Hubs, NEW n \in inbox'[h]
                PROVE  /\ HubOf[n.task] = h
                       /\ Pending(n.task)' /\ Mine(n.task, n)'
                       /\ Sent(n)'
                       /\ \A m \in inbox'[h] : m.task = n.task => m = n
                       /\ \A m \in Held(h)' : ~SameWait(m, n)
    BY DEF InboxCurrent, SameWait
  <2>1. /\ n \in inbox[h] /\ n.task \notin D /\ n.task \in Tasks /\ n.cell \in Cells /\ n.gen \in Nat
        /\ HubOf[n.task] = h /\ Pending(n.task) /\ Mine(n.task, n) /\ Sent(n)
        /\ \A m \in inbox[h] : m.task = n.task => m = n
        /\ \A m \in Held(h) : ~SameWait(m, n)
    BY <1>1 DEF WakeInv, InboxCurrent
  <2>2. Pending(n.task)' /\ Mine(n.task, n)'
    BY <2>1 DEF Mine
  <2>3. \A m \in Held(h)' : ~SameWait(m, n)
    BY <2>1 DEF SameWait
  <2>. QED
    BY <1>3, <2>1, <2>2, <2>3
<1>7. ObservedHub'
  BY DEF WakeInv, ObservedHub
<1>. QED
  BY <1>4, <1>5, <1>6, <1>7 DEF WakeInv

\* Steps of one park call that touch neither a won wait nor a queue.
LEMMA CallFrame ==
  ASSUME Inv, WakeInv, TypeOK', NEW t \in Tasks,
         UNCHANGED <<spc, scell, shub, kernelVars>>,
         \A u \in Tasks : u # t =>
           /\ tpc'[u] = tpc[u] /\ tcell'[u] = tcell[u] /\ tgen'[u] = tgen[u]
           /\ (busy'[HubOf[u]] = u) <=> (busy[HubOf[u]] = u),
         \/ /\ Unwoken(t)' <=> Unwoken(t)
            /\ Unwoken(t) => tcell'[t] = tcell[t] /\ tgen'[t] = tgen[t]
         \/ ~Unwoken(t) /\ word'[tcell'[t]].phase \notin {"Claim", "Selected"},
         \A d \in Cells :
           \/ word'[d] = word[d]
           \/ /\ word[d].phase \notin {"Claim", "Selected"}
              /\ word'[d].phase \notin {"Claim", "Selected"}
              /\ word[d].gen <= word'[d].gen
              /\ word'[d].gen = word[d].gen /\ word'[d].phase \in {"Active", "Binding"} =>
                   word[d].phase \in {"Active", "Binding"},
         \A s \in Selectors : spc[s] = "observed" => boundTask'[scell[s]] = boundTask[scell[s]]
  PROVE  WakeInv'
<1>. DEFINE Stays(u) == /\ Unwoken(u)' <=> Unwoken(u)
                        /\ Unwoken(u) => tcell'[u] = tcell[u] /\ tgen'[u] = tgen[u]
<1>0. \A u \in Tasks : u # t => Stays(u)
  BY DEF Unwoken
<1>1. \A u \in Tasks : Stays(u) =>
                       /\ Unwoken(u)' <=> Unwoken(u)
                       /\ Unwoken(u) => /\ tcell'[u] = tcell[u] /\ tgen'[u] = tgen[u]
                                        /\ tcell[u] \in Cells /\ Waiting(u) /\ Waiting(u)'
  BY DEF Unwoken, Waiting, Inv, CallShape
<1>8. ASSUME NEW u \in Tasks, ~Stays(u)
      PROVE  ~Pending(u)' /\ ~Pending(u)
  BY <1>0, <1>8 DEF Pending
<1>9. ASSUME NEW u \in Tasks, Stays(u) PROVE Pending(u)' <=> Pending(u)
  <2>1. Unwoken(u) => (Owns(u, tcell[u])' <=> tgen[u] = word'[tcell[u]].gen)
                      /\ (Owns(u, tcell[u]) <=> tgen[u] = word[tcell[u]].gen)
    BY <1>1, <1>9 DEF Owns
  <2>2. Unwoken(u) => \/ word'[tcell[u]] = word[tcell[u]]
                      \/ /\ word[tcell[u]].phase \notin {"Claim", "Selected"}
                         /\ word'[tcell[u]].phase \notin {"Claim", "Selected"}
    BY <1>1, <1>9
  <2>. QED
    BY <1>1, <1>9, <2>1, <2>2 DEF Pending
<1>2. \A u \in Tasks : Pending(u)' <=> Pending(u)
  <2>. HIDE DEF Stays
  <2>. QED
    BY <1>8, <1>9
<1>3. \A u \in Tasks : Pending(u) =>
        word'[tcell[u]] = word[tcell[u]] /\ tcell'[u] = tcell[u] /\ tgen'[u] = tgen[u]
  <2>. SUFFICES ASSUME NEW u \in Tasks, Pending(u)
                PROVE  word'[tcell[u]] = word[tcell[u]] /\ tcell'[u] = tcell[u] /\ tgen'[u] = tgen[u]
    OBVIOUS
  <2>1. Stays(u)
    BY <1>8
  <2>. QED
    BY <1>1, <2>1 DEF Pending
<1>4. \A u \in Tasks : KeepsNotices(u)
  BY DEF KeepsNotices, kernelVars
<1>5. \A d \in Cells : /\ word[d].gen \in Nat /\ word'[d].gen \in Nat /\ word[d].gen <= word'[d].gen
                       /\ word'[d].gen = word[d].gen /\ word'[d].phase \in {"Active", "Binding"} =>
                            word[d].phase \in {"Active", "Binding"}
  <2>1. \A d \in Cells : word[d] \in Word /\ word'[d] \in Word
    BY DEF Inv, TypeOK
  <2>2. \A d \in Cells : word[d].gen \in Nat /\ word'[d].gen \in Nat
    BY <2>1, WaitCellAssumption DEF Word, WaitCellAssumption
  <2>. QED
    BY <2>2
<1>6. \A h \in Hubs : inbox'[h] = inbox[h] /\ Held(h)' = Held(h)
  BY DEF Held, kernelVars
<1>. DEFINE D == {}
<1>7. D \in SUBSET Tasks /\ \A u : u \notin D
  OBVIOUS
<1>. HIDE DEF D
<1>. QED
  BY <1>2, <1>3, <1>4, <1>5, <1>6, <1>7, WakeFrame DEF kernelVars

\* A call that has not registered, or parks what it registered.
LEMMA CallWake ==
  ASSUME Inv, WakeInv, TypeOK', NEW t \in Tasks,
         \/ \E c \in Cells : BeginLoad(t, c)
         \/ BeginReturn(t) \/ BeginProbe(t) \/ BeginRetry(t)
         \/ bind_target(t) \/ FailRegistration(t) \/ park_task(t)
  PROVE  WakeInv'
<1>1. TypeOK /\ HubOf \in [Tasks -> Hubs] /\ Free \notin Tasks
  BY WaitCellAssumption DEF Inv, WaitCellAssumption
<1>2. ASSUME NEW c \in Cells, BeginLoad(t, c) PROVE WakeInv'
  <2>1. UNCHANGED <<word, boundTask, spc, scell, shub, kernelVars>>
    BY <1>2 DEF BeginLoad, cellVars, selVars
  <2>2. busy[HubOf[t]] = Free
    BY <1>2 DEF BeginLoad, Mountable, Settled, KernelRuns
  <2>3. \A u \in Tasks : u # t =>
          /\ tpc'[u] = tpc[u] /\ tcell'[u] = tcell[u] /\ tgen'[u] = tgen[u]
          /\ (busy'[HubOf[u]] = u) <=> (busy[HubOf[u]] = u)
    BY <1>1, <1>2, <2>2 DEF BeginLoad, TypeOK
  <2>4. ~Unwoken(t) /\ ~Unwoken(t)'
    BY <1>1, <1>2 DEF BeginLoad, Unwoken, TypeOK
  <2>. QED
    BY <2>1, <2>3, <2>4, CallFrame
<1>3. CASE BeginReturn(t)
  <2>1. UNCHANGED <<word, boundTask, spc, scell, shub, kernelVars>>
    BY <1>3 DEF BeginReturn, cellVars, selVars
  <2>2. busy[HubOf[t]] = t
    BY <1>3 DEF BeginReturn, Inv, CallShape
  <2>3. \A u \in Tasks : u # t =>
          /\ tpc'[u] = tpc[u] /\ tcell'[u] = tcell[u] /\ tgen'[u] = tgen[u]
          /\ (busy'[HubOf[u]] = u) <=> (busy[HubOf[u]] = u)
    BY <1>1, <1>3, <2>2 DEF BeginReturn, Return, Leave, Unmount, TypeOK
  <2>4. ~Unwoken(t) /\ ~Unwoken(t)'
    BY <1>1, <1>3 DEF BeginReturn, Return, Leave, Unwoken
  <2>. QED
    BY <2>1, <2>3, <2>4, CallFrame
<1>4. CASE BeginProbe(t) \/ BeginRetry(t)
  <2>1. UNCHANGED <<word, boundTask, spc, scell, shub, kernelVars, tcell, tgen, busy>>
    BY <1>4 DEF BeginProbe, BeginRetry, cellVars, selVars
  <2>2. \A u \in Tasks : u # t => tpc'[u] = tpc[u]
    BY <1>1, <1>4 DEF BeginProbe, BeginRetry, TypeOK
  <2>3. ~Unwoken(t) /\ ~Unwoken(t)'
    BY <1>1, <1>4 DEF BeginProbe, BeginRetry, Unwoken, TypeOK
  <2>. QED
    BY <2>1, <2>2, <2>3, CallFrame
<1>5. CASE bind_target(t)
  <2>1. UNCHANGED <<word, spc, scell, shub, kernelVars, tcell, tgen, busy>>
    BY <1>5 DEF bind_target, selVars
  <2>2. \A u \in Tasks : u # t => tpc'[u] = tpc[u]
    BY <1>1, <1>5 DEF bind_target, TypeOK
  <2>3. ~Unwoken(t) /\ ~Unwoken(t)'
    BY <1>1, <1>5 DEF bind_target, Unwoken, TypeOK
  <2>4. \A s \in Selectors : spc[s] = "observed" => boundTask'[scell[s]] = boundTask[scell[s]]
    <3>. SUFFICES ASSUME NEW s \in Selectors, spc[s] = "observed"
                  PROVE  boundTask'[scell[s]] = boundTask[scell[s]]
      OBVIOUS
    <3>1. scell[s] \in Cells /\ word[scell[s]].phase = "Claim"
      BY PublisherWord DEF Publishing
    <3>2. tcell[t] \in Cells /\ word[tcell[t]] = binding(tword[t]) /\ tword[t] \in Word
      BY <1>1, <1>5 DEF bind_target, Inv, CallShape, BindingExclusive, TypeOK
    <3>3. word[tcell[t]].phase = "Binding"
      BY <3>2, WordFields
    <3>4. scell[s] # tcell[t]
      BY <3>1, <3>3
    <3>. QED
      BY <1>1, <1>5, <3>1, <3>2, <3>4 DEF bind_target, TypeOK
  <2>. QED
    BY <2>1, <2>2, <2>3, <2>4, CallFrame
<1>6. CASE FailRegistration(t)
  <2>1. UNCHANGED <<word, boundTask, spc, scell, shub, kernelVars, tcell, tgen, busy>>
    BY <1>6 DEF FailRegistration, cellVars, selVars
  <2>2. \A u \in Tasks : u # t => tpc'[u] = tpc[u]
    BY <1>1, <1>6 DEF FailRegistration, TypeOK
  <2>3. Unwoken(t) /\ Unwoken(t)'
    BY <1>1, <1>6 DEF FailRegistration, Unwoken, TypeOK, Inv, CallShape
  <2>. QED
    BY <2>1, <2>2, <2>3, CallFrame
<1>7. CASE park_task(t)
  <2>1. UNCHANGED <<word, boundTask, spc, scell, shub, kernelVars, tcell, tgen>>
    BY <1>7 DEF park_task, cellVars, selVars
  <2>2. busy[HubOf[t]] = t
    BY <1>7 DEF park_task, Inv, CallShape
  <2>3. \A u \in Tasks : u # t =>
          tpc'[u] = tpc[u] /\ ((busy'[HubOf[u]] = u) <=> (busy[HubOf[u]] = u))
    BY <1>1, <1>7, <2>2 DEF park_task, Unmount, TypeOK
  <2>4. Unwoken(t) /\ Unwoken(t)'
    BY <1>1, <1>7 DEF park_task, Unwoken, TypeOK
  <2>. QED
    BY <2>1, <2>3, <2>4, CallFrame
<1>. QED
  BY <1>2, <1>3, <1>4, <1>5, <1>6, <1>7

\* begin takes a permit, binds or activates: the word is not a won one, and
\* an activation is of a generation no notice names.
LEMMA BeginWake ==
  ASSUME Inv, WakeInv, TypeOK', NEW t \in Tasks,
         BeginTakePermit(t) \/ BeginActivate(t) \/ BeginBinding(t) \/ BeginPublish(t)
  PROVE  WakeInv'
<1>. DEFINE c == tcell[t]
            w == tword[t]
<1>1. TypeOK /\ HubOf \in [Tasks -> Hubs] /\ Free \notin Tasks /\ w \in Word /\ c \in Cells
  BY WaitCellAssumption
     DEF Inv, WaitCellAssumption, TypeOK, CallShape, BeginTakePermit, BeginActivate,
         BeginBinding, BeginPublish
<1>2. /\ with_permit(w, FALSE).phase = w.phase /\ with_permit(w, FALSE).gen = w.gen
      /\ \A hub : activated(w, hub).phase = "Active" /\ activated(w, hub).gen = w.gen + 1
      /\ binding(w).phase = "Binding" /\ binding(w).gen = w.gen + 1
      /\ w.gen \in Nat
  <2>. HIDE DEF w
  <2>1. w.gen \in Nat /\ \A hub : activated(w, hub).phase = "Active" /\ activated(w, hub).gen = w.gen + 1
    BY <1>1, WordFields
  <2>2. binding(w).phase = "Binding" /\ binding(w).gen = w.gen + 1
    BY <1>1, WordFields
  <2>3. with_permit(w, FALSE).phase = w.phase /\ with_permit(w, FALSE).gen = w.gen
    BY <1>1, PermitFields
  <2>. QED
    BY <2>1, <2>2, <2>3
<1>3. UNCHANGED <<boundTask, spc, scell, shub, kernelVars>>
  BY DEF BeginTakePermit, BeginActivate, BeginBinding, BeginPublish, selVars
<1>4. ASSUME NEW v, word' = [word EXCEPT ![c] = v],
             word[c].phase \notin {"Claim", "Selected"}, v.phase \notin {"Claim", "Selected"},
             word[c].gen <= v.gen,
             v.gen = word[c].gen /\ v.phase \in {"Active", "Binding"} =>
               word[c].phase \in {"Active", "Binding"}
      PROVE  \A d \in Cells :
               \/ word'[d] = word[d]
               \/ /\ word[d].phase \notin {"Claim", "Selected"}
                  /\ word'[d].phase \notin {"Claim", "Selected"}
                  /\ word[d].gen <= word'[d].gen
                  /\ word'[d].gen = word[d].gen /\ word'[d].phase \in {"Active", "Binding"} =>
                       word[d].phase \in {"Active", "Binding"}
  BY <1>1, <1>4 DEF TypeOK
<1>5. CASE BeginTakePermit(t)
  <2>1. /\ word' = [word EXCEPT ![c] = with_permit(w, FALSE)] /\ word[c] = w
        /\ w.phase = "Idle" /\ busy[HubOf[t]] = t
    BY <1>5 DEF BeginTakePermit, Parkable, Inv, CallShape
  <2>2. \A u \in Tasks : u # t =>
          /\ tpc'[u] = tpc[u] /\ tcell'[u] = tcell[u] /\ tgen'[u] = tgen[u]
          /\ (busy'[HubOf[u]] = u) <=> (busy[HubOf[u]] = u)
    BY <1>1, <1>5, <2>1 DEF BeginTakePermit, Return, Leave, Unmount, TypeOK
  <2>3. ~Unwoken(t) /\ ~Unwoken(t)'
    BY <1>1, <1>5 DEF BeginTakePermit, Return, Leave, Unwoken
  <2>4. \A d \in Cells :
          \/ word'[d] = word[d]
          \/ /\ word[d].phase \notin {"Claim", "Selected"}
             /\ word'[d].phase \notin {"Claim", "Selected"}
             /\ word[d].gen <= word'[d].gen
             /\ word'[d].gen = word[d].gen /\ word'[d].phase \in {"Active", "Binding"} =>
                  word[d].phase \in {"Active", "Binding"}
    <3>. DEFINE v == with_permit(w, FALSE)
    <3>1. /\ word' = [word EXCEPT ![c] = v] /\ v.phase = "Idle" /\ v.gen = word[c].gen
          /\ word[c].phase = "Idle" /\ word[c].gen \in Nat
      BY <1>2, <2>1
    <3>. HIDE DEF v
    <3>. QED
      BY <1>4, <3>1
  <2>. QED
    BY <1>3, <2>2, <2>3, <2>4, CallFrame
<1>6. CASE BeginBinding(t)
  <2>1. /\ word' = [word EXCEPT ![c] = binding(w)] /\ word[c] = w
        /\ w.phase = "Idle" /\ UNCHANGED <<tcell, tgen, busy>>
    BY <1>6 DEF BeginBinding, Parkable, Inv, CallShape
  <2>2. \A u \in Tasks : u # t => tpc'[u] = tpc[u]
    BY <1>1, <1>6 DEF BeginBinding, TypeOK
  <2>3. ~Unwoken(t) /\ ~Unwoken(t)'
    BY <1>1, <1>6 DEF BeginBinding, Unwoken, TypeOK
  <2>. QED
    BY <1>2, <1>3, <1>4, <2>1, <2>2, <2>3, CallFrame
<1>7. CASE BeginActivate(t) \/ BeginPublish(t)
  <2>1. /\ word' = [word EXCEPT ![c] = activated(w, thub[t])]
        /\ (word[c] = w /\ w.phase = "Idle") \/ word[c] = binding(w)
        /\ UNCHANGED <<tcell, busy>>
    BY <1>7 DEF BeginActivate, BeginPublish, Parkable, Inv, CallShape, BindingExclusive
  <2>2. \A u \in Tasks : u # t => tpc'[u] = tpc[u] /\ tgen'[u] = tgen[u]
    BY <1>1, <1>7 DEF BeginActivate, BeginPublish, TypeOK
  <2>3. \A d \in Cells :
          \/ word'[d] = word[d]
          \/ /\ word[d].phase \notin {"Claim", "Selected"}
             /\ word'[d].phase \notin {"Claim", "Selected"}
             /\ word[d].gen <= word'[d].gen
             /\ word'[d].gen = word[d].gen /\ word'[d].phase \in {"Active", "Binding"} =>
                  word[d].phase \in {"Active", "Binding"}
    <3>1. word[c].phase \notin {"Claim", "Selected"} /\ word[c].gen <= w.gen + 1
          /\ (w.gen + 1 = word[c].gen => word[c].phase \in {"Active", "Binding"})
      BY <1>2, <2>1
    <3>. QED
      BY <1>2, <1>4, <2>1, <3>1
  <2>4. ~Unwoken(t) /\ word'[c].phase \notin {"Claim", "Selected"}
    BY <1>1, <1>2, <1>7, <2>1 DEF BeginActivate, BeginPublish, Unwoken, TypeOK
  <2>. QED
    BY <1>3, <2>1, <2>2, <2>3, <2>4, CallFrame
<1>. QED
  BY <1>5, <1>6, <1>7

\* finish ends the wait of a woken task, whose notice is consumed.
LEMMA finishWake ==
  ASSUME Inv, WakeInv, TypeOK', NEW t \in Tasks, NEW clear \in BOOLEAN, finish(t, clear)
  PROVE  WakeInv'
<1>. DEFINE c == tcell[t]
            w == word[c]
            z == IF clear /\ w.cause = "Ready" THEN [w EXCEPT !.resource = "none"] ELSE w
            D == {}
<1>1. /\ c \in Cells /\ w \in Word /\ w.phase = "Selected" /\ w.gen = tgen[t]
      /\ tpc[t] = "resumed" /\ Owns(t, c) /\ TypeOK
  BY DEF Inv, TypeOK, CallShape, WokenSelected, Woken, finish, Owns, Waiting
<1>2. z \in Word /\ z.gen = w.gen
  BY <1>1 DEF Word, Resources
<1>3. retire(z).phase = "Idle" /\ retire(z).gen = w.gen
  <2>. HIDE DEF z
  <2>. QED
    BY <1>2, WordFields
<1>4. /\ word' = [word EXCEPT ![c] = retire(z)] /\ Return(t)
      /\ UNCHANGED <<boundTask, primaryHub, fallbackHub, stored, selVars, kernelVars, busy>>
  BY <1>1 DEF finish
<1>. HIDE DEF z
<1>5. word'[c].phase = "Idle" /\ word'[c].gen = w.gen /\ \A d \in Cells : d # c => word'[d] = word[d]
  BY <1>1, <1>3, <1>4 DEF TypeOK
<1>6. ~Unwoken(t) /\ ~Unwoken(t)'
  BY <1>1, <1>4 DEF Unwoken, Return, Leave
<1>7. \A u \in Tasks : u # t =>
        /\ tcell'[u] = tcell[u] /\ tgen'[u] = tgen[u] /\ tpc'[u] = tpc[u]
        /\ Unwoken(u)' <=> Unwoken(u)
  BY <1>1, <1>4 DEF Return, Leave, Unwoken
<1>8. \A u \in Tasks : u # t /\ Unwoken(u) /\ Owns(u, tcell[u]) => tcell[u] # c /\ tcell[u] \in Cells
  BY <1>1 DEF Inv, OwnedGeneration, Owns, CallShape, Unwoken
<1>9. \A u \in Tasks : Pending(u) => u # t /\ tcell[u] # c /\ tcell[u] \in Cells
  BY <1>6, <1>8 DEF Pending
<1>10. ASSUME NEW u \in Tasks PROVE Pending(u)' <=> Pending(u)
  <2>1. CASE u = t
    BY <1>6, <2>1 DEF Pending
  <2>2. CASE u # t
    <3>1. CASE Unwoken(u) /\ tcell[u] = c
      <4>1. word'[tcell'[u]].phase = "Idle"
        BY <1>5, <1>7, <2>2, <3>1
      <4>. QED
        BY <1>9, <3>1, <4>1 DEF Pending
    <3>2. CASE Unwoken(u) /\ tcell[u] # c
      <4>1. tcell[u] \in Cells /\ word'[tcell[u]] = word[tcell[u]]
        BY <1>5, <3>2 DEF Inv, CallShape, Unwoken
      <4>2. Owns(u, tcell[u])' <=> Owns(u, tcell[u])
        BY <1>7, <2>2, <4>1 DEF Owns, Waiting
      <4>. QED
        BY <1>7, <2>2, <4>1, <4>2 DEF Pending
    <3>3. CASE ~Unwoken(u)
      BY <1>7, <2>2, <3>3 DEF Pending
    <3>. QED
      BY <3>1, <3>2, <3>3
  <2>. QED
    BY <2>1, <2>2
<1>11. \A u \in Tasks : KeepsNotices(u)
  BY <1>4 DEF KeepsNotices, kernelVars
<1>12. \A d \in Cells : /\ word[d].gen \in Nat /\ word'[d].gen \in Nat /\ word[d].gen <= word'[d].gen
                        /\ word'[d].gen = word[d].gen /\ word'[d].phase \in {"Active", "Binding"} =>
                             word[d].phase \in {"Active", "Binding"}
  <2>1. \A d \in Cells : word[d] \in Word
    BY <1>1 DEF TypeOK
  <2>2. \A d \in Cells : word[d].gen \in Nat
    BY <2>1, WaitCellAssumption DEF Word, WaitCellAssumption
  <2>. QED
    BY <1>5, <2>2
<1>13. /\ UNCHANGED <<spc, scell, shub, boundTask>>
       /\ \A h \in Hubs : inbox'[h] = inbox[h] /\ Held(h)' = Held(h)
  BY <1>4 DEF Held, kernelVars, selVars
<1>14. D \in SUBSET Tasks /\ \A u : u \notin D
  OBVIOUS
<1>15. \A u \in Tasks : Pending(u) =>
         tcell'[u] = tcell[u] /\ tgen'[u] = tgen[u] /\ word'[tcell[u]] = word[tcell[u]]
  BY <1>5, <1>7, <1>9
<1>. HIDE DEF D, c, w
<1>. QED
  BY <1>10, <1>11, <1>12, <1>13, <1>14, <1>15, WakeFrame

\* A mark, a cleanup, or a step that changes no word.
LEMMA StoreWake ==
  ASSUME Inv, WakeInv, TypeOK', NEW c \in Cells,
         \A d \in Cells : d # c => word'[d] = word[d],
         word'[c] = word[c] \/ word[c].phase \notin {"Claim", "Binding"},
         word'[c].phase = word[c].phase, word'[c].gen = word[c].gen,
         UNCHANGED <<boundTask, tpc, tcell, tgen, selVars, kernelVars, busy>>
  PROVE  WakeInv'
<1>. DEFINE D == {}
<1>1. \A d \in Cells : /\ word'[d].phase = word[d].phase /\ word'[d].gen = word[d].gen
                       /\ word[d].phase = "Claim" => word'[d] = word[d]
  OBVIOUS
<1>2. ASSUME NEW u \in Tasks PROVE Pending(u)' <=> Pending(u)
  <2>1. /\ Unwoken(u)' <=> Unwoken(u)
        /\ Unwoken(u) => tcell[u] \in Cells
    BY DEF Unwoken, Inv, CallShape
  <2>2. Unwoken(u) => (Owns(u, tcell[u])' <=> Owns(u, tcell[u]))
    BY <1>1, <2>1 DEF Owns, Waiting
  <2>. QED
    BY <1>1, <2>1, <2>2 DEF Pending
<1>3. \A u \in Tasks : KeepsNotices(u)
  BY DEF KeepsNotices, kernelVars
<1>4. \A d \in Cells : word[d].gen \in Nat
  <2>1. \A d \in Cells : word[d] \in Word
    BY DEF Inv, TypeOK
  <2>. QED
    BY <2>1, WaitCellAssumption DEF Word, WaitCellAssumption
<1>5. /\ UNCHANGED <<spc, scell, shub, boundTask>>
      /\ \A h \in Hubs : inbox'[h] = inbox[h] /\ Held(h)' = Held(h)
  BY DEF Held, kernelVars, selVars
<1>6. D \in SUBSET Tasks /\ \A u : u \notin D
  OBVIOUS
<1>7. \A u \in Tasks : Pending(u) => tcell[u] \in Cells
  BY PendingFacts
<1>8. \A d \in Cells : /\ word[d].gen \in Nat /\ word'[d].gen \in Nat /\ word[d].gen <= word'[d].gen
                       /\ word'[d].gen = word[d].gen /\ word'[d].phase \in {"Active", "Binding"} =>
                            word[d].phase \in {"Active", "Binding"}
  BY <1>1, <1>4
<1>9. \A u \in Tasks : Pending(u) =>
         /\ tcell'[u] = tcell[u] /\ tgen'[u] = tgen[u]
         /\ word'[tcell[u]].phase = word[tcell[u]].phase
         /\ word[tcell[u]].phase = "Claim" /\ word[tcell[u]].permit => word'[tcell[u]].permit
  BY <1>1, <1>7
<1>. HIDE DEF D
<1>. QED
  BY <1>2, <1>3, <1>5, <1>6, <1>8, <1>9, WakeFrame

\* try_retire ends the pending waits of R that no publisher holds, and leaves
\* the others as they are but for its interest.
LEMMA RetireWake ==
  ASSUME Inv, TypeOK', NEW R \in SUBSET Tasks, \A t \in R : Waiting(t), try_retire(R)
  PROVE  /\ \A u \in Tasks : Pending(u) /\ u \notin Retirable(R) =>
              /\ word'[tcell[u]].phase = word[tcell[u]].phase
              /\ word'[tcell[u]].gen = word[tcell[u]].gen
              /\ word[tcell[u]].permit => word'[tcell[u]].permit
         /\ \A u \in Retirable(R) : word'[tcell[u]].phase = "Idle" /\ tcell[u] \in Cells
         /\ \A d \in Cells :
              /\ word[d].gen \in Nat /\ word'[d].gen = word[d].gen
              /\ word'[d].phase = word[d].phase \/ word'[d].phase = "Idle"
<1>1. \A d \in Cells :
        \/ word'[d] = word[d]
        \/ word[d].phase = "Claim" /\ word'[d] = with_permit(word[d], TRUE)
        \/ /\ word'[d].gen = word[d].gen /\ word'[d].phase = "Idle"
           /\ word[d].phase \in {"Active", "Selected"}
           /\ \E t \in R : Owns(t, d)
  BY RetireWord
<1>2. \A t \in R, d \in Cells : Owns(t, d) /\ ~InFlight(t) => word'[d].phase = "Idle"
  BY RetireWord
<1>3. \A d \in Cells : /\ word[d].gen \in Nat
                       /\ with_permit(word[d], TRUE).phase = word[d].phase
                       /\ with_permit(word[d], TRUE).gen = word[d].gen
                       /\ with_permit(word[d], TRUE).permit = TRUE
  <2>. SUFFICES ASSUME NEW d \in Cells
                PROVE  /\ word[d].gen \in Nat
                       /\ with_permit(word[d], TRUE).phase = word[d].phase
                       /\ with_permit(word[d], TRUE).gen = word[d].gen
                       /\ with_permit(word[d], TRUE).permit = TRUE
    OBVIOUS
  <2>1. word[d] \in Word
    BY DEF Inv, TypeOK
  <2>2. word[d].gen \in Nat
    BY <2>1, WaitCellAssumption DEF Word, WaitCellAssumption
  <2>. QED
    BY <2>1, <2>2 DEF with_permit, Word
<1>4. ASSUME NEW u \in Tasks, Pending(u), u \notin Retirable(R)
      PROVE  /\ word'[tcell[u]].phase = word[tcell[u]].phase
             /\ word'[tcell[u]].gen = word[tcell[u]].gen
             /\ word[tcell[u]].permit => word'[tcell[u]].permit
  <2>1. /\ tcell[u] \in Cells /\ ~Gone(u) /\ \A v \in Tasks : Owns(v, tcell[u]) => v = u
    BY <1>4, PendingFacts
  <2>2. ASSUME NEW v \in R, Owns(v, tcell[u]), word[tcell[u]].phase \in {"Active", "Selected"}
        PROVE  FALSE
    BY <1>4, <2>1, <2>2 DEF Retirable
  <2>. QED
    BY <1>1, <1>3, <2>1, <2>2
<1>5. ASSUME NEW u \in Retirable(R)
      PROVE  word'[tcell[u]].phase = "Idle" /\ tcell[u] \in Cells
  <2>1. /\ u \in R /\ Waiting(u) /\ tcell[u] \in Cells /\ Owns(u, tcell[u]) /\ ~InFlight(u)
    BY <1>5 DEF Retirable, Gone, InFlight, Owns, Inv, CallShape, Waiting
  <2>. QED
    BY <1>2, <2>1
<1>6. ASSUME NEW d \in Cells
      PROVE  /\ word[d].gen \in Nat /\ word'[d].gen = word[d].gen
             /\ word'[d].phase = word[d].phase \/ word'[d].phase = "Idle"
  BY <1>1, <1>3
<1>. QED
  BY <1>4, <1>5, <1>6

\* A discarded queue holds what it held, but for the notices of R.
LEMMA DiscardWake ==
  ASSUME NEW q \in [Hubs -> SUBSET Notice], NEW R \in SUBSET Tasks, NEW h \in Hubs
  PROVE  /\ discard_notice(q, R)[h] \subseteq q[h]
         /\ \A n \in q[h] : n.task \notin R => n \in discard_notice(q, R)[h]
         /\ \A n \in discard_notice(q, R)[h] : n.task \in R => ~Mine(n.task, n)
BY DEF discard_notice, Mine

\* A call rolls its wait back, or parks again behind its publisher.
LEMMA RollbackWake ==
  ASSUME Inv, WakeInv, TypeOK', NEW t \in Tasks, try_rollback(t) \/ repark(t)
  PROVE  WakeInv'
<1>. DEFINE R == {t}
            D == IF InFlight(t) THEN {} ELSE {t}
<1>1. /\ R \in SUBSET Tasks /\ (\A u \in R : Waiting(u)) /\ try_retire(R) /\ tpc[t] = "retire"
      /\ UNCHANGED <<boundTask, spc, scell, shub, deferred, recheck, signalled>>
      /\ TypeOK /\ tcell[t] \in Cells /\ t \in R
  BY DEF try_rollback, repark, Waiting, selVars, kernelVars, Inv, CallShape
<1>2. busy' = [busy EXCEPT ![HubOf[t]] = Free] /\ (busy[HubOf[t]] = t \/ busy[HubOf[t]] = Free)
  BY DEF try_rollback, repark, Unmount, Mountable, Settled, KernelRuns
<1>3. \A u \in Tasks : u # t =>
        /\ tpc'[u] = tpc[u] /\ tcell'[u] = tcell[u] /\ tgen'[u] = tgen[u]
        /\ Unwoken(u)' <=> Unwoken(u)
  <2>1. \A u \in Tasks : u # t => tpc'[u] = tpc[u] /\ tcell'[u] = tcell[u] /\ tgen'[u] = tgen[u]
    BY <1>1 DEF try_rollback, repark, Return, Leave, TypeOK
  <2>2. \A u \in Tasks : u # t => ((busy'[HubOf[u]] = u) <=> (busy[HubOf[u]] = u))
    BY <1>1, <1>2, WaitCellAssumption DEF TypeOK, WaitCellAssumption
  <2>. QED
    BY <2>1, <2>2 DEF Unwoken
<1>4. Retirable(R) \subseteq R /\ \A u \in R : u = t
  BY DEF Retirable
<1>. HIDE DEF R
<1>5. /\ \A u \in Tasks : Pending(u) /\ u \notin Retirable(R) =>
           /\ word'[tcell[u]].phase = word[tcell[u]].phase
           /\ word'[tcell[u]].gen = word[tcell[u]].gen
           /\ word[tcell[u]].permit => word'[tcell[u]].permit
      /\ \A d \in Cells :
           /\ word[d].gen \in Nat /\ word'[d].gen = word[d].gen
           /\ word'[d].phase = word[d].phase \/ word'[d].phase = "Idle"
  BY <1>1, RetireWake
<1>6. /\ InFlight(t) => Unwoken(t) /\ Unwoken(t)' /\ tcell'[t] = tcell[t] /\ tgen'[t] = tgen[t]
      /\ InFlight(t) => t \notin Retirable(R) /\ UNCHANGED <<inbox, local>>
      /\ ~InFlight(t) => ~Unwoken(t)'
  <2>1. CASE repark(t)
    <3>1. InFlight(t) /\ UNCHANGED <<tcell, tgen, inbox, local>> /\ tpc'[t] = "reparked"
      BY <1>1, <2>1 DEF repark, kernelVars, TypeOK
    <3>2. ~Woken(t)
      BY <3>1 DEF Inv, WokenSelected, InFlight, Gone
    <3>. QED
      BY <1>1, <3>1, <3>2 DEF Woken, Unwoken, Retirable, InFlight
  <2>2. CASE try_rollback(t)
    BY <2>2 DEF try_rollback, Return, Leave, Unwoken
  <2>. QED
    BY <2>1, <2>2
<1>7. D \in SUBSET Tasks /\ (t \in D <=> ~InFlight(t)) /\ \A u : u \in D => u = t
  OBVIOUS
<1>. HIDE DEF D
<1>8. ASSUME NEW u \in Tasks
      PROVE  /\ Pending(u)' <=> Pending(u) /\ u \notin D
             /\ Pending(u) /\ u \notin D => tcell'[u] = tcell[u] /\ tgen'[u] = tgen[u]
  <2>1. CASE u \in D
    BY <1>6, <1>7, <2>1 DEF Pending
  <2>2. CASE u \notin D
    <3>1. /\ Unwoken(u)' <=> Unwoken(u)
          /\ Unwoken(u) => tcell'[u] = tcell[u] /\ tgen'[u] = tgen[u]
      BY <1>3, <1>6, <1>7, <2>2
    <3>2. Unwoken(u) => tcell[u] \in Cells /\ Waiting(u) /\ Waiting(u)'
      BY <3>1 DEF Inv, CallShape, Unwoken, Waiting
    <3>3. u \notin Retirable(R)
      BY <1>4, <1>6, <1>7, <2>2
    <3>4. Unwoken(u) => (Owns(u, tcell[u])' <=> Owns(u, tcell[u]))
      BY <1>5, <3>1, <3>2 DEF Owns
    <3>5. Pending(u) => Pending(u)'
      BY <1>5, <3>1, <3>3, <3>4 DEF Pending
    <3>6. Pending(u)' => Pending(u)
      BY <1>5, <3>1, <3>2, <3>4 DEF Pending
    <3>. QED
      BY <2>2, <3>1, <3>5, <3>6 DEF Pending
  <2>. QED
    BY <2>1, <2>2
<1>9. ASSUME NEW u \in Tasks, Pending(u), u \notin D PROVE KeepsNotices(u)
  <2>1. CASE InFlight(t)
    BY <1>1, <1>6, <2>1 DEF KeepsNotices
  <2>2. CASE ~InFlight(t)
    <3>1. /\ inbox' = discard_notice(inbox, Retirable(R)) /\ local' = discard_notice(local, Retirable(R))
      BY <2>2 DEF try_rollback, repark, R
    <3>2. u \notin Retirable(R) /\ HubOf[u] \in Hubs
      BY <1>4, <1>7, <1>9, <2>2, PendingFacts
    <3>3. \A n \in inbox[HubOf[u]] : n.task \notin Retirable(R) => n \in inbox'[HubOf[u]]
      BY <1>1, <1>4, <3>1, <3>2, DiscardWake DEF TypeOK
    <3>4. \A n \in local[HubOf[u]] : n.task \notin Retirable(R) => n \in local'[HubOf[u]]
      BY <1>1, <1>4, <3>1, <3>2, DiscardWake DEF TypeOK
    <3>. QED
      BY <1>1, <3>2, <3>3, <3>4 DEF KeepsNotices, Mine
  <2>. QED
    BY <2>1, <2>2
<1>10. ASSUME NEW h \in Hubs
       PROVE  /\ inbox'[h] \subseteq inbox[h] /\ \A n \in inbox'[h] : n.task \notin D
              /\ \A n \in Held(h)' : n \in Held(h)
  <2>1. CASE InFlight(t)
    BY <1>1, <1>6, <1>7, <2>1 DEF Held
  <2>2. CASE ~InFlight(t)
    <3>1. /\ inbox' = discard_notice(inbox, Retirable(R)) /\ local' = discard_notice(local, Retirable(R))
      BY <2>2 DEF try_rollback, repark, R
    <3>2. /\ inbox'[h] \subseteq inbox[h]
          /\ \A n \in inbox'[h] : n.task \in Retirable(R) => ~Mine(n.task, n)
      BY <3>1 DEF discard_notice
    <3>3. local'[h] \subseteq local[h]
      BY <1>1, <1>4, <3>1, DiscardWake DEF TypeOK
    <3>4. ASSUME NEW n \in inbox'[h], n.task \in D PROVE FALSE
      <4>1. n.task = t /\ Pending(t) /\ Mine(t, n)
        BY <1>7, <3>2, <3>4 DEF WakeInv, InboxCurrent
      <4>2. t \in Retirable(R)
        BY <1>1, <2>2, <4>1, PendingFacts DEF Retirable, InFlight
      <4>. QED
        BY <3>2, <4>1, <4>2
    <3>. QED
      BY <1>1, <3>2, <3>3, <3>4 DEF Held
  <2>. QED
    BY <2>1, <2>2
<1>11. ASSUME NEW u \in Tasks, Pending(u), u \notin D PROVE u \notin Retirable(R)
  BY <1>4, <1>6, <1>7, <1>11
<1>. QED
  BY <1>1, <1>5, <1>7, <1>8, <1>9, <1>10, <1>11, WakeFrame

\* An abort unwinds its scope, with every notice of its waits.
LEMMA abortWake ==
  ASSUME Inv, WakeInv, TypeOK', NEW x \in Scopes, abort(x)
  PROVE  WakeInv'
<1>. DEFINE waits == {t \in Members(x) : Parked(t) \/ Woken(t)}
            D == Members(x)
<1>1. /\ waits \in SUBSET Tasks /\ (\A t \in waits : Waiting(t)) /\ try_retire(waits)
      /\ inbox' = discard_notice(inbox, Retirable(waits))
      /\ local' = discard_notice(local, waits)
      /\ deferred' = discard_notice(deferred, waits)
      /\ recheck' = discard_notice(recheck, waits)
      /\ waits \subseteq D /\ D \in SUBSET Tasks
  BY DEF Members, Parked, Woken, Waiting, abort
<1>2. \A t \in D : busy[HubOf[t]] = Free /\ t # Free
  BY WaitCellAssumption
     DEF abort, CanAbort, Settled, KernelRuns, Members, WaitCellAssumption
<1>3. \A t \in D : Unwoken(t) => t \in waits /\ Parked(t) /\ ~InFlight(t)
  BY <1>1, <1>2 DEF Inv, CallShape, Unwoken, Parked, abort, ParkedIn
<1>4. /\ Leave(D, "gone")
      /\ UNCHANGED <<boundTask, spc, scell, shub, signalled, busy>>
  BY DEF abort, selVars
<1>. HIDE DEF waits, D
<1>5. Retirable(waits) \subseteq waits
  BY DEF Retirable
<1>6. /\ \A u \in Tasks : Pending(u) /\ u \notin Retirable(waits) =>
           /\ word'[tcell[u]].phase = word[tcell[u]].phase
           /\ word'[tcell[u]].gen = word[tcell[u]].gen
           /\ word[tcell[u]].permit => word'[tcell[u]].permit
      /\ \A d \in Cells :
           /\ word[d].gen \in Nat /\ word'[d].gen = word[d].gen
           /\ word'[d].phase = word[d].phase \/ word'[d].phase = "Idle"
  BY <1>1, RetireWake
<1>7. \A u \in Tasks :
        /\ u \in D => ~Unwoken(u)'
        /\ u \notin D => /\ tpc'[u] = tpc[u] /\ tcell'[u] = tcell[u] /\ tgen'[u] = tgen[u]
                         /\ Unwoken(u)' <=> Unwoken(u)
  BY <1>4 DEF Leave, Unwoken
<1>8. ASSUME NEW u \in Tasks PROVE Pending(u)' <=> Pending(u) /\ u \notin D
  <2>1. CASE u \in D
    BY <1>7, <2>1 DEF Pending
  <2>2. CASE u \notin D
    <3>1. Unwoken(u) => tcell[u] \in Cells /\ Waiting(u) /\ Waiting(u)'
      BY <1>7, <2>2 DEF Inv, CallShape, Unwoken, Waiting
    <3>2. Unwoken(u) => (Owns(u, tcell[u])' <=> Owns(u, tcell[u]))
      BY <1>6, <1>7, <2>2, <3>1 DEF Owns
    <3>3. u \notin Retirable(waits)
      BY <1>1, <1>5, <2>2
    <3>4. Pending(u) => Pending(u)'
      BY <1>6, <1>7, <2>2, <3>2, <3>3 DEF Pending
    <3>5. Pending(u)' => Pending(u)
      BY <1>6, <1>7, <2>2, <3>1, <3>2 DEF Pending
    <3>. QED
      BY <2>2, <3>4, <3>5
  <2>. QED
    BY <2>1, <2>2
<1>9. ASSUME NEW u \in Tasks, Pending(u), u \notin D PROVE KeepsNotices(u)
  <2>1. u \notin waits /\ HubOf[u] \in Hubs
    BY <1>1, <1>9, PendingFacts
  <2>2. \A n : Mine(u, n) => \A t \in waits : ~Mine(t, n)
    BY <2>1 DEF Mine
  <2>3. \A n : Mine(u, n) =>
          /\ n \in inbox[HubOf[u]] => n \in inbox'[HubOf[u]]
          /\ n \in local[HubOf[u]] => n \in local'[HubOf[u]]
          /\ n \in deferred[HubOf[u]] => n \in deferred'[HubOf[u]]
          /\ n \in recheck[HubOf[u]] => n \in recheck'[HubOf[u]]
    BY <1>1, <1>5, <2>1, <2>2 DEF discard_notice
  <2>. QED
    BY <1>4, <2>3 DEF KeepsNotices
<1>10. ASSUME NEW h \in Hubs
       PROVE  /\ inbox'[h] \subseteq inbox[h] /\ \A n \in inbox'[h] : n.task \notin D
              /\ \A n \in Held(h)' : n \in Held(h)
  <2>1. /\ inbox'[h] \subseteq inbox[h] /\ local'[h] \subseteq local[h]
        /\ deferred'[h] \subseteq deferred[h] /\ recheck'[h] \subseteq recheck[h]
    BY <1>1 DEF discard_notice
  <2>2. ASSUME NEW n \in inbox'[h], n.task \in D PROVE FALSE
    <3>1. Pending(n.task) /\ Mine(n.task, n) /\ n.task \in Tasks
      BY <1>1, <2>1, <2>2 DEF WakeInv, InboxCurrent
    <3>2. n.task \in waits /\ ~InFlight(n.task)
      BY <1>3, <2>2, <3>1 DEF Pending
    <3>3. n.task \in Retirable(waits)
      BY <3>1, <3>2, PendingFacts DEF Retirable, InFlight
    <3>. QED
      BY <1>1, <3>1, <3>3 DEF discard_notice
  <2>. QED
    BY <2>1, <2>2 DEF Held
<1>11. \A u \in Tasks : u \notin D => u \notin Retirable(waits)
  BY <1>1, <1>5
<1>. QED
  BY <1>1, <1>4, <1>6, <1>7, <1>8, <1>9, <1>10, <1>11, WakeFrame

\* A deferred abort retires the waits no publisher holds.
LEMMA defer_abortWake ==
  ASSUME Inv, WakeInv, TypeOK', NEW x \in Scopes, defer_abort(x)
  PROVE  WakeInv'
<1>. DEFINE R == ParkedIn(x)
            D == Retirable(R)
<1>1. /\ R \in SUBSET Tasks /\ (\A t \in R : Waiting(t)) /\ try_retire(R)
      /\ inbox' = discard_notice(inbox, D)
      /\ UNCHANGED <<boundTask, tpc, tcell, tgen, spc, scell, shub, local, deferred, recheck,
                     signalled, busy>>
      /\ D \in SUBSET Tasks
  BY DEF ParkedIn, Members, Parked, Waiting, defer_abort, taskVars, selVars, Retirable
<1>. HIDE DEF R
<1>2. /\ \A u \in Tasks : Pending(u) /\ u \notin D =>
           /\ word'[tcell[u]].phase = word[tcell[u]].phase
           /\ word'[tcell[u]].gen = word[tcell[u]].gen
           /\ word[tcell[u]].permit => word'[tcell[u]].permit
      /\ \A u \in D : word'[tcell[u]].phase = "Idle"
      /\ \A d \in Cells :
           /\ word[d].gen \in Nat /\ word'[d].gen = word[d].gen
           /\ word'[d].phase = word[d].phase \/ word'[d].phase = "Idle"
  BY <1>1, RetireWake
<1>. HIDE DEF D
<1>3. ASSUME NEW u \in Tasks PROVE Pending(u)' <=> Pending(u) /\ u \notin D
  <2>1. /\ Unwoken(u)' <=> Unwoken(u)
        /\ Unwoken(u) => tcell[u] \in Cells
    BY <1>1 DEF Unwoken, Inv, CallShape
  <2>2. Unwoken(u) => (Owns(u, tcell[u])' <=> Owns(u, tcell[u]))
    BY <1>1, <1>2, <2>1 DEF Owns, Waiting
  <2>3. Pending(u) /\ u \notin D => Pending(u)'
    BY <1>1, <1>2, <2>1, <2>2 DEF Pending
  <2>4. Pending(u)' => Pending(u) /\ u \notin D
    BY <1>1, <1>2, <2>1, <2>2 DEF Pending
  <2>. QED
    BY <2>3, <2>4
<1>4. ASSUME NEW u \in Tasks, Pending(u), u \notin D PROVE KeepsNotices(u)
  <2>1. HubOf[u] \in Hubs
    BY <1>4, PendingFacts
  <2>2. \A n : Mine(u, n) /\ n \in inbox[HubOf[u]] => n \in inbox'[HubOf[u]]
    BY <1>1, <1>4, <2>1 DEF discard_notice, Mine
  <2>. QED
    BY <1>1, <2>2 DEF KeepsNotices
<1>5. ASSUME NEW h \in Hubs
      PROVE  /\ inbox'[h] \subseteq inbox[h] /\ \A n \in inbox'[h] : n.task \notin D
             /\ \A n \in Held(h)' : n \in Held(h)
  <2>1. inbox'[h] \subseteq inbox[h]
    BY <1>1 DEF discard_notice
  <2>2. ASSUME NEW n \in inbox'[h] PROVE n.task \notin D
    BY <1>1, <2>1, <2>2 DEF discard_notice, WakeInv, InboxCurrent
  <2>. QED
    BY <1>1, <2>1, <2>2 DEF Held
<1>. QED
  BY <1>1, <1>2, <1>3, <1>4, <1>5, WakeFrame

\* The kernel takes the notice n of one of its queues: its task is woken, or
\* its publisher is asked to report, or the notice is of no wait any more.
LEMMA process_wakeWake ==
  ASSUME Inv, WakeInv, TypeOK', NEW h \in Hubs, NEW n \in inbox[h] \cup Held(h), NEW rest,
         KernelRuns(h), process_wake(h, n, rest),
         \A g \in Hubs : g # h => /\ inbox'[g] = inbox[g] /\ local'[g] = local[g]
                                  /\ recheck'[g] = recheck[g],
         inbox'[h] = inbox[h] \ {n} \/ (inbox'[h] = inbox[h] /\ n \in Held(h)),
         local'[h] \subseteq local[h], recheck'[h] \subseteq recheck[h],
         \A m \in local[h] : m # n => m \in local'[h],
         \A m \in recheck[h] : m # n => m \in recheck'[h],
         rest \subseteq deferred[h], \A m \in deferred[h] : m # n => m \in rest
  PROVE  WakeInv'
<1>. DEFINE D == IF Accepted(n) THEN {n.task} ELSE {}
<1>1. /\ n \in Notice /\ n.task \in Tasks /\ n.cell \in Cells /\ n.gen \in Nat /\ TypeOK
      /\ word[n.cell] \in Word /\ HubOf[n.task] = h
  BY WaitCellAssumption
     DEF Inv, TypeOK, Held, Notice, WaitCellAssumption, WakeInv, InboxCurrent, HeldSent
<1>2. /\ Accepted(n) => /\ tpc[n.task] \in {"parked", "reparked"}
                        /\ tcell[n.task] = n.cell /\ tgen[n.task] = n.gen
                        /\ word[n.cell].gen = n.gen /\ word[n.cell].phase = "Selected"
                        /\ ~MustDefer(n)
      /\ MustDefer(n) => word[n.cell].gen = n.gen /\ word[n.cell].phase = "Claim"
  BY DEF Accepted, MustDefer, OwnsRoute, Parked, publication
<1>3. /\ UNCHANGED <<boundTask, tcell, tgen, spc, scell, shub, signalled, busy>>
      /\ word' = IF MustDefer(n)
                 THEN [word EXCEPT ![n.cell] = with_permit(@, TRUE)] ELSE word
      /\ \A u \in Tasks : u \notin D => tpc'[u] = tpc[u]
      /\ Accepted(n) => tpc'[n.task] \in {"resumed", "retire"}
  <2>1. UNCHANGED <<boundTask, tcell, tgen, spc, scell, shub, signalled, busy>>
    BY DEF process_wake, selVars
  <2>. QED
    BY <1>1, <2>1 DEF process_wake, TypeOK
<1>4. \A d \in Cells : /\ word[d].gen \in Nat /\ word'[d].gen = word[d].gen
                       /\ word'[d].phase = word[d].phase
                       /\ word[d].permit => word'[d].permit
                       /\ MustDefer(n) => word'[n.cell].permit
  <2>1. \A d \in Cells : word[d].gen \in Nat
    <3>1. \A d \in Cells : word[d] \in Word
      BY <1>1 DEF TypeOK
    <3>. QED
      BY <3>1, WaitCellAssumption DEF Word, WaitCellAssumption
  <2>2. /\ with_permit(word[n.cell], TRUE).phase = word[n.cell].phase
        /\ with_permit(word[n.cell], TRUE).gen = word[n.cell].gen
        /\ with_permit(word[n.cell], TRUE).permit = TRUE
    BY <1>1 DEF with_permit, Word
  <2>. QED
    BY <1>1, <1>3, <2>1, <2>2 DEF TypeOK
<1>5. busy[h] = Free /\ Free \notin Tasks
  BY WaitCellAssumption DEF KernelRuns, WaitCellAssumption
<1>6. D \in SUBSET Tasks /\ (n.task \in D <=> Accepted(n)) /\ \A u \in D : u = n.task
  BY <1>1
<1>. HIDE DEF D
<1>7. ASSUME NEW u \in Tasks PROVE Pending(u)' <=> Pending(u) /\ u \notin D
  <2>1. CASE u \in D
    <3>1. ~Unwoken(u)'
      BY <1>1, <1>3, <1>5, <1>6, <2>1 DEF Unwoken
    <3>. QED
      BY <2>1, <3>1 DEF Pending
  <2>2. CASE u \notin D
    <3>1. /\ Unwoken(u)' <=> Unwoken(u)
          /\ Unwoken(u) => tcell[u] \in Cells /\ Waiting(u) /\ Waiting(u)'
      BY <1>3, <2>2 DEF Unwoken, Inv, CallShape, Waiting
    <3>2. Unwoken(u) => (Owns(u, tcell[u])' <=> Owns(u, tcell[u]))
      BY <1>3, <1>4, <3>1, ZenonT(60) DEF Owns
    <3>. QED
      BY <1>3, <1>4, <2>2, <3>1, <3>2, ZenonT(60) DEF Pending
  <2>. QED
    BY <2>1, <2>2
<1>8. ASSUME NEW u \in Tasks, Pending(u), Mine(u, n)
      PROVE  Accepted(n) \/ MustDefer(n)
  <2>1. u = n.task /\ tcell[u] = n.cell /\ tgen[u] = n.gen
    BY <1>8 DEF Mine
  <2>2. Parked(u)
    BY <1>1, <1>5, <1>8, <2>1 DEF Pending, Unwoken, Parked, Inv, CallShape
  <2>3. tgen[u] = word[tcell[u]].gen /\ word[tcell[u]].phase \in {"Claim", "Selected"}
    BY <1>8 DEF Pending, Owns
  <2>. QED
    BY <2>1, <2>2, <2>3 DEF Accepted, MustDefer, OwnsRoute, publication
<1>9. /\ \A g \in Hubs : g # h => deferred'[g] = deferred[g]
      /\ Accepted(n) => deferred'[h] = {m \in rest : ~Mine(n.task, m)}
      /\ MustDefer(n) => deferred'[h] = rest \cup {n}
      /\ ~Accepted(n) /\ ~MustDefer(n) => deferred'[h] = rest
  BY <1>1, <1>2 DEF process_wake, TypeOK
<1>10. ASSUME NEW u \in Tasks, Pending(u), u \notin D PROVE KeepsNotices(u)
  <2>. SUFFICES ASSUME NEW m, Mine(u, m)
                PROVE  LET g == HubOf[u] IN
                       /\ m \in inbox[g] \cup local[g] \cup recheck[g] =>
                            \/ m \in inbox'[g] \cup local'[g] \cup recheck'[g]
                            \/ /\ m \in deferred'[g] /\ word[tcell[u]].phase = "Claim"
                               /\ word'[tcell[u]].permit
                       /\ m \in deferred[g] =>
                            \/ m \in recheck'[g]
                            \/ m \in deferred'[g] /\ (signalled[g] => signalled'[g])
    BY DEF KeepsNotices
  <2>. DEFINE g == HubOf[u]
  <2>1. g \in Hubs /\ tcell[u] \in Cells /\ signalled' = signalled /\ m.task = u
    BY <1>3, <1>10, PendingFacts DEF Mine
  <2>2. CASE g # h
    BY <1>9, <2>1, <2>2
  <2>3. CASE g = h /\ m # n
    <3>1. ~Accepted(n) \/ ~Mine(n.task, m)
      BY <1>6, <1>10, <2>1 DEF Mine
    <3>2. m \in deferred[h] => m \in deferred'[h]
      BY <1>9, <2>3, <3>1
    <3>. QED
      BY <2>1, <2>3, <3>2
  <2>4. CASE g = h /\ m = n
    <3>1. MustDefer(n) /\ tcell[u] = n.cell
      BY <1>6, <1>8, <1>10, <2>1, <2>4 DEF Mine
    <3>2. n \in deferred'[h] /\ word[n.cell].phase = "Claim" /\ word'[n.cell].permit
      BY <1>1, <1>2, <1>4, <1>9, <3>1
    <3>. QED
      BY <2>1, <2>4, <3>1, <3>2
  <2>. QED
    BY <2>2, <2>3, <2>4
<1>11. ASSUME NEW g \in Hubs
       PROVE  /\ inbox'[g] \subseteq inbox[g] /\ \A m \in inbox'[g] : m.task \notin D
              /\ \A m \in Held(g)' : m \in Held(g) \/ (m \in inbox[g] /\ m \notin inbox'[g])
  <2>1. inbox'[g] \subseteq inbox[g]
    BY <1>11
  <2>2. ASSUME NEW m \in inbox'[g], m.task \in D PROVE FALSE
    <3>1. /\ Accepted(n) /\ m.task = n.task /\ m \in inbox[g] /\ HubOf[m.task] = g
          /\ Mine(m.task, m)
      BY <1>6, <2>1, <2>2 DEF WakeInv, InboxCurrent
    <3>2. g = h /\ SameWait(n, m)
      BY <1>1, <1>2, <3>1 DEF SameWait, Mine
    <3>3. n \notin Held(h)
      BY <3>1, <3>2 DEF WakeInv, InboxCurrent
    <3>4. n \in inbox[h] /\ n \notin inbox'[h]
      BY <3>3
    <3>5. n = m
      BY <3>1, <3>2, <3>4 DEF WakeInv, InboxCurrent
    <3>. QED
      BY <2>2, <3>2, <3>4, <3>5
  <2>3. ASSUME NEW m \in Held(g)'
        PROVE  m \in Held(g) \/ (m \in inbox[g] /\ m \notin inbox'[g])
    <3>1. CASE g # h
      BY <1>9, <2>3, <3>1 DEF Held
    <3>2. CASE g = h
      <4>1. deferred'[h] \subseteq deferred[h] \cup {n}
        BY <1>9
      <4>2. n \in Held(h) \/ (n \in inbox[h] /\ n \notin inbox'[h])
        OBVIOUS
      <4>. QED
        BY <2>3, <3>2, <4>1, <4>2 DEF Held
    <3>. QED
      BY <3>1, <3>2
  <2>. QED
    BY <2>1, <2>2, <2>3
<1>12. \A u \in Tasks : Pending(u) => tcell[u] \in Cells
  BY PendingFacts
<1>13. \A u \in Tasks : Pending(u) /\ u \notin D =>
         /\ tcell'[u] = tcell[u] /\ tgen'[u] = tgen[u]
         /\ word'[tcell[u]].phase = word[tcell[u]].phase
         /\ word[tcell[u]].phase = "Claim" /\ word[tcell[u]].permit => word'[tcell[u]].permit
         /\ KeepsNotices(u)
  BY <1>3, <1>4, <1>10, <1>12
<1>14. \A d \in Cells :
         /\ word[d].gen \in Nat /\ word'[d].gen \in Nat /\ word[d].gen <= word'[d].gen
         /\ word'[d].gen = word[d].gen /\ word'[d].phase \in {"Active", "Binding"} =>
              word[d].phase \in {"Active", "Binding"}
  BY <1>4
<1>15. UNCHANGED <<spc, scell, shub, boundTask>>
  BY <1>3
<1>. QED
  BY <1>6, <1>7, <1>11, <1>13, <1>14, <1>15, WakeFrame

\* The kernel's tick: wakes, the changed signal, the deferred wakes.
LEMMA KernelWake ==
  ASSUME Inv, WakeInv, TypeOK', NEW h \in Hubs, KernelStep(h)
  PROVE  WakeInv'
<1>1. TypeOK
  BY DEF Inv
<1>2. CASE process_wakes(h)
  <2>1. CASE \E n \in local[h] : /\ local' = [local EXCEPT ![h] = @ \ {n}]
                                 /\ process_wake(h, n, deferred[h])
                                 /\ UNCHANGED <<inbox, recheck>>
    <3>1. PICK n \in local[h] : /\ local' = [local EXCEPT ![h] = @ \ {n}]
                                /\ process_wake(h, n, deferred[h])
                                /\ UNCHANGED <<inbox, recheck>>
      BY <2>1
    <3>2. /\ n \in Held(h) /\ KernelRuns(h) /\ local'[h] = local[h] \ {n}
          /\ \A g \in Hubs : g # h => local'[g] = local[g]
      BY <1>1, <1>2, <3>1 DEF Held, process_wakes, Settled, TypeOK
    <3>. QED
      BY <3>1, <3>2, process_wakeWake
  <2>2. CASE \E n \in inbox[h] : /\ inbox' = [inbox EXCEPT ![h] = @ \ {n}]
                                 /\ process_wake(h, n, deferred[h])
                                 /\ UNCHANGED <<local, recheck>>
    <3>1. PICK n \in inbox[h] : /\ inbox' = [inbox EXCEPT ![h] = @ \ {n}]
                                /\ process_wake(h, n, deferred[h])
                                /\ UNCHANGED <<local, recheck>>
      BY <2>2
    <3>2. /\ KernelRuns(h) /\ inbox'[h] = inbox[h] \ {n}
          /\ \A g \in Hubs : g # h => inbox'[g] = inbox[g]
      BY <1>1, <1>2, <3>1 DEF process_wakes, Settled, TypeOK
    <3>. QED
      BY <3>1, <3>2, process_wakeWake
  <2>. QED
    BY <1>2, <2>1, <2>2 DEF process_wakes
<1>3. CASE process_deferred_wakes(h)
  <2>1. PICK n \in recheck[h] : /\ recheck' = [recheck EXCEPT ![h] = @ \ {n}]
                                /\ process_wake(h, n, deferred[h] \ {n})
    BY <1>3 DEF process_deferred_wakes
  <2>2. /\ n \in Held(h) /\ KernelRuns(h) /\ recheck'[h] = recheck[h] \ {n}
        /\ \A g \in Hubs : g # h => recheck'[g] = recheck[g]
        /\ UNCHANGED <<inbox, local>>
    BY <1>1, <1>3, <2>1 DEF Held, process_deferred_wakes, TypeOK
  <2>. QED
    BY <2>1, <2>2, process_wakeWake
<1>4. CASE observe_signal(h)
  <2>. DEFINE D == {}
  <2>1. /\ UNCHANGED <<word, boundTask, tpc, tcell, tgen, spc, scell, shub, inbox, local,
                       deferred, busy>>
        /\ recheck' = [recheck EXCEPT ![h] = deferred[h]]
        /\ signalled' = [signalled EXCEPT ![h] = FALSE] /\ recheck[h] = {}
    BY <1>4 DEF observe_signal, Settled, cellVars, taskVars, selVars
  <2>2. \A u \in Tasks : Pending(u)' <=> Pending(u)
    BY <2>1 DEF Pending, Unwoken, Owns, Waiting
  <2>3. ASSUME NEW u \in Tasks, Pending(u) PROVE KeepsNotices(u)
    <3>1. HubOf[u] \in Hubs
      BY <2>3, PendingFacts
    <3>. QED
      BY <1>1, <2>1, <3>1 DEF KeepsNotices, TypeOK
  <2>4. \A g \in Hubs : \A n \in Held(g)' : n \in Held(g)
    BY <1>1, <2>1 DEF Held, TypeOK
  <2>5. \A d \in Cells : word[d].gen \in Nat
    <3>1. \A d \in Cells : word[d] \in Word
      BY <1>1 DEF TypeOK
    <3>. QED
      BY <3>1, WaitCellAssumption DEF Word, WaitCellAssumption
  <2>6. D \in SUBSET Tasks /\ \A u : u \notin D
    OBVIOUS
  <2>. HIDE DEF D
  <2>. QED
    BY <2>1, <2>2, <2>3, <2>4, <2>5, <2>6, WakeFrame
<1>. QED
  BY <1>2, <1>3, <1>4 DEF KernelStep

-----------------------------------------------------------------------------
(* Selectors and their wakes. *)

\* A claim opens the wake of its generation; no notice names it yet.
LEMMA ClaimWake ==
  ASSUME Inv, WakeInv, NEW s \in Selectors, NEW c \in Cells, NEW w,
         NEW next \in {"route", "routeLocal"}, Claim(s, c, w, next),
         word[c].phase = "Active", w.phase = "Claim", w.gen = word[c].gen
  PROVE  WakeInv'
<1>1. /\ spc[s] = "idle" /\ word' = [word EXCEPT ![c] = w]
      /\ spc' = [spc EXCEPT ![s] = next] /\ scell' = [scell EXCEPT ![s] = c]
      /\ UNCHANGED <<boundTask, shub, tpc, tcell, tgen, kernelVars>> /\ TypeOK
  BY DEF Claim, Inv, taskVars
<1>2. \A t \in Tasks : (busy'[HubOf[t]] = t) <=> (busy[HubOf[t]] = t)
  BY CarrierFrame DEF Claim
<1>3. /\ \A d \in Cells : d # c => word'[d] = word[d]
      /\ word'[c].phase = "Claim" /\ word'[c].gen = word[c].gen
  BY <1>1 DEF TypeOK
<1>4. /\ spc'[s] = next /\ scell'[s] = c
      /\ \A r \in Selectors : r # s => spc'[r] = spc[r] /\ scell'[r] = scell[r]
  BY <1>1 DEF TypeOK
<1>5. ASSUME NEW d PROVE (\E r \in Selectors : spc'[r] \in {"route", "routeLocal"} /\ scell'[r] = d)
                           <=> (Routing(d) \/ d = c)
  BY <1>1, <1>4 DEF Routing
<1>6. ASSUME NEW u \in Tasks
      PROVE  /\ Unwoken(u)' <=> Unwoken(u)
             /\ Unwoken(u) => tcell[u] \in Cells
  BY <1>1, <1>2 DEF Unwoken, Inv, CallShape
<1>7. ASSUME NEW u \in Tasks, tcell[u] # c
      PROVE  Pending(u)' <=> Pending(u)
  BY <1>1, <1>3, <1>6, <1>7 DEF Pending, Owns, Waiting
<1>8. \A u \in Tasks : Pending(u) => tcell[u] # c
  BY DEF Pending
<1>9. \A h \in Hubs : /\ \A n \in inbox[h] \cup Held(h) :
                           n \in Notice /\ n.cell \in Cells /\ n.task \in Tasks /\ n.gen \in Nat
                      /\ inbox'[h] = inbox[h] /\ Held(h)' = Held(h)
  BY <1>1, WaitCellAssumption DEF TypeOK, Held, Notice, kernelVars, WaitCellAssumption
<1>10. ASSUME NEW n, n.cell \in Cells, Sent(n) PROVE Sent(n)'
  <2>1. CASE n.cell = c
    BY <1>3, <1>10, <2>1 DEF Sent
  <2>2. CASE n.cell # c
    <3>1. word'[n.cell] = word[n.cell]
      BY <1>3, <1>10, <2>2
    <3>2. Routing(n.cell)' <=> Routing(n.cell)
      BY <1>1, <1>4, <2>2 DEF Routing
    <3>. QED
      BY <1>10, <3>1, <3>2 DEF Sent
  <2>. QED
    BY <2>1, <2>2
<1>11. WakeUnderway'
  <2>. SUFFICES ASSUME NEW u \in Tasks, Pending(u)'
                PROVE  LET h == HubOf[u] IN
                       \/ Routing(tcell[u])'
                       \/ \E n \in inbox'[h] \cup local'[h] \cup recheck'[h] : Mine(u, n)'
                       \/ (\E n \in deferred'[h] : Mine(u, n)') /\ Revisited(u)'
    BY DEF WakeUnderway
  <2>1. CASE tcell[u] = c
    BY <1>1, <1>4, <2>1 DEF Routing
  <2>2. CASE tcell[u] # c
    <3>1. Pending(u) /\ tcell[u] \in Cells /\ word'[tcell[u]] = word[tcell[u]]
      BY <1>3, <1>6, <1>7, <2>2 DEF Pending
    <3>2. Routing(tcell[u]) => Routing(tcell[u])'
      BY <1>1, <1>4 DEF Routing
    <3>3. Revisited(u) => Revisited(u)'
      BY <1>1, <1>4, <3>1 DEF Revisited, kernelVars
    <3>4. \A n : Mine(u, n)' <=> Mine(u, n)
      BY <1>1 DEF Mine
    <3>. QED
      BY <1>1, <3>1, <3>2, <3>3, <3>4 DEF WakeInv, WakeUnderway, kernelVars
  <2>. QED
    BY <2>1, <2>2
<1>12. HeldSent'
  BY <1>9, <1>10 DEF WakeInv, HeldSent
<1>13. InboxCurrent'
  <2>. SUFFICES ASSUME NEW h \in Hubs, NEW n \in inbox[h]
                PROVE  /\ HubOf[n.task] = h
                       /\ Pending(n.task)' /\ Mine(n.task, n)'
                       /\ Sent(n)'
                       /\ \A m \in inbox[h] : m.task = n.task => m = n
                       /\ \A m \in Held(h) : ~SameWait(m, n)
    BY <1>9 DEF InboxCurrent, SameWait
  <2>1. /\ HubOf[n.task] = h /\ n.task \in Tasks /\ n.cell \in Cells
        /\ Pending(n.task) /\ Mine(n.task, n) /\ Sent(n)
        /\ \A m \in inbox[h] : m.task = n.task => m = n
        /\ \A m \in Held(h) : ~SameWait(m, n)
    BY <1>9 DEF WakeInv, InboxCurrent
  <2>2. Pending(n.task)' /\ Mine(n.task, n)'
    BY <1>1, <1>7, <1>8, <2>1 DEF Mine
  <2>. QED
    BY <1>10, <2>1, <2>2
<1>14. ObservedHub'
  BY <1>1, <1>4 DEF WakeInv, ObservedHub
<1>. QED
  BY <1>11, <1>12, <1>13, <1>14 DEF WakeInv

\* Every wake: a claim, or a mark that wins nothing.
LEMMA SelectWake ==
  ASSUME Inv, WakeInv, TypeOK', NEW s \in Selectors, SelectStep(s)
  PROVE  WakeInv'
<1>1. TypeOK /\ \A c \in Cells : word[c] \in Word /\ (word[c].phase = "Active" => ~word[c].permit)
  BY DEF Inv, TypeOK, OwnedTarget
<1>2. ASSUME NEW c \in Cells, NEW cause \in Causes, NEW next \in {"route", "routeLocal"},
             word[c].phase = "Active", Claim(s, c, claimed(word[c], cause), next)
      PROVE  WakeInv'
  <2>. DEFINE w == claimed(word[c], cause)
  <2>1. w.phase = "Claim" /\ w.gen = word[c].gen /\ Claim(s, c, w, next)
    BY <1>1, <1>2, ClaimedFields
  <2>. HIDE DEF w
  <2>. QED
    BY <1>2, <2>1, ClaimWake
<1>3. ASSUME NEW c \in Cells, NEW w, word[c].phase \in {"Idle", "Selected"},
             Mark(s, c, w), w.phase = word[c].phase, w.gen = word[c].gen
      PROVE  WakeInv'
  <2>1. /\ \A d \in Cells : d # c => word'[d] = word[d]
        /\ word'[c] = w
    BY <1>1, <1>3 DEF Mark, TypeOK
  <2>. QED
    BY <1>3, <2>1, StoreWake DEF Mark, taskVars
<1>4. ASSUME NEW c \in Cells, notify(s, c) PROVE WakeInv'
  <2>1. CASE selectable(word[c]) /\ Claim(s, c, claimed(word[c], "Ready"), "routeLocal")
    BY <1>2, <2>1 DEF selectable, Causes
  <2>. DEFINE v == with_permit(word[c], TRUE)
  <2>2. v.phase = word[c].phase /\ v.gen = word[c].gen
    BY <1>1, PermitFields
  <2>3. CASE markable(word[c]) /\ Mark(s, c, v)
    <3>1. word[c].phase \in {"Idle", "Selected"} /\ Mark(s, c, v)
      BY <2>3 DEF markable
    <3>. HIDE DEF v
    <3>. QED
      BY <1>3, <2>2, <3>1
  <2>. QED
    BY <1>4, <2>1, <2>3 DEF notify
<1>5. ASSUME NEW c \in Cells, cancel(s, c) PROVE WakeInv'
  BY <1>2, <1>5 DEF cancel, selectable, Causes
<1>6. ASSUME NEW c \in Cells, close(s, c) PROVE WakeInv'
  <2>. DEFINE w == [word[c] EXCEPT !.closed = TRUE, !.permit = FALSE]
  <2>1. w \in Word /\ w.phase = word[c].phase /\ w.gen = word[c].gen
    BY <1>1 DEF Word
  <2>2. \/ word[c].phase = "Active" /\ Claim(s, c, claimed(w, "Closed"), "route")
        \/ word[c].phase \in {"Idle", "Selected"} /\ Mark(s, c, w)
    BY <1>6 DEF close, selectable, markable
  <2>. HIDE DEF w
  <2>. DEFINE v == claimed(w, "Closed")
  <2>3. v.phase = "Claim" /\ v.gen = word[c].gen
    BY <2>1, WordFields
  <2>4. CASE word[c].phase = "Active" /\ Claim(s, c, v, "route")
    <3>. HIDE DEF v
    <3>. QED
      BY <2>3, <2>4, ClaimWake
  <2>5. CASE word[c].phase \in {"Idle", "Selected"} /\ Mark(s, c, w)
    BY <1>3, <2>1, <2>5
  <2>. QED
    BY <2>2, <2>4, <2>5
<1>7. ASSUME NEW c \in Cells, NEW g, NEW cause \in Causes, select_generation(s, c, g, cause)
      PROVE  WakeInv'
  BY <1>2, <1>7 DEF select_generation, selectable
<1>8. ASSUME NEW c \in Cells, NEW r \in Resources, claim_resource(s, c, r) PROVE WakeInv'
  <2>. DEFINE w == resource_offer(word[c], r)
  <2>1. /\ w.gen = word[c].gen
        /\ word[c].phase = "Active" => w.phase = "Claim"
        /\ word[c].phase = "Idle" => w.phase = "Idle"
    BY <1>1, <1>8, OfferFields DEF claim_resource, resource_open
  <2>2. \/ word[c].phase = "Active" /\ Claim(s, c, w, "routeLocal")
        \/ word[c].phase = "Idle" /\ Mark(s, c, w)
    BY <1>8 DEF claim_resource, resource_open
  <2>. HIDE DEF w
  <2>. QED
    BY <1>3, <2>1, <2>2, ClaimWake
<1>9. ASSUME NEW t \in Tasks, expire_timers(s, t) PROVE WakeInv'
  <2>1. tcell[t] \in Cells /\ "TimedOut" \in Causes
    BY <1>9 DEF expire_timers, Inv, CallShape, Causes
  <2>. QED
    BY <1>7, <1>9, <2>1 DEF expire_timers
<1>. QED
  BY <1>4, <1>5, <1>6, <1>7, <1>8, <1>9 DEF SelectStep, Causes

\* The resident cell's cleanups win nothing.
LEMMA ResidentWake ==
  ASSUME Inv, WakeInv, TypeOK', NEW t \in Tasks, NEW c \in Resident, ResidentStep(t, c)
  PROVE  WakeInv'
<1>1. c \in Cells /\ word[c] \in Word /\ TypeOK
  BY WaitCellAssumption DEF Inv, TypeOK, WaitCellAssumption
<1>2. ASSUME NEW w, SetIdleWord(c, w), word[c].phase \notin {"Claim", "Binding"},
             w.phase = word[c].phase, w.gen = word[c].gen
      PROVE  WakeInv'
  <2>1. /\ \A d \in Cells : d # c => word'[d] = word[d]
        /\ word'[c] = w
    BY <1>1, <1>2 DEF SetIdleWord, TypeOK
  <2>. QED
    BY <1>1, <1>2, <2>1, StoreWake DEF SetIdleWord, taskVars
<1>. DEFINE w1 == [word[c] EXCEPT !.resource = "none"]
            w2 == [word[c] EXCEPT !.permit = FALSE, !.resource = "none"]
            w3 == [word[c] EXCEPT !.closed = FALSE]
<1>3. /\ w1.phase = word[c].phase /\ w1.gen = word[c].gen
      /\ w2.phase = word[c].phase /\ w2.gen = word[c].gen
      /\ w3.phase = word[c].phase /\ w3.gen = word[c].gen
  BY <1>1 DEF Word
<1>4. /\ SetIdleWord(c, w1) \/ SetIdleWord(c, w2) \/ SetIdleWord(c, w3)
      /\ word[c].phase \notin {"Claim", "Binding"}
  BY DEF ResidentStep, take_resource, recycle, reset_closed_gate
<1>. HIDE DEF w1, w2, w3
<1>. QED
  BY <1>2, <1>3, <1>4


-----------------------------------------------------------------------------
(* Publishers. *)

\* What a publisher's step leaves as it is: the waits, their notices, and the
\* place of every notice that was sent.
LEMMA RouteFrame ==
  ASSUME Inv, NEW s \in Selectors, spc'[s] \notin {"route", "routeLocal"},
         UNCHANGED <<tpc, tcell, tgen>>,
         \A t \in Tasks : (busy'[HubOf[t]] = t) <=> (busy[HubOf[t]] = t),
         \A d \in Cells : /\ word'[d].gen = word[d].gen
                          /\ \/ word'[d].phase = word[d].phase
                             \/ word[d].phase = "Claim" /\ word'[d].phase = "Selected",
         \A r \in Selectors : r # s => spc'[r] = spc[r] /\ scell'[r] = scell[r]
  PROVE  /\ \A u \in Tasks : Pending(u)' <=> Pending(u)
         /\ \A n : \A u \in Tasks : Mine(u, n)' <=> Mine(u, n)
         /\ \A d : Routing(d)' => Routing(d)
         /\ \A d : Routing(d) /\ ~(spc[s] \in {"route", "routeLocal"} /\ scell[s] = d) => Routing(d)'
         /\ \A n : n.cell \in Cells /\ Sent(n) => Sent(n)'
<1>1. ASSUME NEW u \in Tasks PROVE Pending(u)' <=> Pending(u)
  <2>1. /\ Unwoken(u)' <=> Unwoken(u)
        /\ Unwoken(u) => tcell[u] \in Cells
    BY DEF Unwoken, Inv, CallShape
  <2>2. Unwoken(u) => (Owns(u, tcell[u])' <=> Owns(u, tcell[u]))
    BY <2>1 DEF Owns, Waiting
  <2>. QED
    BY <2>1, <2>2 DEF Pending
<1>2. \A n : \A u \in Tasks : Mine(u, n)' <=> Mine(u, n)
  BY DEF Mine
<1>3. \A d : Routing(d)' => Routing(d)
  BY DEF Routing
<1>4. \A d : Routing(d) /\ ~(spc[s] \in {"route", "routeLocal"} /\ scell[s] = d) => Routing(d)'
  BY DEF Routing
<1>5. \A n : n.cell \in Cells /\ Sent(n) => Sent(n)'
  BY <1>3 DEF Sent
<1>. QED
  BY <1>1, <1>2, <1>3, <1>4, <1>5

\* A publisher's step that queues nothing.
LEMMA PublishFrame ==
  ASSUME Inv, WakeInv, NEW s \in Selectors,
         spc[s] \notin {"route", "routeLocal"}, spc'[s] \notin {"route", "routeLocal"},
         UNCHANGED <<boundTask, tpc, tcell, tgen, inbox, local, deferred, recheck>>,
         \A t \in Tasks : (busy'[HubOf[t]] = t) <=> (busy[HubOf[t]] = t),
         \A d \in Cells : /\ word'[d].gen = word[d].gen
                          /\ \/ word'[d].phase = word[d].phase
                             \/ word[d].phase = "Claim" /\ word'[d].phase = "Selected",
         \A r \in Selectors : r # s =>
           spc'[r] = spc[r] /\ scell'[r] = scell[r] /\ shub'[r] = shub[r],
         spc'[s] = "observed" => shub'[s] = HubOf[boundTask[scell'[s]]],
         \A u \in Tasks : Pending(u) /\ Revisited(u) => Revisited(u)'
  PROVE  WakeInv'
<1>1. /\ \A u \in Tasks : Pending(u)' <=> Pending(u)
      /\ \A n : \A u \in Tasks : Mine(u, n)' <=> Mine(u, n)
      /\ \A d : Routing(d) => Routing(d)'
      /\ \A n : n.cell \in Cells /\ Sent(n) => Sent(n)'
  BY RouteFrame
<1>2. \A h \in Hubs : /\ Held(h)' = Held(h) /\ inbox'[h] = inbox[h]
                      /\ \A n \in inbox[h] \cup Held(h) : n.cell \in Cells /\ n.task \in Tasks
  BY DEF Held, Inv, TypeOK, Notice
<1>3. WakeUnderway'
  <2>. SUFFICES ASSUME NEW u \in Tasks, Pending(u)'
                PROVE  LET h == HubOf[u] IN
                       \/ Routing(tcell[u])'
                       \/ \E n \in inbox'[h] \cup local'[h] \cup recheck'[h] : Mine(u, n)'
                       \/ (\E n \in deferred'[h] : Mine(u, n)') /\ Revisited(u)'
    BY DEF WakeUnderway
  <2>1. Pending(u) /\ (Routing(tcell[u]) => Routing(tcell[u])')
    BY <1>1 DEF Routing
  <2>. QED
    BY <1>1, <2>1 DEF WakeInv, WakeUnderway
<1>4. HeldSent'
  BY <1>1, <1>2 DEF WakeInv, HeldSent
<1>5. InboxCurrent'
  BY <1>1, <1>2 DEF WakeInv, InboxCurrent, SameWait
<1>6. ObservedHub'
  BY DEF WakeInv, ObservedHub
<1>. QED
  BY <1>3, <1>4, <1>5, <1>6 DEF WakeInv

\* The claim's notice is queued: the slot of its route is free, and no other
\* notice names its wait.
LEMMA EnqueueWake ==
  ASSUME Inv, WakeInv, TypeOK', NEW s \in Selectors, enqueue_selected(s)
  PROVE  WakeInv'
<1>. SUFFICES ASSUME NEW c, NEW t, NEW h, NEW n,
                     c = scell[s], t = boundTask[c], h = HubOf[t],
                     n = [task |-> t, cell |-> c, gen |-> sclaim[s].gen,
                          cause |-> sclaim[s].cause]
              PROVE  WakeInv'
  OBVIOUS
<1>1. /\ spc[s] \in {"route", "routeLocal"} /\ Publishing(s) /\ TypeOK
      /\ spc' = [spc EXCEPT ![s] = "publish"]
      /\ UNCHANGED <<word, boundTask, tpc, tcell, tgen, scell, shub, deferred, recheck,
                     signalled, busy>>
  BY DEF enqueue_selected, Publishing, cellVars, taskVars, Inv
<1>2. /\ c \in Cells /\ word[c].phase = "Claim" /\ sclaim[s].gen = word[c].gen
      /\ word[c] \in Word /\ sclaim[s].hub = word[c].hub
      /\ \A r \in Selectors : Publishing(r) /\ scell[r] = c => r = s
  BY <1>1, PublisherWord
<1>3. /\ t \in Tasks /\ Owns(t, c) /\ target_hub(c, word[c]) = h /\ h \in Hubs
  BY <1>2, WaitCellAssumption DEF Inv, OwnedTarget, WaitCellAssumption
<1>4. tcell[t] = c /\ tgen[t] = word[c].gen /\ Pending(t)
  BY <1>2, <1>3 DEF Owns, Waiting, Pending, Unwoken, Inv, WokenSelected, Woken
<1>5. target_hub(c, sclaim[s]) = h
  BY <1>2, <1>3 DEF target_hub
<1>6. /\ spc'[s] = "publish"
      /\ \A r \in Selectors : r # s => spc'[r] = spc[r] /\ scell'[r] = scell[r]
  BY <1>1 DEF TypeOK
<1>7. /\ \A u \in Tasks : Pending(u)' <=> Pending(u)
      /\ \A m : \A u \in Tasks : Mine(u, m)' <=> Mine(u, m)
      /\ \A d : Routing(d) /\ d # c => Routing(d)'
      /\ \A m : m.cell \in Cells /\ Sent(m) => Sent(m)'
  <2>1. /\ spc'[s] \notin {"route", "routeLocal"}
        /\ \A u \in Tasks : (busy'[HubOf[u]] = u) <=> (busy[HubOf[u]] = u)
    BY <1>1, <1>6
  <2>2. /\ \A d : Routing(d) /\ ~(spc[s] \in {"route", "routeLocal"} /\ scell[s] = d) => Routing(d)'
        /\ \A u \in Tasks : Pending(u)' <=> Pending(u)
        /\ \A m : \A u \in Tasks : Mine(u, m)' <=> Mine(u, m)
        /\ \A m : m.cell \in Cells /\ Sent(m) => Sent(m)'
    BY <1>1, <1>6, <2>1, RouteFrame
  <2>. QED
    BY <2>2
<1>8. Routing(c) /\ ~Routing(c)'
  BY <1>1, <1>2, <1>6 DEF Routing, Publishing
<1>9. \A g \in Hubs : \A m \in inbox[g] \cup Held(g) :
        /\ m.cell \in Cells /\ m.task \in Tasks
        /\ HubOf[m.task] = g /\ Sent(m) /\ ~(m.cell = c /\ m.gen = word[c].gen)
  BY <1>1, <1>8 DEF WakeInv, HeldSent, InboxCurrent, Sent, TypeOK, Held, Notice
<1>10. \A m \in inbox[h] : m.task # t
  BY <1>3, <1>4, <1>9 DEF WakeInv, InboxCurrent, Mine
<1>11. /\ n.task = t /\ n.cell = c /\ n.gen = word[c].gen /\ Mine(t, n) /\ Sent(n)'
  <2>1. n.task = t /\ n.cell = c /\ n.gen = word[c].gen
    BY <1>2
  <2>2. Mine(t, n)
    BY <1>4, <2>1 DEF Mine
  <2>3. word[c].gen \in Nat
    BY <1>2, WaitCellAssumption DEF Word, WaitCellAssumption
  <2>4. Sent(n)'
    BY <1>1, <1>2, <1>8, <2>1, <2>3 DEF Sent
  <2>. QED
    BY <2>1, <2>2, <2>4
<1>12. \/ /\ inbox' = inbox
          /\ \A g \in Hubs : local'[g] = IF g = h THEN local[g] \cup {n} ELSE local[g]
       \/ /\ local' = local
          /\ \A g \in Hubs : inbox'[g] = IF g = h THEN inbox[g] \cup {n} ELSE inbox[g]
  <2>1. \/ inbox' = inbox /\ local' = [local EXCEPT ![h] = @ \cup {n}]
        \/ /\ inbox' = IF \E m \in inbox[h] : m.task = n.task THEN inbox
                       ELSE [inbox EXCEPT ![h] = @ \cup {n}]
           /\ local' = local
    BY <1>5 DEF enqueue_selected
  <2>2. ~\E m \in inbox[h] : m.task = n.task
    BY <1>10, <1>11
  <2>. QED
    BY <1>1, <1>3, <2>1, <2>2 DEF TypeOK
<1>13. \A g \in Hubs :
         /\ inbox[g] \subseteq inbox'[g] /\ local[g] \subseteq local'[g]
         /\ g # h => inbox'[g] = inbox[g] /\ Held(g)' = Held(g)
         /\ \/ inbox'[g] = inbox[g]
            \/ g = h /\ inbox'[g] = inbox[g] \cup {n} /\ Held(g)' = Held(g)
         /\ \A m \in Held(g)' : m \in Held(g) \/ (g = h /\ m = n)
  <2>. SUFFICES ASSUME NEW g \in Hubs
                PROVE  /\ inbox[g] \subseteq inbox'[g] /\ local[g] \subseteq local'[g]
                       /\ g # h => inbox'[g] = inbox[g] /\ Held(g)' = Held(g)
                       /\ \/ inbox'[g] = inbox[g]
                          \/ g = h /\ inbox'[g] = inbox[g] \cup {n} /\ Held(g)' = Held(g)
                       /\ \A m \in Held(g)' : m \in Held(g) \/ (g = h /\ m = n)
    OBVIOUS
  <2>1. deferred'[g] = deferred[g] /\ recheck'[g] = recheck[g]
    BY <1>1
  <2>2. CASE /\ inbox' = inbox
             /\ local'[g] = IF g = h THEN local[g] \cup {n} ELSE local[g]
    BY <2>1, <2>2 DEF Held
  <2>3. CASE /\ local' = local
             /\ inbox'[g] = IF g = h THEN inbox[g] \cup {n} ELSE inbox[g]
    BY <2>1, <2>3 DEF Held
  <2>. QED
    BY <1>12, <2>2, <2>3
<1>14. n \in inbox'[h] \cup local'[h]
  BY <1>3, <1>12
<1>15. WakeUnderway'
  <2>. SUFFICES ASSUME NEW u \in Tasks, Pending(u)'
                PROVE  LET g == HubOf[u] IN
                       \/ Routing(tcell[u])'
                       \/ \E m \in inbox'[g] \cup local'[g] \cup recheck'[g] : Mine(u, m)'
                       \/ (\E m \in deferred'[g] : Mine(u, m)') /\ Revisited(u)'
    BY DEF WakeUnderway
  <2>1. CASE tcell[u] = c
    <3>1. u = t
      BY <1>3, <1>7, <2>1, PendingFacts
    <3>2. Mine(u, n)' /\ HubOf[u] = h
      BY <1>7, <1>11, <3>1
    <3>. QED
      BY <1>14, <3>2
  <2>2. CASE tcell[u] # c
    <3>1. Pending(u) /\ HubOf[u] \in Hubs
      BY <1>7, WaitCellAssumption DEF WaitCellAssumption
    <3>2. Routing(tcell[u]) => Routing(tcell[u])'
      BY <1>1, <1>6, <2>2 DEF Routing
    <3>3. Revisited(u) => Revisited(u)'
      BY <1>1, <1>6 DEF Revisited
    <3>. QED
      BY <1>1, <1>7, <1>13, <3>1, <3>2, <3>3 DEF WakeInv, WakeUnderway
  <2>. QED
    BY <2>1, <2>2
<1>16. HeldSent'
  <2>. SUFFICES ASSUME NEW g \in Hubs, NEW m \in Held(g)'
                PROVE  HubOf[m.task] = g /\ Sent(m)'
    BY DEF HeldSent
  <2>1. CASE m \in Held(g)
    BY <1>7, <1>9, <2>1
  <2>2. CASE g = h /\ m = n
    BY <1>11, <2>2
  <2>. QED
    BY <1>13, <2>1, <2>2
<1>17. InboxCurrent'
  <2>. SUFFICES ASSUME NEW g \in Hubs, NEW m \in inbox'[g]
                PROVE  /\ HubOf[m.task] = g
                       /\ Pending(m.task)' /\ Mine(m.task, m)'
                       /\ Sent(m)'
                       /\ \A k \in inbox'[g] : k.task = m.task => k = m
                       /\ \A k \in Held(g)' : ~SameWait(k, m)
    BY DEF InboxCurrent, SameWait
  <2>1. CASE m \in inbox[g]
    <3>1. /\ HubOf[m.task] = g /\ m.task \in Tasks /\ m.cell \in Cells
          /\ Pending(m.task) /\ Mine(m.task, m) /\ Sent(m)
          /\ \A k \in inbox[g] : k.task = m.task => k = m
          /\ \A k \in Held(g) : ~SameWait(k, m)
          /\ ~(m.cell = c /\ m.gen = word[c].gen)
      BY <1>9, <2>1 DEF WakeInv, InboxCurrent
    <3>2. \A k \in inbox'[g] : k.task = m.task => k = m
      BY <1>10, <1>11, <1>13, <2>1, <3>1
    <3>3. \A k \in Held(g)' : ~SameWait(k, m)
      BY <1>11, <1>13, <3>1 DEF SameWait
    <3>. QED
      BY <1>7, <3>1, <3>2, <3>3
  <2>2. CASE m \notin inbox[g]
    <3>1. g = h /\ m = n /\ inbox'[g] = inbox[g] \cup {n} /\ Held(g)' = Held(g)
      BY <1>13, <2>2
    <3>2. \A k \in inbox'[g] : k.task = m.task => k = m
      BY <1>10, <1>11, <3>1
    <3>3. \A k \in Held(g)' : ~SameWait(k, m)
      BY <1>9, <1>11, <3>1 DEF SameWait
    <3>. QED
      BY <1>3, <1>4, <1>7, <1>11, <3>1, <3>2, <3>3
  <2>. QED
    BY <2>1, <2>2
<1>18. ObservedHub'
  BY <1>1, <1>6 DEF WakeInv, ObservedHub
<1>. QED
  BY <1>15, <1>16, <1>17, <1>18 DEF WakeInv

\* A publisher that no one waits for: no notice of its claim was deferred.
\* One whose exchange failed keeps the owner's carrier and signals it.
LEMMA PublishWake ==
  ASSUME Inv, WakeInv, TypeOK', NEW s \in Selectors,
         PublishClaim(s) \/ PublishObserved(s)
  PROVE  WakeInv'
<1>. SUFFICES ASSUME NEW c, NEW w, c = scell[s],
                     \/ PublishClaim(s) /\ w = publish_claim(sclaim[s])
                     \/ PublishObserved(s) /\ w = publish_observed_claim(sclaim[s])
              PROVE  WakeInv'
  OBVIOUS
<1>1. /\ spc[s] \in {"publish", "observed"} /\ Publishing(s) /\ TypeOK
      /\ word[c] = sclaim[s] /\ word' = [word EXCEPT ![c] = w]
      /\ UNCHANGED <<boundTask, tpc, tcell, tgen, inbox, local, deferred, recheck, signalled>>
      /\ Vacate(s) \/ busy' = busy
  BY DEF PublishClaim, PublishObserved, Publishing, Inv, taskVars, kernelVars
<1>2. /\ c \in Cells /\ word[c].phase = "Claim" /\ word[c] \in Word
      /\ \A r \in Selectors : Publishing(r) /\ scell[r] = c => r = s
  BY <1>1, PublisherWord
<1>3. w.phase = "Selected" /\ w.gen = word[c].gen
  BY <1>1, <1>2, WordFields
<1>4. \A d \in Cells : word'[d] = IF d = c THEN w ELSE word[d]
  BY <1>1 DEF TypeOK
<1>5. \A t \in Tasks : (busy'[HubOf[t]] = t) <=> (busy[HubOf[t]] = t)
  BY <1>1, CarrierFrame
<1>6. /\ spc'[s] = IF spc[s] = "publish" THEN "idle" ELSE "signal"
      /\ spc[s] = "observed" => shub'[s] = shub[s]
      /\ \A r \in Selectors : r # s =>
           spc'[r] = spc[r] /\ scell'[r] = scell[r] /\ shub'[r] = shub[r]
  BY <1>1 DEF PublishClaim, PublishObserved, Done, TypeOK
<1>7. \A d \in Cells : /\ word'[d].gen = word[d].gen
                       /\ \/ word'[d].phase = word[d].phase
                          \/ word[d].phase = "Claim" /\ word'[d].phase = "Selected"
  BY <1>2, <1>3, <1>4
<1>8. ASSUME NEW u \in Tasks, Pending(u), Revisited(u) PROVE Revisited(u)'
  <2>1. tcell[u] \in Cells /\ boundTask[tcell[u]] = u
    BY <1>8, PendingFacts
  <2>2. CASE tcell[u] = c
    <3>1. word[c].permit
      BY <1>2, <1>8, <2>2 DEF Revisited
    <3>2. spc[s] = "observed"
      <4>. SUFFICES ASSUME spc[s] # "observed" PROVE FALSE
        OBVIOUS
      <4>1. with_permit(word[c], FALSE) = word[c]
        BY <1>1 DEF Inv, ClaimExclusive
      <4>2. with_permit(word[c], FALSE).permit = FALSE
        BY <1>2 DEF with_permit, Word
      <4>. QED
        BY <3>1, <4>1, <4>2
    <3>3. shub[s] = HubOf[u]
      BY <2>1, <2>2, <3>2 DEF WakeInv, ObservedHub
    <3>4. spc'[s] = "signal" /\ shub'[s] = HubOf[u]
      BY <1>6, <3>2, <3>3
    <3>. QED
      BY <1>1, <1>3, <1>4, <2>1, <2>2, <3>4 DEF Revisited
  <2>3. CASE tcell[u] # c
    <3>1. word'[tcell[u]] = word[tcell[u]]
      BY <1>4, <2>1, <2>3
    <3>. QED
      BY <1>1, <1>6, <1>8, <3>1 DEF Revisited
  <2>. QED
    BY <2>2, <2>3
<1>9. spc'[s] \notin {"route", "routeLocal", "observed"} /\ spc[s] \notin {"route", "routeLocal"}
  BY <1>1, <1>6
<1>. QED
  BY <1>1, <1>5, <1>6, <1>7, <1>8, <1>9, PublishFrame

\* A publisher that sees the owner's interest retains the owner's carrier, and
\* signals it in the end.
LEMMA SignalWake ==
  ASSUME Inv, WakeInv, TypeOK', NEW s \in Selectors,
         ObserveInterest(s) \/ publication_complete(s)
  PROVE  WakeInv'
<1>1. /\ spc[s] \in {"publish", "signal"} /\ spc'[s] \in {"observed", "idle"} /\ TypeOK
      /\ UNCHANGED <<word, boundTask, tpc, tcell, tgen, inbox, local, deferred, recheck>>
      /\ Vacate(s) \/ busy' = busy
      /\ \A r \in Selectors : r # s =>
           spc'[r] = spc[r] /\ scell'[r] = scell[r] /\ shub'[r] = shub[r]
  BY DEF ObserveInterest, publication_complete, Done, Inv, TypeOK, cellVars, taskVars, kernelVars
<1>2. \A t \in Tasks : (busy'[HubOf[t]] = t) <=> (busy[HubOf[t]] = t)
  BY <1>1, CarrierFrame
<1>3. ASSUME spc'[s] = "observed"
      PROVE  shub'[s] = HubOf[boundTask[scell'[s]]]
  <2>1. ObserveInterest(s) /\ Publishing(s)
    BY <1>3 DEF publication_complete, Done, Inv, TypeOK, ObserveInterest, Publishing
  <2>2. scell[s] \in Cells /\ word[scell[s]].phase = "Claim"
    BY <2>1, PublisherWord
  <2>3. target_hub(scell[s], word[scell[s]]) = HubOf[boundTask[scell[s]]]
    BY <2>2 DEF Inv, OwnedTarget
  <2>4. scell' = scell /\ shub'[s] = target_hub(scell[s], word[scell[s]])
    BY <1>1, <2>1 DEF ObserveInterest, TypeOK
  <2>. QED
    BY <2>3, <2>4
<1>4. ASSUME NEW u \in Tasks, Pending(u), Revisited(u) PROVE Revisited(u)'
  <2>1. HubOf[u] \in Hubs
    BY WaitCellAssumption DEF WaitCellAssumption
  <2>2. signalled[HubOf[u]] => signalled'[HubOf[u]]
    BY <1>1, <2>1 DEF ObserveInterest, publication_complete, kernelVars, TypeOK
  <2>3. spc[s] = "signal" /\ shub[s] = HubOf[u] => signalled'[HubOf[u]]
    BY <1>1, <2>1 DEF ObserveInterest, publication_complete, TypeOK
  <2>. QED
    BY <1>1, <1>4, <2>2, <2>3 DEF Revisited
<1>5. \A d \in Cells : word'[d].gen = word[d].gen /\ word'[d].phase = word[d].phase
  BY <1>1
<1>6. spc'[s] \notin {"route", "routeLocal"} /\ spc[s] \notin {"route", "routeLocal"}
  BY <1>1
<1>. QED
  BY <1>1, <1>2, <1>3, <1>4, <1>5, <1>6, PublishFrame

-----------------------------------------------------------------------------
(* The theorem. *)

\* Before the first wait no wake is owed and no notice is queued.
LEMMA InitWake == Init => WakeInv
<1>. SUFFICES ASSUME Init PROVE WakeInv
  OBVIOUS
<1>1. /\ \A t \in Tasks : tpc[t] = "out"
      /\ \A s \in Selectors : spc[s] = "idle"
      /\ \A h \in Hubs : inbox[h] = {} /\ Held(h) = {}
  BY DEF Init, Held
<1>. QED
  BY <1>1 DEF WakeInv, WakeUnderway, Pending, Unwoken, InboxCurrent, HeldSent, ObservedHub

\* Every step keeps the wake of a won wait under way.
LEMMA NextWake ==
  ASSUME Inv, WakeInv, TypeOK', [Next]_vars
  PROVE  WakeInv'
<1>1. ASSUME NEW t \in Tasks, TaskStep(t) PROVE WakeInv'
  BY <1>1, CallWake, BeginWake, finishWake, RollbackWake DEF TaskStep
<1>2. ASSUME NEW s \in Selectors, RouteStep(s) PROVE WakeInv'
  BY <1>2, EnqueueWake, PublishWake, SignalWake DEF RouteStep
<1>3. CASE UNCHANGED vars
  <2>1. UNCHANGED <<word, boundTask, tpc, tcell, tgen, selVars, kernelVars, busy>>
    BY <1>3 DEF vars, cellVars, taskVars
  <2>2. CASE \E c \in Cells : TRUE
    BY <2>1, <2>2, StoreWake
  <2>3. CASE Cells = {}
    <3>1. \A t \in Tasks : ~Pending(t)
      BY <2>3, PendingFacts
    <3>2. \A n \in Notice : FALSE
      BY <2>3 DEF Notice
    <3>3. \A h \in Hubs : inbox[h] = {} /\ Held(h) = {}
      <4>1. \A h \in Hubs : /\ inbox[h] \subseteq Notice /\ local[h] \subseteq Notice
                            /\ deferred[h] \subseteq Notice /\ recheck[h] \subseteq Notice
        BY DEF Inv, TypeOK
      <4>. QED
        BY <3>2, <4>1 DEF Held
    <3>. QED
      BY <2>1, <3>1, <3>3 DEF WakeInv, WakeUnderway, InboxCurrent, HeldSent, ObservedHub, selVars,
                        kernelVars, Pending, Unwoken, Owns, Waiting, Held
  <2>. QED
    BY <2>2, <2>3
<1>. QED
  BY <1>1, <1>2, <1>3, KernelWake, abortWake, defer_abortWake, SelectWake, ResidentWake
     DEF Next, AbortStep

\* NoLostWake: the wake of a parked task whose generation was selected is
\* queued, or deferred with the signal that revisits it raised or about to be.
THEOREM WakesAreNeverLost == Spec => []NoLostWake
<1>1. Init => WakeInv
  BY InitWake
<1>2. Inv /\ Inv' /\ WakeInv /\ [Next]_vars => WakeInv'
  BY NextWake DEF Inv
<1>3. Inv /\ WakeInv => NoLostWake
  <2>. SUFFICES ASSUME Inv, WakeInv, NEW t \in Tasks,
                       Parked(t), Owns(t, tcell[t]), word[tcell[t]].phase = "Selected"
                PROVE  LET h == HubOf[t] IN
                       \/ \E n \in inbox[h] \cup local[h] \cup recheck[h] : Mine(t, n)
                       \/ /\ \E n \in deferred[h] : Mine(t, n)
                          /\ signalled[h] \/ \E s \in Selectors : spc[s] = "signal" /\ shub[s] = h
    BY DEF NoLostWake
  <2>1. Pending(t)
    BY DEF Pending, Unwoken, Parked
  <2>2. ~Routing(tcell[t])
    BY DEF Routing, Inv, ClaimExclusive, Publishing
  <2>. QED
    BY <2>1, <2>2 DEF WakeInv, WakeUnderway, Revisited
<1>. QED
  BY <1>1, <1>2, <1>3, Ownership, PTL DEF Spec
=============================================================================
