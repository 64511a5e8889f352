---------------------------- MODULE KernelProofs ----------------------------
(***************************************************************************)
(* The scheduler of a carrier, for every set of tasks, scopes, aborts and  *)
(* deadlines: a live task is in one place, what is queued for a route is   *)
(* about the wait parked there, a borrowed child runs only while its owner *)
(* does, and a carrier that halts has nothing left.  Last, an entry of the *)
(* ready queue is served within its bound, whatever keeps arriving.        *)
(***************************************************************************)
EXTENDS Scheduler, LineLemmas, FiniteSetTheorems

-----------------------------------------------------------------------------
(* The inductive invariant *)

KeySet == Kinds \X Nat
Parking == [key : KeySet, token : Tasks \X Nat]
Notification == [route : KeySet, task : Tasks, token : Tasks \X Nat]
Runnable == [normal : LineOf(KeySet), wakes : LineOf(KeySet), streak : Nat]
Phases == {"top", "stop", "requests", "sweep", "retry", "deferred", "wakes", "timers", "expired",
           "select", "late", "select_late", "mount", "run", "discard", "halt"}

Types ==
  /\ slab \in [Kinds -> Seq(Tasks \cup {NoTask})] /\ vacant \in [Kinds -> LineOf(Nat)]
  /\ ready \in Runnable
  /\ in_flight \in KeySet \cup {NoTask}
  /\ parked \subseteq Parking /\ timers \subseteq parked
  /\ hub \subseteq Notification /\ deferred \subseteq Notification /\ local \in LineOf(Notification)
  /\ starts \in LineOf(Kids) /\ inbox \in LineOf(Roots)
  /\ aborts \subseteq Scopes \cup {All} /\ flagged \subseteq Scopes
  /\ requests \in [Scopes \cup {All} -> {"none", "posted", "taken", "never"}]
  /\ cell \in [Tasks -> [phase : {"Idle", "Active", "Claim", "Selected"}, n : Nat,
                         join : BOOLEAN, seen : BOOLEAN]]
  /\ lease \in [Kids -> {"none", "Ready", "Running", "Reclaimed"}]
  /\ scope \in [Roots -> {"none", "open", "closed"}]
  /\ place \in [Tasks -> {"new", "inbox", "starts", "live", "done"}]
  /\ at \in Phases
  /\ job \in [keys : SUBSET KeySet, back : {"top", "requests", "retry", "halt"}]

\* The free list of a slab has its free slots, each once.
Vacancies(s, v) == \A k \in Kinds : ToSet(v[k]) = {i \in 1..Len(s[k]) : s[k][i] = NoTask}
SlabFits == Vacancies(slab, vacant)

\* A live task has one key, of its kind.
Lives ==
  /\ \A x \in LiveKeys : kind(Task(x)) = x[1] /\ place[Task(x)] = "live"
  /\ \A x, y \in LiveKeys : Task(x) = Task(y) => x = y
  /\ \A t \in Tasks : place[t] = "live" => \E x \in LiveKeys : Task(x) = t

\* A key is in one of the queues or in flight.
Placed ==
  /\ ToSet(ready.normal) \cap ToSet(ready.wakes) = {}
  /\ \A p \in parked : p.key \notin ToSet(ready.normal) /\ p.key \notin ToSet(ready.wakes)
                       /\ p.key # in_flight
  /\ \A p, q \in parked : p.key = q.key => p = q
  /\ in_flight \notin ToSet(ready.normal) /\ in_flight \notin ToSet(ready.wakes)
  /\ \A x : x \in LiveKeys <=>
       \/ x \in ToSet(ready.normal) \/ x \in ToSet(ready.wakes)
       \/ x = in_flight /\ x # NoTask
       \/ \E p \in parked : p.key = x

\* A task on its way is in the queue its record names.
Arrivals ==
  /\ \A r \in Roots : (r \in ToSet(inbox) <=> place[r] = "inbox") /\ place[r] # "starts"
  /\ \A k \in Kids : (k \in ToSet(starts) <=> place[k] = "starts") /\ place[k] # "inbox"

\* A parked task waits with its current token; a wait to win or being won is parked.
Waits ==
  /\ \A p \in parked : p.token = token(Task(p.key))
  /\ \A t \in Tasks : cell[t].phase \in {"Active", "Claim"} => \E p \in parked : Task(p.key) = t

\* A notice is about the wait parked on its route, which somebody has won.
Heard(n) ==
  /\ \E p \in parked : p.key = n.route /\ p.token = n.token /\ Task(p.key) = n.task
  /\ cell[n.task].phase # "Active"
Notices ==
  /\ \A n \in hub : Heard(n) /\ n \notin deferred /\ n \notin ToSet(local)
  /\ \A n \in deferred : Heard(n) /\ n \notin ToSet(local)
  /\ \A n \in ToSet(local) : Heard(n)

\* What each phase of the loop relies on.
Phase ==
  /\ at = "deferred" => todo \subseteq deferred
  /\ at = "retry" \/ (at = "discard" /\ job.back = "retry") => todo \subseteq Scopes \cup {All}
  /\ at = "stop" => requests[All] = "posted"
  /\ at \in {"mount", "run"} => in_flight # NoTask
  /\ in_flight # NoTask => at \in {"mount", "run"} \/ in_flight \in job.keys
  /\ at # "discard" => job = NoJob

\* The tasks to discard are live and nobody holds their waits; a root takes
\* its live children with it.
Doomed ==
  /\ job.keys \subseteq LiveKeys
  /\ \A x \in job.keys : cell[Task(x)].phase \notin {"Active", "Claim"}
  /\ \A x \in job.keys, y \in LiveKeys :
       Task(y) \in Kids /\ OwnerOf[Task(y)] = Task(x) => y \in job.keys

\* A stack borrows from an open scope of a live owner.
Leases ==
  /\ \A k \in Kids : lease[k] \in {"Ready", "Running"} => scope[OwnerOf[k]] = "open"
  /\ \A k \in Kids : place[k] \in {"starts", "live"} => lease[k] # "none"
  /\ \A k \in Kids : place[k] = "live" /\ lease[k] = "Reclaimed" =>
       cell[k].phase \notin {"Active", "Claim"}
  /\ \A r \in Roots : scope[r] = "open" => place[r] = "live"
  /\ at = "run" /\ Task(in_flight) \in Kids => lease[Task(in_flight)] = "Running"

\* The abort of a stop leaves nothing that could still arrive.
Halting ==
  at = "halt" \/ (at = "discard" /\ job.back = "halt") =>
    /\ aborts = {} /\ starts = <<>> /\ inbox = <<>> /\ requests[All] = "posted"
    /\ LiveKeys \subseteq job.keys

IInv == /\ Types /\ SlabFits /\ Lives /\ Placed /\ Arrivals /\ Waits /\ Notices
        /\ Phase /\ Doomed /\ Leases /\ Halting

-----------------------------------------------------------------------------
(* Queues *)

\* A sequence's range is the set of its members.
LEMMA RangeIsToSet == \A s : Range(s) = ToSet(s)
BY DEF Range, ToSet

\* The values of retain's recursive function.
RetainStep(s, kept, f) ==
  f = [i \in 0..Len(s) |-> IF i = 0 THEN <<>>
                           ELSE IF s[i] \in kept THEN Append(f[i - 1], s[i]) ELSE f[i - 1]]

\* VecDeque::retain keeps the members that it is to keep, in order.
LEMMA RetainFacts ==
  ASSUME NEW T, NEW s \in LineOf(T), NEW kept
  PROVE  retain(s, kept) \in LineOf(T) /\ ToSet(retain(s, kept)) = ToSet(s) \cap kept
<1>1. /\ s \in Seq(T) /\ Len(s) \in Nat /\ \A i \in 1..Len(s) : s[i] \in T
      /\ \A i, j \in 1..Len(s) : s[i] = s[j] => i = j
      /\ \A x : x \in ToSet(s) <=> \E i \in 1..Len(s) : s[i] = x
  BY InLine
<1>. DEFINE g == [p \in Nat \X Seq(T) |->
                    IF p[1] \in 1..Len(s) /\ s[p[1]] \in kept THEN Append(p[2], s[p[1]]) ELSE p[2]]
<1>2. g \in [Nat \X Seq(T) -> Seq(T)]
  <2>1. ASSUME NEW p \in Nat \X Seq(T)
        PROVE  (IF p[1] \in 1..Len(s) /\ s[p[1]] \in kept THEN Append(p[2], s[p[1]]) ELSE p[2]) \in Seq(T)
    BY <1>1, AppendProperties
  <2>. QED
    BY <2>1
<1>3. <<>> \in Seq(T)
  BY EmptySeq
<1>4. PICK h \in [0..Len(s) -> Seq(T)] : Iterates(h, <<>>, g, Len(s))
  <2>. HIDE DEF g
  <2>. QED
    BY <1>1, <1>2, <1>3, Recursion
<1>5. RetainStep(s, kept, h)
  <2>1. ASSUME NEW i \in 0..Len(s)
        PROVE  h[i] = IF i = 0 THEN <<>>
                      ELSE IF s[i] \in kept THEN Append(h[i - 1], s[i]) ELSE h[i - 1]
    <3>1. CASE i = 0
      BY <1>4, <3>1 DEF Iterates
    <3>2. CASE i # 0
      <4>1. i \in 1..Len(s) /\ i > 0 /\ i - 1 \in 0..Len(s)
        BY <1>1, <3>2
      <4>2. h[i - 1] \in Seq(T) /\ <<i, h[i - 1]>> \in Nat \X Seq(T)
        BY SMTT(30), <1>4, <4>1
      <4>3. h[i] = IF s[i] \in kept THEN Append(h[i - 1], s[i]) ELSE h[i - 1]
        BY <1>4, <4>1, <4>2 DEF Iterates
      <4>. QED
        BY <4>1, <4>3
    <3>. QED
      BY <3>1, <3>2
  <2>. QED
    BY <1>4, <2>1 DEF RetainStep
<1>. DEFINE f == CHOOSE f : RetainStep(s, kept, f)
<1>6. RetainStep(s, kept, f)
  BY <1>5
<1>7. retain(s, kept) = f[Len(s)]
  BY Zenon DEF retain, RetainStep
<1>. HIDE DEF f
<1>8. /\ f[0] = <<>>
      /\ \A i \in 1..Len(s) : f[i] = IF s[i] \in kept THEN Append(f[i - 1], s[i]) ELSE f[i - 1]
  <2>1. f[0] = <<>>
    BY <1>1, <1>6 DEF RetainStep
  <2>2. ASSUME NEW i \in 1..Len(s)
        PROVE  f[i] = IF s[i] \in kept THEN Append(f[i - 1], s[i]) ELSE f[i - 1]
    <3>1. i \in 0..Len(s) /\ i # 0
      BY <1>1
    <3>. QED
      BY <1>6, <3>1 DEF RetainStep
  <2>. QED
    BY <2>1, <2>2
<1>. DEFINE Good(i) == /\ f[i] \in LineOf(T)
                       /\ ToSet(f[i]) = {s[j] : j \in 1..i} \cap kept
            Bad == {i \in 0..Len(s) : ~Good(i)}
<1>9. Bad = {}
  <2>1. SUFFICES ASSUME Bad # {} PROVE FALSE
    OBVIOUS
  <2>2. Bad \in SUBSET Nat
    OBVIOUS
  <2>3. PICK m \in Bad : \A y \in Bad : m <= y
    BY <2>1, <2>2, LeastNat
  <2>4. m # 0
    <3>1. {s[j] : j \in 1..0} = {}
      OBVIOUS
    <3>2. Good(0)
      BY <1>8, <3>1, NobodyInLine
    <3>. QED
      BY <3>2
  <2>5. m \in 1..Len(s) /\ m - 1 \in 0..Len(s) /\ Good(m - 1)
    <3>1. m \in 0..Len(s)
      BY <2>3
    <3>2. m \in 1..Len(s) /\ m - 1 \in 0..Len(s) /\ m - 1 \in Nat /\ ~ (m <= m - 1)
      BY <1>1, <2>4, <3>1
    <3>. HIDE DEF Good
    <3>3. m - 1 \notin Bad
      BY <2>3, <3>2
    <3>. QED
      BY <3>2, <3>3
  <2>. DEFINE P == {s[j] : j \in 1..(m - 1)}
              Q == {s[j] : j \in 1..m}
  <2>6. Q = P \cup {s[m]} /\ s[m] \notin P /\ s[m] \in T
    <3>1. m \in Nat /\ \A j \in 1..(m - 1) : j \in 1..Len(s) /\ j # m
      BY <1>1, <2>5
    <3>2. \A j \in 1..m : j = m \/ j \in 1..(m - 1)
      BY <2>5
    <3>3. \A j \in 1..(m - 1) : j \in 1..m
      BY <2>5
    <3>4. m \in 1..m
      BY <2>5
    <3>5. \A x \in Q : x \in P \cup {s[m]}
      BY <3>2
    <3>6. \A x \in P \cup {s[m]} : x \in Q
      BY <3>3, <3>4
    <3>7. s[m] \notin P
      BY <1>1, <2>5, <3>1
    <3>. QED
      BY <1>1, <2>5, <3>5, <3>6, <3>7
  <2>7. f[m - 1] \in LineOf(T) /\ ToSet(f[m - 1]) = P \cap kept
    BY <2>5
  <2>8. f[m] = IF s[m] \in kept THEN Append(f[m - 1], s[m]) ELSE f[m - 1]
    BY <1>8, <2>5
  <2>9. Good(m) <=> f[m] \in LineOf(T) /\ ToSet(f[m]) = Q \cap kept
    OBVIOUS
  <2>. HIDE DEF P, Q, Good
  <2>10. CASE s[m] \in kept
    <3>1. s[m] \notin ToSet(f[m - 1])
      BY <2>6, <2>7
    <3>2. f[m] \in LineOf(T) /\ ToSet(f[m]) = ToSet(f[m - 1]) \cup {s[m]}
      BY <2>6, <2>7, <2>8, <2>10, <3>1, JoinLine
    <3>3. ToSet(f[m]) = Q \cap kept
      BY <2>6, <2>7, <2>10, <3>2
    <3>. QED
      BY <2>3, <2>9, <3>2, <3>3
  <2>11. CASE s[m] \notin kept
    <3>1. ToSet(f[m]) = Q \cap kept
      BY <2>6, <2>7, <2>8, <2>11
    <3>. QED
      BY <2>3, <2>7, <2>8, <2>9, <2>11, <3>1
  <2>. QED
    BY <2>10, <2>11
<1>10. Good(Len(s))
  BY <1>1, <1>9
<1>11. {s[j] : j \in 1..Len(s)} = ToSet(s)
  BY <1>1
<1>. QED
  BY <1>7, <1>10, <1>11

\* push_front: the newcomer stands before the others.
LEMMA JumpLine ==
  ASSUME NEW T, NEW s \in LineOf(T), NEW t \in T, t \notin ToSet(s)
  PROVE  <<t>> \o s \in LineOf(T) /\ ToSet(<<t>> \o s) = {t} \cup ToSet(s)
<1>1. /\ s \in Seq(T) /\ Len(s) \in Nat
      /\ \A i, j \in 1..Len(s) : s[i] = s[j] => i = j
      /\ \A x : x \in ToSet(s) <=> \E i \in 1..Len(s) : s[i] = x
  BY InLine
<1>. DEFINE q == <<t>> \o s
<1>2. /\ q \in Seq(T) /\ Len(q) = Len(s) + 1
      /\ \A i \in 1..(Len(s) + 1) : q[i] = IF i = 1 THEN t ELSE s[i - 1]
  BY <1>1
<1>. HIDE DEF q
<1>3. \A i \in 1..(Len(s) + 1) : i # 1 => i - 1 \in 1..Len(s)
  BY <1>1
<1>4. \A i, j \in 1..Len(q) : q[i] = q[j] => i = j
  <2>1. SUFFICES ASSUME NEW i \in 1..(Len(s) + 1), NEW j \in 1..(Len(s) + 1), q[i] = q[j]
                 PROVE  i = j
    BY <1>2
  <2>2. (i = 1) <=> (j = 1)
    BY SMTT(30), <1>1, <1>2, <1>3, <2>1
  <2>3. CASE i # 1 /\ j # 1
    <3>1. s[i - 1] = s[j - 1]
      BY <1>2, <2>1, <2>3
    <3>2. i - 1 = j - 1
      BY <1>1, <1>3, <2>3, <3>1
    <3>. QED
      BY <3>2
  <2>. QED
    BY <2>2, <2>3
<1>5. q \in LineOf(T)
  BY <1>2, <1>4, IsLine
<1>6. \A x : x \in ToSet(q) <=> \E i \in 1..(Len(s) + 1) : q[i] = x
  BY <1>2, <1>5, InLine
<1>7. \A x \in ToSet(q) : x \in {t} \cup ToSet(s)
  BY <1>1, <1>2, <1>3, <1>6
<1>8. \A x \in ToSet(s) : x \in ToSet(q)
  <2>1. \A i \in 1..Len(s) : i + 1 \in 1..(Len(s) + 1) /\ q[i + 1] = s[i]
    BY <1>1, <1>2
  <2>. QED
    BY <1>1, <1>6, <2>1
<1>9. t \in ToSet(q)
  <2>1. 1 \in 1..(Len(s) + 1) /\ q[1] = t
    BY <1>1, <1>2
  <2>. QED
    BY <1>6, <2>1
<1>. QED
  BY <1>5, <1>7, <1>8, <1>9 DEF q

\* One sequence after the other has the members of both.
LEMMA ConcatMembers ==
  ASSUME NEW T, NEW a \in Seq(T), NEW b \in Seq(T)
  PROVE  a \o b \in Seq(T) /\ ToSet(a \o b) = ToSet(a) \cup ToSet(b)
<1>1. Len(a) \in Nat /\ Len(b) \in Nat
  BY LenProperties
<1>. DEFINE q == a \o b
<1>2. /\ q \in Seq(T) /\ Len(q) = Len(a) + Len(b)
      /\ \A i \in 1..(Len(a) + Len(b)) : q[i] = IF i <= Len(a) THEN a[i] ELSE b[i - Len(a)]
  BY ConcatProperties
<1>. HIDE DEF q
<1>3. /\ \A x : x \in ToSet(q) <=> \E i \in 1..(Len(a) + Len(b)) : q[i] = x
      /\ \A x : x \in ToSet(a) <=> \E i \in 1..Len(a) : a[i] = x
      /\ \A x : x \in ToSet(b) <=> \E i \in 1..Len(b) : b[i] = x
  BY <1>2, LenProperties DEF ToSet
<1>4. \A i \in 1..(Len(a) + Len(b)) : i <= Len(a) => i \in 1..Len(a)
  BY <1>1
<1>5. \A i \in 1..(Len(a) + Len(b)) : ~ (i <= Len(a)) => i - Len(a) \in 1..Len(b)
  BY <1>1
<1>6. \A i \in 1..Len(a) : i \in 1..(Len(a) + Len(b)) /\ q[i] = a[i]
  BY <1>1, <1>2
<1>7. \A i \in 1..Len(b) : i + Len(a) \in 1..(Len(a) + Len(b)) /\ q[i + Len(a)] = b[i]
  BY SMTT(30), <1>1, <1>2
<1>8. \A x \in ToSet(q) : x \in ToSet(a) \cup ToSet(b)
  BY <1>2, <1>3, <1>4, <1>5
<1>9. \A x \in ToSet(a) \cup ToSet(b) : x \in ToSet(q)
  BY <1>3, <1>6, <1>7
<1>. QED
  BY <1>2, <1>8, <1>9 DEF q

\* Taking the entry at a position.
LEMMA TakeAt ==
  ASSUME NEW T, NEW s \in LineOf(T), NEW i \in 1..Len(s)
  PROVE  /\ s[i] \in T /\ s[i] \in ToSet(s)
         /\ RemoveAt(s, i) \in LineOf(T) /\ ToSet(RemoveAt(s, i)) = ToSet(s) \ {s[i]}
BY InLine, RemoveFirstIsRemoveAt, LeaveLine

\* The first and the last of some positions.
LEMMA MinMember ==
  ASSUME NEW S \in SUBSET Nat, S # {}
  PROVE  Min(S) \in S /\ \A x \in S : Min(S) <= x
<1>1. \E x \in S : \A y \in S : x <= y
  BY LeastNat
<1>. QED
  BY <1>1 DEF Min

\* The greatest of a finite set of numbers is one of them.
LEMMA MaxMember ==
  ASSUME NEW n \in Nat, NEW S \in SUBSET (1..n), S # {}
  PROVE  Max(S) \in S
<1>. DEFINE D == {n - x : x \in S}
<1>1. D \in SUBSET Nat /\ D # {}
  <2>1. \A x \in S : n - x \in Nat
    OBVIOUS
  <2>2. PICK x \in S : TRUE
    OBVIOUS
  <2>3. n - x \in D
    BY <2>2
  <2>. QED
    BY <2>1, <2>3
<1>2. PICK d \in D : \A y \in D : d <= y
  BY <1>1, LeastNat
<1>3. PICK x \in S : d = n - x
  BY <1>2
<1>4. \A y \in S : x >= y
  <2>1. SUFFICES ASSUME NEW y \in S PROVE x >= y
    OBVIOUS
  <2>2. n - y \in D
    OBVIOUS
  <2>3. n - x <= n - y
    BY <1>2, <1>3, <2>2
  <2>4. x \in Nat /\ y \in Nat
    OBVIOUS
  <2>. QED
    BY <2>3, <2>4
<1>. HIDE DEF D
<1>5. \E z \in S : \A y \in S : z >= y
  BY <1>4
<1>. QED
  BY <1>5 DEF Max

\* A line has as many members as positions.
LEMMA LineSize ==
  ASSUME NEW T, NEW s \in LineOf(T)
  PROVE  IsFiniteSet(ToSet(s)) /\ Cardinality(ToSet(s)) = Len(s)
<1>1. /\ Len(s) \in Nat /\ s \in [1..Len(s) -> ToSet(s)]
      /\ \A i, j \in 1..Len(s) : s[i] = s[j] => i = j
      /\ \A x \in ToSet(s) : \E i \in 1..Len(s) : s[i] = x
  BY InLine, LenProperties
<1>2. s \in Bijection(1..Len(s), ToSet(s))
  BY <1>1 DEF Bijection, Injection, Surjection, IsInjective
<1>3. ExistsBijection(1..Len(s), ToSet(s))
  BY <1>2 DEF ExistsBijection
<1>4. IsFiniteSet(1..Len(s)) /\ Cardinality(1..Len(s)) = Len(s)
  <2>1. /\ IsFiniteSet(1..Len(s))
        /\ Cardinality(1..Len(s)) = IF 1 > Len(s) THEN 0 ELSE Len(s) - 1 + 1
    BY <1>1, 1 \in Int, Len(s) \in Int, FS_Interval
  <2>. QED
    BY <1>1, <2>1
<1>. QED
  BY <1>3, <1>4, FS_Bijection

-----------------------------------------------------------------------------
(* The ready queue *)

\* A selection r from q: nothing, or an entry of one lane, which loses it.
Popped(q, r) ==
  /\ r.queue \in Runnable
  /\ \/ /\ r.entry = Nothing
        /\ ToSet(r.queue.normal) = ToSet(q.normal) /\ ToSet(r.queue.wakes) = ToSet(q.wakes)
     \/ /\ r.entry \in ToSet(q.normal) /\ ToSet(r.queue.normal) = ToSet(q.normal) \ {r.entry}
        /\ ToSet(r.queue.wakes) = ToSet(q.wakes)
     \/ /\ r.entry \in ToSet(q.wakes) /\ ToSet(r.queue.wakes) = ToSet(q.wakes) \ {r.entry}
        /\ ToSet(r.queue.normal) = ToSet(q.normal)

\* Taking a position of a lane.
LEMMA TakenFacts ==
  ASSUME NEW q \in Runnable, NEW n \in Nat
  PROVE  /\ \A i \in 1..Len(q.normal) : Popped(q, Taken(q, "normal", i, n))
         /\ \A i \in 1..Len(q.wakes) : Popped(q, Taken(q, "wakes", i, n))
<1>1. q.normal \in LineOf(KeySet) /\ q.wakes \in LineOf(KeySet)
  BY DEF Runnable
<1>2. ASSUME NEW i \in 1..Len(q.normal)
      PROVE  Popped(q, Taken(q, "normal", i, n))
  <2>. DEFINE r == Taken(q, "normal", i, n)
              e == q.normal[i]
              l == RemoveAt(q.normal, i)
  <2>1. e \in ToSet(q.normal) /\ l \in LineOf(KeySet) /\ ToSet(l) = ToSet(q.normal) \ {e}
    BY <1>1, TakeAt
  <2>2. r.entry = e /\ r.queue = [normal |-> l, wakes |-> q.wakes, streak |-> n]
    BY DEF Taken, Runnable
  <2>. HIDE DEF r, e, l
  <2>3. Popped(q, r)
    BY <1>1, <2>1, <2>2 DEF Popped, Runnable
  <2>. QED
    BY <2>3 DEF r
<1>3. ASSUME NEW i \in 1..Len(q.wakes)
      PROVE  Popped(q, Taken(q, "wakes", i, n))
  <2>. DEFINE r == Taken(q, "wakes", i, n)
              e == q.wakes[i]
              l == RemoveAt(q.wakes, i)
  <2>1. e \in ToSet(q.wakes) /\ l \in LineOf(KeySet) /\ ToSet(l) = ToSet(q.wakes) \ {e}
    BY <1>1, TakeAt
  <2>2. r.entry = e /\ r.queue = [normal |-> q.normal, wakes |-> l, streak |-> n]
    BY DEF Taken, Runnable
  <2>. HIDE DEF r, e, l
  <2>3. Popped(q, r)
    BY <1>1, <2>1, <2>2 DEF Popped, Runnable
  <2>. QED
    BY <2>3 DEF r
<1>. QED
  BY <1>2, <1>3

\* The cohort policy selects one entry, whatever is eligible.
LEMMA PopMatching ==
  ASSUME NEW q \in Runnable, NEW eligible
  PROVE  Popped(q, pop_matching(q, eligible))
<1>1. /\ q.normal \in LineOf(KeySet) /\ q.wakes \in LineOf(KeySet) /\ q.streak \in Nat
  BY DEF Runnable
<1>2. /\ DOMAIN q.normal = 1..Len(q.normal) /\ Len(q.normal) \in Nat
      /\ DOMAIN q.wakes = 1..Len(q.wakes) /\ Len(q.wakes) \in Nat
  BY <1>1, InLine
<1>. DEFINE normal == {i \in 1..Len(q.normal) : q.normal[i] \in eligible}
            wakes == {i \in 1..Len(q.wakes) : q.wakes[i] \in eligible}
<1>3. pop_matching(q, eligible) =
        CASE wakes = {} /\ normal = {} -> [entry |-> Nothing, queue |-> q]
          [] wakes = {} /\ normal # {} -> Taken(q, "normal", Min(normal), 0)
          [] wakes # {} /\ q.streak < WAKE_BURST -> Taken(q, "wakes", Min(wakes), q.streak + 1)
          [] wakes # {} /\ q.streak = WAKE_BURST /\ normal # {} -> serve_normal(q, Min(normal))
          [] OTHER -> Taken(q, "wakes", Max(wakes), 0)
  BY <1>2 DEF pop_matching
<1>4. normal # {} => Min(normal) \in 1..Len(q.normal)
  BY SMTT(30), <1>2, MinMember
<1>5. wakes # {} => Min(wakes) \in 1..Len(q.wakes) /\ Max(wakes) \in 1..Len(q.wakes)
  <2>1. wakes # {} => Min(wakes) \in wakes
    <3>1. wakes \in SUBSET Nat
      BY <1>2
    <3>. HIDE DEF wakes
    <3>. QED
      BY <3>1, MinMember
  <2>2. wakes # {} => Max(wakes) \in wakes
    <3>1. wakes \in SUBSET (1..Len(q.wakes))
      OBVIOUS
    <3>. HIDE DEF wakes
    <3>. QED
      BY <1>2, <3>1, MaxMember
  <2>. QED
    BY <2>1, <2>2
<1>. HIDE DEF normal, wakes
<1>. DEFINE r == pop_matching(q, eligible)
<1>6. CASE wakes = {} /\ normal = {}
  <2>1. r = [entry |-> Nothing, queue |-> q]
    BY <1>3, <1>6
  <2>. HIDE DEF r
  <2>2. Popped(q, r)
    BY <2>1 DEF Popped
  <2>. QED
    BY <2>2 DEF r
<1>7. CASE wakes = {} /\ normal # {}
  BY <1>3, <1>4, <1>7, TakenFacts
<1>8. CASE wakes # {} /\ q.streak < WAKE_BURST
  <2>1. r = Taken(q, "wakes", Min(wakes), q.streak + 1)
    BY <1>1, <1>3, <1>8 DEF WAKE_BURST
  <2>. QED
    BY <1>1, <1>5, <1>8, <2>1, TakenFacts
<1>9. CASE wakes # {} /\ q.streak = WAKE_BURST /\ normal # {}
  <2>1. r = Taken(q, "normal", Min(normal), q.streak + 1)
    BY <1>3, <1>9 DEF serve_normal, WAKE_BURST
  <2>. QED
    BY <1>1, <1>4, <1>9, <2>1, TakenFacts
<1>10. CASE wakes # {} /\ ~ (q.streak < WAKE_BURST) /\ ~ (q.streak = WAKE_BURST /\ normal # {})
  <2>1. r = Taken(q, "wakes", Max(wakes), 0)
    BY <1>3, <1>10
  <2>. QED
    BY <1>5, <1>10, <2>1, TakenFacts
<1>. QED
  BY <1>6, <1>7, <1>8, <1>9, <1>10

\* An empty queue only ends its cohort.
LEMMA PopFront ==
  ASSUME NEW q \in Runnable
  PROVE  Popped(q, pop_front(q))
<1>1. q.normal \in LineOf(KeySet) /\ q.wakes \in LineOf(KeySet)
  BY DEF Runnable
<1>2. CASE Size(q) = 0
  <2>1. Len(q.normal) = 0 /\ Len(q.wakes) = 0
    <3>1. Len(q.normal) \in Nat /\ Len(q.wakes) \in Nat
      BY <1>1, InLine
    <3>2. Len(q.normal) + Len(q.wakes) = 0
      BY <1>2 DEF Size
    <3>. DEFINE a == Len(q.normal)
                b == Len(q.wakes)
    <3>3. a \in Nat /\ b \in Nat /\ a + b = 0
      BY <3>1, <3>2
    <3>. HIDE DEF a, b
    <3>4. a = 0 /\ b = 0
      BY <3>3
    <3>. QED
      BY <3>4 DEF a, b
  <2>2. ToSet(q.normal) = {} /\ ToSet(q.wakes) = {}
    BY <1>1, <2>1, InLine
  <2>3. <<>> \in LineOf(KeySet) /\ ToSet(<<>>) = {}
    BY NobodyInLine
  <2>. DEFINE r == pop_front(q)
  <2>4. r.entry = Nothing /\ r.queue = [normal |-> <<>>, wakes |-> <<>>, streak |-> 0]
    BY <1>2 DEF pop_front, EmptyQueue
  <2>. HIDE DEF r
  <2>5. Popped(q, r)
    BY <2>2, <2>3, <2>4 DEF Popped, Runnable
  <2>. QED
    BY <2>5 DEF r
<1>3. CASE Size(q) # 0
  BY <1>3, PopMatching DEF pop_front
<1>. QED
  BY <1>2, <1>3

\* A queue with another lane.
LEMMA LaneUpdate ==
  ASSUME NEW q \in Runnable, NEW v
  PROVE  /\ [q EXCEPT !.normal = v] = [normal |-> v, wakes |-> q.wakes, streak |-> q.streak]
         /\ [q EXCEPT !.wakes = v] = [normal |-> q.normal, wakes |-> v, streak |-> q.streak]
BY DEF Runnable

\* A key that is new to the queue joins a lane; cleanup takes it out.
LEMMA LaneFacts ==
  ASSUME NEW q \in Runnable, NEW x \in KeySet
  PROVE  /\ x \notin ToSet(q.normal) =>
              /\ push_back(q, x) \in Runnable /\ push_front(q, x) \in Runnable
              /\ ToSet(push_back(q, x).normal) = ToSet(q.normal) \cup {x}
              /\ ToSet(push_front(q, x).normal) = ToSet(q.normal) \cup {x}
              /\ push_back(q, x).wakes = q.wakes /\ push_front(q, x).wakes = q.wakes
         /\ x \notin ToSet(q.wakes) =>
              /\ push_wake(q, x) \in Runnable
              /\ ToSet(push_wake(q, x).wakes) = ToSet(q.wakes) \cup {x}
              /\ push_wake(q, x).normal = q.normal
         /\ ToSet(q.normal) \cap ToSet(q.wakes) = {} =>
              /\ remove(q, x) \in Runnable
              /\ ToSet(remove(q, x).normal) = ToSet(q.normal) \ {x}
              /\ ToSet(remove(q, x).wakes) = ToSet(q.wakes) \ {x}
<1>1. q.normal \in LineOf(KeySet) /\ q.wakes \in LineOf(KeySet) /\ q.streak \in Nat
  BY DEF Runnable
<1>2. ASSUME x \notin ToSet(q.normal)
      PROVE  /\ push_back(q, x) \in Runnable /\ push_front(q, x) \in Runnable
             /\ ToSet(push_back(q, x).normal) = ToSet(q.normal) \cup {x}
             /\ ToSet(push_front(q, x).normal) = ToSet(q.normal) \cup {x}
             /\ push_back(q, x).wakes = q.wakes /\ push_front(q, x).wakes = q.wakes
  <2>1. /\ Append(q.normal, x) \in LineOf(KeySet)
        /\ ToSet(Append(q.normal, x)) = ToSet(q.normal) \cup {x}
    BY <1>1, <1>2, JoinLine
  <2>2. /\ <<x>> \o q.normal \in LineOf(KeySet)
        /\ ToSet(<<x>> \o q.normal) = ToSet(q.normal) \cup {x}
    BY <1>1, <1>2, JumpLine
  <2>3. /\ push_back(q, x) = [normal |-> Append(q.normal, x), wakes |-> q.wakes, streak |-> q.streak]
        /\ push_front(q, x) = [normal |-> <<x>> \o q.normal, wakes |-> q.wakes, streak |-> q.streak]
    BY LaneUpdate DEF push_back, push_front
  <2>. QED
    BY <1>1, <2>1, <2>2, <2>3 DEF Runnable
<1>3. ASSUME x \notin ToSet(q.wakes)
      PROVE  /\ push_wake(q, x) \in Runnable
             /\ ToSet(push_wake(q, x).wakes) = ToSet(q.wakes) \cup {x}
             /\ push_wake(q, x).normal = q.normal
  <2>1. /\ <<x>> \o q.wakes \in LineOf(KeySet)
        /\ ToSet(<<x>> \o q.wakes) = ToSet(q.wakes) \cup {x}
    BY <1>1, <1>3, JumpLine
  <2>2. push_wake(q, x) = [normal |-> q.normal, wakes |-> <<x>> \o q.wakes, streak |-> q.streak]
    BY LaneUpdate DEF push_wake
  <2>. QED
    BY <1>1, <2>1, <2>2 DEF Runnable
<1>4. ASSUME ToSet(q.normal) \cap ToSet(q.wakes) = {}
      PROVE  /\ remove(q, x) \in Runnable
             /\ ToSet(remove(q, x).normal) = ToSet(q.normal) \ {x}
             /\ ToSet(remove(q, x).wakes) = ToSet(q.wakes) \ {x}
  <2>1. CASE x \in ToSet(q.normal)
    <3>1. /\ RemoveFirst(q.normal, x) \in LineOf(KeySet)
          /\ ToSet(RemoveFirst(q.normal, x)) = ToSet(q.normal) \ {x}
      BY <1>1, <2>1, LeaveLine
    <3>2. Contains(q.normal, x)
      BY <1>1, <2>1, InLine
    <3>3. remove(q, x) = [normal |-> RemoveFirst(q.normal, x), wakes |-> q.wakes, streak |-> q.streak]
      BY <1>1, <3>2 DEF remove, Runnable
    <3>. QED
      BY <1>1, <1>4, <2>1, <3>1, <3>3 DEF Runnable
  <2>2. CASE x \notin ToSet(q.normal)
    <3>1. /\ RemoveFirst(q.wakes, x) \in LineOf(KeySet)
          /\ ToSet(RemoveFirst(q.wakes, x)) = ToSet(q.wakes) \ {x}
      BY <1>1, LeaveLine, NotInLine
    <3>2. ~Contains(q.normal, x)
      BY <1>1, <2>2, InLine
    <3>3. remove(q, x) = [normal |-> q.normal, wakes |-> RemoveFirst(q.wakes, x), streak |-> q.streak]
      BY <1>1, <3>2 DEF remove, Runnable
    <3>. QED
      BY <1>1, <2>2, <3>1, <3>3 DEF Runnable
  <2>. QED
    BY <2>1, <2>2
<1>. QED
  BY <1>2, <1>3, <1>4

-----------------------------------------------------------------------------
(* Task slabs *)

Slab == [Kinds -> Seq(Tasks \cup {NoTask})]
Occupied(s) == {x \in Slots(s) : s[x[1]][x[2]] # NoTask}

\* The occupied slots of a slab.
LEMMA OccupiedSlots ==
  ASSUME NEW s \in Slab
  PROVE  /\ \A k, i : <<k, i>> \in Occupied(s) <=> k \in Kinds /\ i \in 1..Len(s[k]) /\ s[k][i] # NoTask
         /\ \A x \in Occupied(s) : /\ x \in KeySet /\ x = <<x[1], x[2]>> /\ x[1] \in Kinds
                                   /\ x[2] \in 1..Len(s[x[1]]) /\ s[x[1]][x[2]] \in Tasks
         /\ \A k \in Kinds : Len(s[k]) \in Nat
<1>1. DOMAIN s = Kinds /\ \A k \in Kinds : /\ s[k] \in Seq(Tasks \cup {NoTask}) /\ Len(s[k]) \in Nat
                                           /\ DOMAIN s[k] = 1..Len(s[k])
  BY LenProperties DEF Slab
<1>2. \A x : x \in Slots(s) <=> \E k \in Kinds : x \in {k} \X (1..Len(s[k]))
  BY <1>1 DEF Slots
<1>3. \A k, i : <<k, i>> \in Slots(s) <=> k \in Kinds /\ i \in 1..Len(s[k])
  BY <1>2
<1>4. \A x \in Slots(s) : x = <<x[1], x[2]>> /\ x[1] \in Kinds /\ x[2] \in 1..Len(s[x[1]])
  BY <1>2
<1>5. \A x \in Slots(s) : x \in KeySet /\ s[x[1]][x[2]] \in Tasks \cup {NoTask}
  BY <1>1, <1>4 DEF KeySet
<1>. QED
  BY <1>1, <1>3, <1>4, <1>5 DEF Occupied

\* TaskSlab.insert takes a free slot.
Chosen(q, v) == IF v = <<>> THEN Len(q) + 1 ELSE Last(v)
Filled(q, v, t) == IF v = <<>> THEN Append(q, t) ELSE [q EXCEPT ![Chosen(q, v)] = t]
Left(v) == IF v = <<>> THEN v ELSE Front(v)

\* A record put into a slab takes the chosen slot and moves no other.
LEMMA SlotTaken ==
  ASSUME NEW U, NEW none \in U, NEW t \in U, NEW q \in Seq(U), NEW v \in LineOf(Nat),
         ToSet(v) = {i \in 1..Len(q) : q[i] = none}, t # none
  PROVE  /\ Filled(q, v, t) \in Seq(U) /\ Left(v) \in LineOf(Nat)
         /\ Chosen(q, v) \in 1..Len(Filled(q, v, t)) /\ Filled(q, v, t)[Chosen(q, v)] = t
         /\ Chosen(q, v) \in 1..Len(q) => q[Chosen(q, v)] = none
         /\ \A j : j \in 1..Len(q) => j \in 1..Len(Filled(q, v, t))
         /\ \A j : j \in 1..Len(Filled(q, v, t)) /\ j # Chosen(q, v) =>
              j \in 1..Len(q) /\ Filled(q, v, t)[j] = q[j]
         /\ ToSet(Left(v)) = {j \in 1..Len(Filled(q, v, t)) : Filled(q, v, t)[j] = none}
<1>. DEFINE i == Chosen(q, v)
            r == Filled(q, v, t)
            w == Left(v)
<1>1. /\ v \in Seq(Nat) /\ Len(v) \in Nat /\ \A a, b \in 1..Len(v) : v[a] = v[b] => a = b
      /\ \A x : x \in ToSet(v) <=> \E a \in 1..Len(v) : v[a] = x
      /\ v = <<>> <=> ToSet(v) = {}
  BY InLine
<1>2. Len(q) \in Nat
  BY LenProperties
<1>3. CASE v = <<>>
  <2>1. r = Append(q, t) /\ i = Len(q) + 1 /\ w = v
    BY <1>3 DEF Chosen, Filled, Left
  <2>. HIDE DEF r, i, w
  <2>2. /\ r \in Seq(U) /\ Len(r) = Len(q) + 1 /\ r[i] = t
        /\ \A j \in 1..Len(q) : r[j] = q[j]
    BY <2>1, AppendProperties
  <2>3. \A j : j \in 1..(Len(q) + 1) <=> j \in 1..Len(q) \/ j = Len(q) + 1
    BY <1>2
  <2>4. i \notin 1..Len(q)
    BY <1>2, <2>1
  <2>5. ToSet(w) = {j \in 1..Len(r) : r[j] = none}
    BY <1>1, <1>3, <2>1, <2>2, <2>3
  <2>6. /\ r \in Seq(U) /\ w \in LineOf(Nat) /\ i \in 1..Len(r) /\ r[i] = t
        /\ i \in 1..Len(q) => q[i] = none
        /\ \A j : j \in 1..Len(q) => j \in 1..Len(r)
        /\ \A j : j \in 1..Len(r) /\ j # i => j \in 1..Len(q) /\ r[j] = q[j]
    BY <1>2, <2>1, <2>2, <2>3, <2>4
  <2>. QED
    BY <2>5, <2>6 DEF r, i, w
<1>4. CASE v # <<>>
  <2>1. r = [q EXCEPT ![i] = t] /\ i = v[Len(v)] /\ w = SubSeq(v, 1, Len(v) - 1)
    BY <1>4 DEF Last, Front, Chosen, Filled, Left
  <2>. HIDE DEF r, i, w
  <2>2. Len(v) \in 1..Len(v) /\ Len(v) - 1 \in Nat
    BY <1>1, <1>4, EmptySeq
  <2>3. i \in 1..Len(q) /\ q[i] = none
    BY <1>1, <2>1, <2>2
  <2>4. /\ r \in Seq(U) /\ Len(r) = Len(q) /\ r[i] = t
        /\ \A j \in 1..Len(q) : j # i => r[j] = q[j]
    BY <2>1, <2>3, ExceptSeq
  <2>5. /\ w \in Seq(Nat) /\ Len(w) = Len(v) - 1
        /\ \A j \in 1..(Len(v) - 1) : w[j] = v[j] /\ j \in 1..Len(v) /\ j # Len(v)
    <3>. DEFINE n == Len(v) - 1
    <3>1. n \in Nat /\ \A j \in 1..n : j \in 1..Len(v) /\ j # Len(v) /\ v[j] \in Nat
      BY <1>1, <2>2
    <3>2. /\ SubSeq(v, 1, n) \in Seq(Nat)
          /\ Len(SubSeq(v, 1, n)) = IF 1 <= n THEN n - 1 + 1 ELSE 0
          /\ \A j \in 1..(n - 1 + 1) : SubSeq(v, 1, n)[j] = v[1 + j - 1]
      <4>1. 1 \in Int /\ n \in Int /\ \A j \in 1..n : v[j] \in Nat
        BY <3>1
      <4>. HIDE DEF n
      <4>. QED
        BY <4>1, SubSeqProperties
    <3>3. w = SubSeq(v, 1, n)
      BY <2>1
    <3>. HIDE DEF n
    <3>4. Len(w) = n /\ w \in Seq(Nat) /\ \A j \in 1..n : w[j] = v[j]
      BY <3>1, <3>2, <3>3
    <3>. QED
      BY <3>1, <3>4 DEF n
  <2>6. w \in LineOf(Nat)
    <3>1. \A a, b \in 1..(Len(v) - 1) : w[a] = w[b] => a = b
      BY <1>1, <2>5
    <3>. QED
      BY <2>5, <3>1, IsLine, Zenon
  <2>7. \A x : x \in ToSet(w) <=> \E a \in 1..(Len(v) - 1) : w[a] = x
    BY <2>5, <2>6, InLine
  <2>8. \A a \in 1..Len(v) : a # Len(v) => a \in 1..(Len(v) - 1)
    BY <1>1
  <2>9. ToSet(w) = ToSet(v) \ {i}
    <3>. DEFINE n == Len(v) - 1
    <3>0. /\ i = v[Len(v)] /\ \A j \in 1..n : w[j] = v[j] /\ j \in 1..Len(v) /\ j # Len(v)
          /\ \A x : x \in ToSet(w) <=> \E j \in 1..n : w[j] = x
          /\ \A j \in 1..Len(v) : j # Len(v) => j \in 1..n
      BY <2>1, <2>5, <2>7, <2>8
    <3>. HIDE DEF n
    <3>1. \A x \in ToSet(w) : x \in ToSet(v) /\ x # i
      BY SMTT(30), <1>1, <2>2, <3>0
    <3>2. ASSUME NEW x \in ToSet(v), x # i
          PROVE  x \in ToSet(w)
      <4>1. PICK a \in 1..Len(v) : v[a] = x
        BY <1>1
      <4>2. a \in 1..n /\ w[a] = x
        BY <3>0, <3>2, <4>1
      <4>. QED
        BY <3>0, <4>2
    <3>. QED
      BY <3>1, <3>2
  <2>10. ToSet(w) = {j \in 1..Len(r) : r[j] = none}
    BY <2>3, <2>4, <2>9
  <2>11. /\ r \in Seq(U) /\ w \in LineOf(Nat) /\ i \in 1..Len(r) /\ r[i] = t
         /\ i \in 1..Len(q) => q[i] = none
         /\ \A j : j \in 1..Len(q) => j \in 1..Len(r)
         /\ \A j : j \in 1..Len(r) /\ j # i => j \in 1..Len(q) /\ r[j] = q[j]
    BY <2>3, <2>4, <2>6
  <2>. QED
    BY <2>10, <2>11 DEF r, i, w
<1>. QED
  BY <1>3, <1>4

\* A store whose free lists fit, and the same with every task of S inserted.
Sound(s) == /\ s \in [slab : Slab, vacant : [Kinds -> LineOf(Nat)], ready : Runnable]
            /\ Vacancies(s.slab, s.vacant) /\ ToSet(s.ready.normal) \subseteq Occupied(s.slab)
Fresh(s, r) == Occupied(r.slab) \ Occupied(s.slab)
Grown(s, r, S) ==
  /\ Sound(r)
  /\ \A x \in Occupied(s.slab) : x \in Occupied(r.slab) /\ r.slab[x[1]][x[2]] = s.slab[x[1]][x[2]]
  /\ r.ready.wakes = s.ready.wakes
  /\ ToSet(r.ready.normal) = ToSet(s.ready.normal) \cup Fresh(s, r)
  /\ \A x \in Fresh(s, r) : r.slab[x[1]][x[2]] \in S /\ kind(r.slab[x[1]][x[2]]) = x[1]
  /\ \A t \in S : \E x \in Fresh(s, r) : r.slab[x[1]][x[2]] = t
  /\ \A x, y \in Fresh(s, r) : r.slab[x[1]][x[2]] = r.slab[y[1]][y[2]] => x = y

\* One start more.
LEMMA InsertGrows ==
  ASSUME NEW s, Sound(s), NEW t \in Tasks
  PROVE  Grown(s, insert(s, t), {t})
<1>. DEFINE k == kind(t)
            free == s.vacant[k]
            q == s.slab[k]
            i == Chosen(q, free)
            p == Filled(q, free, t)
            w == Left(free)
            r == insert(s, t)
<1>1. k \in Kinds
  BY DEF kind, Kinds
<1>2. /\ s.slab \in Slab /\ s.vacant \in [Kinds -> LineOf(Nat)] /\ s.ready \in Runnable
      /\ Vacancies(s.slab, s.vacant) /\ ToSet(s.ready.normal) \subseteq Occupied(s.slab)
  BY DEF Sound
<1>3. /\ r.slab = [s.slab EXCEPT ![k] = p]
      /\ r.vacant = [s.vacant EXCEPT ![k] = w]
      /\ r.ready = push_back(s.ready, <<k, i>>)
      /\ r = [slab |-> r.slab, vacant |-> r.vacant, ready |-> r.ready]
  BY <1>1, <1>2 DEF insert, Slab, Chosen, Filled, Left
<1>4. /\ q \in Seq(Tasks \cup {NoTask}) /\ free \in LineOf(Nat)
      /\ ToSet(free) = {j \in 1..Len(q) : q[j] = NoTask} /\ t # NoTask
      /\ q = s.slab[k] /\ free = s.vacant[k]
  BY <1>1, <1>2, KernelAssumption DEF Slab, Vacancies
<1>5. /\ p \in Seq(Tasks \cup {NoTask}) /\ w \in LineOf(Nat) /\ i \in 1..Len(p) /\ p[i] = t
      /\ i \in 1..Len(q) => q[i] = NoTask
      /\ \A j : j \in 1..Len(q) => j \in 1..Len(p)
      /\ \A j : j \in 1..Len(p) /\ j # i => j \in 1..Len(q) /\ p[j] = q[j]
      /\ ToSet(w) = {j \in 1..Len(p) : p[j] = NoTask}
  <2>. HIDE DEF k, q, free
  <2>. DEFINE U == Tasks \cup {NoTask}
  <2>1. /\ NoTask \in U /\ t \in U /\ q \in Seq(U) /\ free \in LineOf(Nat)
        /\ ToSet(free) = {j \in 1..Len(q) : q[j] = NoTask} /\ t # NoTask
    BY <1>4
  <2>. HIDE DEF U
  <2>2. p \in Seq(U) /\ w \in LineOf(Nat) /\ i \in 1..Len(p) /\ p[i] = t
    BY <2>1, SlotTaken
  <2>3. /\ i \in 1..Len(q) => q[i] = NoTask
        /\ \A j : j \in 1..Len(q) => j \in 1..Len(p)
        /\ \A j : j \in 1..Len(p) /\ j # i => j \in 1..Len(q) /\ p[j] = q[j]
        /\ ToSet(w) = {j \in 1..Len(p) : p[j] = NoTask}
    BY <2>1, SlotTaken
  <2>. QED
    BY <2>2, <2>3 DEF U
<1>. HIDE DEF k, i, p, w, r, q, free
<1>6. /\ r.slab \in Slab /\ r.vacant \in [Kinds -> LineOf(Nat)]
      /\ r.slab[k] = p /\ r.vacant[k] = w
      /\ \A m \in Kinds : m # k => r.slab[m] = s.slab[m] /\ r.vacant[m] = s.vacant[m]
  BY <1>1, <1>2, <1>3, <1>5 DEF Slab
<1>7. Vacancies(r.slab, r.vacant)
  BY <1>2, <1>5, <1>6 DEF Vacancies
<1>8. \A m, j : <<m, j>> \in Occupied(s.slab) <=> m \in Kinds /\ j \in 1..Len(s.slab[m]) /\ s.slab[m][j] # NoTask
  BY <1>2, OccupiedSlots
<1>9. \A m, j : <<m, j>> \in Occupied(r.slab) <=> m \in Kinds /\ j \in 1..Len(r.slab[m]) /\ r.slab[m][j] # NoTask
  BY <1>6, OccupiedSlots
<1>18. /\ \A x \in Occupied(s.slab) : x = <<x[1], x[2]>>
       /\ \A x \in Occupied(r.slab) : x = <<x[1], x[2]>>
  BY <1>2, <1>6, OccupiedSlots
<1>10. /\ <<k, i>> \in Occupied(r.slab) /\ <<k, i>> \notin Occupied(s.slab)
       /\ <<k, i>>[1] = k /\ <<k, i>>[2] = i
  BY <1>1, <1>4, <1>5, <1>6, <1>8, <1>9
<1>11. ASSUME NEW m, NEW j
       PROVE  /\ <<m, j>> \in Occupied(s.slab) =>
                   <<m, j>> \in Occupied(r.slab) /\ r.slab[m][j] = s.slab[m][j]
              /\ <<m, j>> \in Occupied(r.slab) => <<m, j>> \in Occupied(s.slab) \/ <<m, j>> = <<k, i>>
  <2>. DEFINE a == s.slab[m]
              b == r.slab[m]
  <2>0. /\ <<m, j>> \in Occupied(s.slab) <=> m \in Kinds /\ j \in 1..Len(a) /\ a[j] # NoTask
        /\ <<m, j>> \in Occupied(r.slab) <=> m \in Kinds /\ j \in 1..Len(b) /\ b[j] # NoTask
    BY <1>8, <1>9
  <2>1. CASE m # k
    <3>1. m \in Kinds => a = b
      BY <1>6, <2>1
    <3>. HIDE DEF a, b
    <3>2. /\ <<m, j>> \in Occupied(s.slab) => <<m, j>> \in Occupied(r.slab) /\ b[j] = a[j]
          /\ <<m, j>> \in Occupied(r.slab) => <<m, j>> \in Occupied(s.slab)
      BY <2>0, <3>1
    <3>. QED
      BY <3>2 DEF a, b
  <2>2. CASE m = k /\ j # i
    <3>1. a = q /\ b = p
      BY <1>4, <1>6, <2>2
    <3>. HIDE DEF a, b
    <3>2. /\ <<m, j>> \in Occupied(s.slab) => <<m, j>> \in Occupied(r.slab) /\ b[j] = a[j]
          /\ <<m, j>> \in Occupied(r.slab) => <<m, j>> \in Occupied(s.slab)
      BY <1>5, <2>0, <2>2, <3>1
    <3>. QED
      BY <3>2 DEF a, b
  <2>3. CASE m = k /\ j = i
    BY <1>10, <2>3
  <2>. QED
    BY <2>1, <2>2, <2>3
<1>12. Fresh(s, r) = {<<k, i>>}
  BY <1>10, <1>11, <1>18 DEF Fresh
<1>13. <<k, i>> \in KeySet /\ <<k, i>> \notin ToSet(s.ready.normal)
  BY <1>2, <1>6, <1>10, OccupiedSlots
<1>14. /\ r.ready \in Runnable /\ ToSet(r.ready.normal) = ToSet(s.ready.normal) \cup {<<k, i>>}
       /\ r.ready.wakes = s.ready.wakes
  <2>. DEFINE x == <<k, i>>
              v == s.ready
  <2>1. v \in Runnable /\ x \in KeySet /\ x \notin ToSet(v.normal) /\ r.ready = push_back(v, x)
    BY <1>2, <1>3, <1>13
  <2>. HIDE DEF x, v
  <2>2. r.ready \in Runnable /\ ToSet(r.ready.normal) = ToSet(v.normal) \cup {x} /\ r.ready.wakes = v.wakes
    BY <2>1, LaneFacts
  <2>. QED
    BY <2>2 DEF x, v
<1>15. \A x \in Occupied(s.slab) : x \in Occupied(r.slab) /\ r.slab[x[1]][x[2]] = s.slab[x[1]][x[2]]
  BY <1>11, <1>18
<1>16. Sound(r)
  BY <1>2, <1>3, <1>6, <1>7, <1>10, <1>14, <1>15 DEF Sound
<1>17. Grown(s, r, {t})
  BY <1>5, <1>6, <1>10, <1>12, <1>14, <1>15, <1>16 DEF Grown, k
<1>. QED
  BY <1>17 DEF r

\* Starts inserted one after the other.
LEMMA GrownAgain ==
  ASSUME NEW s, NEW r, NEW u, NEW S, NEW T, S \cap T = {}, Grown(s, r, S), Grown(r, u, T)
  PROVE  Grown(s, u, S \cup T)
<1>1. \A x \in Occupied(s.slab) : x \in Occupied(u.slab) /\ u.slab[x[1]][x[2]] = s.slab[x[1]][x[2]]
  BY DEF Grown
<1>2. Fresh(s, u) = Fresh(s, r) \cup Fresh(r, u)
  BY <1>1 DEF Grown, Fresh
<1>3. \A x \in Fresh(s, r) : u.slab[x[1]][x[2]] = r.slab[x[1]][x[2]]
  BY DEF Grown, Fresh
<1>4. /\ Sound(u) /\ u.ready.wakes = s.ready.wakes
      /\ ToSet(u.ready.normal) = ToSet(s.ready.normal) \cup Fresh(s, u)
  BY <1>2 DEF Grown
<1>5. /\ \A x \in Fresh(s, u) : u.slab[x[1]][x[2]] \in S \cup T /\ kind(u.slab[x[1]][x[2]]) = x[1]
      /\ \A z \in S \cup T : \E x \in Fresh(s, u) : u.slab[x[1]][x[2]] = z
  BY <1>2, <1>3 DEF Grown
<1>6. \A x, y \in Fresh(s, u) : u.slab[x[1]][x[2]] = u.slab[y[1]][y[2]] => x = y
  BY <1>2, <1>3 DEF Grown
<1>. QED
  BY <1>1, <1>4, <1>5, <1>6 DEF Grown

\* The values of insert_all's recursive function.
InsertStep(s, ts, f) ==
  f = [i \in 0..Len(ts) |-> IF i = 0 THEN s ELSE insert(f[i - 1], ts[i])]
Stores == [slab : Slab, vacant : [Kinds -> LineOf(Nat)], ready : Runnable]

\* Every start of a line, each once.
LEMMA InsertAllGrows ==
  ASSUME NEW s, Sound(s), NEW ts \in LineOf(Tasks)
  PROVE  Grown(s, insert_all(s, ts), ToSet(ts))
<1>1. /\ Len(ts) \in Nat /\ \A i \in 1..Len(ts) : ts[i] \in Tasks
      /\ \A i, j \in 1..Len(ts) : ts[i] = ts[j] => i = j
      /\ \A x : x \in ToSet(ts) <=> \E i \in 1..Len(ts) : ts[i] = x
  BY InLine
<1>. DEFINE S == {u \in Stores : Sound(u)}
            g == [p \in Nat \X S |-> IF p[1] \in 1..Len(ts) THEN insert(p[2], ts[p[1]]) ELSE p[2]]
<1>2. \A u : Sound(u) <=> u \in S
  BY DEF Sound, Stores
<1>3. g \in [Nat \X S -> S]
  <2>1. ASSUME NEW p \in Nat \X S
        PROVE  (IF p[1] \in 1..Len(ts) THEN insert(p[2], ts[p[1]]) ELSE p[2]) \in S
    <3>1. p[2] \in S /\ Sound(p[2])
      BY <1>2
    <3>2. \A t \in Tasks : Sound(insert(p[2], t))
      BY <3>1, InsertGrows DEF Grown
    <3>. HIDE DEF S
    <3>. QED
      BY <1>1, <1>2, <3>1, <3>2
  <2>. QED
    BY <2>1
<1>4. PICK h \in [0..Len(ts) -> S] : Iterates(h, s, g, Len(ts))
  <2>1. s \in S
    BY <1>2
  <2>. HIDE DEF g, S
  <2>. QED
    BY <1>1, <1>3, <2>1, Recursion
<1>5. InsertStep(s, ts, h)
  <2>1. ASSUME NEW i \in 0..Len(ts)
        PROVE  h[i] = IF i = 0 THEN s ELSE insert(h[i - 1], ts[i])
    <3>1. CASE i = 0
      BY <1>4, <3>1 DEF Iterates
    <3>2. CASE i # 0
      <4>1. i \in Nat /\ i \in 1..Len(ts) /\ i - 1 \in 0..Len(ts)
        BY <1>1, <3>2
      <4>2. h[i - 1] \in S /\ <<i, h[i - 1]>> \in Nat \X S /\ h[i] = g[<<i, h[i - 1]>>]
        <5>. HIDE DEF g, S
        <5>. QED
          BY <1>4, <4>1 DEF Iterates
      <4>3. h[i] = insert(h[i - 1], ts[i])
        BY <4>1, <4>2
      <4>. QED
        BY <3>2, <4>3
    <3>. QED
      BY <3>1, <3>2
  <2>. HIDE DEF g, S
  <2>. QED
    BY <1>4, <2>1 DEF InsertStep
<1>. DEFINE f == CHOOSE f : InsertStep(s, ts, f)
<1>6. InsertStep(s, ts, f)
  BY <1>5
<1>7. insert_all(s, ts) = f[Len(ts)]
  BY Zenon DEF insert_all, InsertStep
<1>. HIDE DEF f, S, g
<1>8. f[0] = s /\ \A i \in 1..Len(ts) : f[i] = insert(f[i - 1], ts[i])
  <2>1. \A i \in 0..Len(ts) : f[i] = IF i = 0 THEN s ELSE insert(f[i - 1], ts[i])
    BY <1>6 DEF InsertStep
  <2>2. 0 \in 0..Len(ts) /\ \A i \in 1..Len(ts) : i \in 0..Len(ts) /\ i # 0
    BY <1>1
  <2>. QED
    BY <2>1, <2>2
<1>. DEFINE Good(i) == Grown(s, f[i], {ts[j] : j \in 1..i})
            Bad == {i \in 0..Len(ts) : ~Good(i)}
<1>9. Bad = {}
  <2>1. SUFFICES ASSUME Bad # {} PROVE FALSE
    OBVIOUS
  <2>2. Bad \in SUBSET Nat
    OBVIOUS
  <2>3. PICK m \in Bad : \A y \in Bad : m <= y
    BY <2>1, <2>2, LeastNat
  <2>4. m # 0
    <3>1. {ts[j] : j \in 1..0} = {}
      OBVIOUS
    <3>2. Grown(s, s, {})
      BY DEF Grown, Fresh, Sound
    <3>. QED
      BY <1>8, <3>1, <3>2
  <2>5. m \in 1..Len(ts) /\ m - 1 \in 0..Len(ts) /\ Good(m - 1)
    <3>1. m \in 0..Len(ts)
      BY <2>3
    <3>2. m \in 1..Len(ts) /\ m - 1 \in 0..Len(ts) /\ m - 1 \in Nat /\ ~ (m <= m - 1)
      BY <1>1, <2>4, <3>1
    <3>. HIDE DEF Good
    <3>3. m - 1 \notin Bad
      BY <2>3, <3>2
    <3>. QED
      BY <3>2, <3>3
  <2>. DEFINE P == {ts[j] : j \in 1..(m - 1)}
              Q == {ts[j] : j \in 1..m}
  <2>6. Q = P \cup {ts[m]} /\ ts[m] \notin P /\ ts[m] \in Tasks
    <3>1. m \in Nat /\ \A j \in 1..(m - 1) : j \in 1..Len(ts) /\ j # m /\ j \in 1..m
      BY <1>1, <2>5
    <3>2. m \in 1..m /\ \A j \in 1..m : j = m \/ j \in 1..(m - 1)
      BY <2>5
    <3>3. \A x \in Q : x \in P \cup {ts[m]}
      BY <3>2
    <3>4. \A x \in P \cup {ts[m]} : x \in Q
      BY <3>1, <3>2
    <3>5. ts[m] \notin P
      BY <1>1, <2>5, <3>1
    <3>. QED
      BY <1>1, <2>5, <3>3, <3>4, <3>5
  <2>7. Grown(s, f[m - 1], P) /\ (Good(m) <=> Grown(s, f[m], Q))
    BY <2>5
  <2>8. f[m] = insert(f[m - 1], ts[m])
    BY <1>8, <2>5
  <2>. HIDE DEF P, Q, Good
  <2>9. Grown(f[m - 1], f[m], {ts[m]})
    <3>1. Sound(f[m - 1])
      BY <2>7 DEF Grown
    <3>. QED
      BY <2>6, <2>8, <3>1, InsertGrows
  <2>10. Grown(s, f[m], Q)
    <3>1. P \cap {ts[m]} = {}
      BY <2>6
    <3>. QED
      BY <2>6, <2>7, <2>9, <3>1, GrownAgain
  <2>. QED
    BY <2>3, <2>7, <2>10
<1>10. Good(Len(ts))
  BY <1>1, <1>9
<1>11. {ts[j] : j \in 1..Len(ts)} = ToSet(ts)
  BY <1>1
<1>. QED
  BY <1>7, <1>10, <1>11

-----------------------------------------------------------------------------
(* What the parts of the invariant say *)

\* The live keys are the occupied slots.
LEMMA LiveFacts ==
  ASSUME Types
  PROVE  /\ LiveKeys = Occupied(slab) /\ slab \in Slab
         /\ \A x \in LiveKeys : x \in KeySet /\ Task(x) \in Tasks /\ x # NoTask
<1>1. slab \in Slab /\ LiveKeys = Occupied(slab)
  BY DEF Types, Slab, LiveKeys, Occupied, Task
<1>2. \A x \in LiveKeys : x \in KeySet /\ Task(x) \in Tasks
  BY <1>1, OccupiedSlots DEF Task
<1>. QED
  BY <1>1, <1>2, KernelAssumption DEF KeySet

\* They depend on the slabs only.
LEMMA SameLive ==
  ASSUME slab' = slab
  PROVE  LiveKeys' = LiveKeys
BY DEF LiveKeys, Task

\* The slabs and the queue are a sound store.
LEMMA StoreSound ==
  ASSUME Types, SlabFits, Placed
  PROVE  Sound(Store)
<1>1. ToSet(ready.normal) \subseteq Occupied(slab)
  BY LiveFacts DEF Placed
<1>2. /\ Store.slab = slab /\ Store.vacant = vacant /\ Store.ready = ready
      /\ Store \in [slab : Slab, vacant : [Kinds -> LineOf(Nat)], ready : Runnable]
  BY DEF Types, Slab, Store
<1>. QED
  BY <1>1, <1>2 DEF Sound, SlabFits

\* A task is found under its key.
LEMMA FoundUnder ==
  ASSUME Lives, NEW x \in LiveKeys
  PROVE  KeyOf(Task(x)) = x
BY DEF Lives, KeyOf

\* The notice of a parked wait.
LEMMA NoticeOf ==
  ASSUME Types, Lives, Placed, Waits, NEW p \in parked
  PROVE  /\ p.key \in LiveKeys /\ Task(p.key) \in Tasks /\ p.key \in KeySet
         /\ p.token = token(Task(p.key))
         /\ Notice(Task(p.key)) \in Notification
         /\ Notice(Task(p.key)).route = p.key /\ Notice(Task(p.key)).task = Task(p.key)
         /\ Notice(Task(p.key)).token = p.token
<1>1. p.key \in LiveKeys
  BY DEF Placed
<1>2. Task(p.key) \in Tasks /\ p.key \in KeySet /\ KeyOf(Task(p.key)) = p.key
  BY <1>1, LiveFacts, FoundUnder
<1>3. p.token = token(Task(p.key)) /\ p.token \in Tasks \X Nat
  BY DEF Waits, Types, Parking
<1>. QED
  BY <1>1, <1>2, <1>3 DEF Notice, Notification

\* Two notices of one wait are the same.
LEMMA OneNotice ==
  ASSUME Types, Lives, Placed, Waits,
         NEW n \in Notification, NEW m \in Notification, Heard(n), Heard(m),
         n.task = m.task \/ n.token = m.token \/ n.route = m.route
  PROVE  n = m
<1>1. PICK p \in parked : p.key = n.route /\ p.token = n.token /\ Task(p.key) = n.task
  BY DEF Heard
<1>2. PICK q \in parked : q.key = m.route /\ q.token = m.token /\ Task(q.key) = m.task
  BY DEF Heard
<1>3. p.token = <<Task(p.key), cell[Task(p.key)].n>> /\ q.token = <<Task(q.key), cell[Task(q.key)].n>>
  BY DEF Waits, token
<1>4. Task(p.key) = Task(q.key) \/ p.key = q.key
  BY <1>1, <1>2, <1>3
<1>5. p.key = q.key
  BY <1>4, NoticeOf DEF Lives
<1>6. n.route = m.route /\ n.token = m.token /\ n.task = m.task
  BY <1>1, <1>2, <1>5 DEF Placed
<1>. QED
  BY <1>6 DEF Notification

-----------------------------------------------------------------------------
(* Steps that leave a part alone *)

\* The free lists fit the slab while both stay.
LEMMA SlabFitsStays ==
  ASSUME SlabFits, UNCHANGED <<slab, vacant>>
  PROVE  SlabFits'
BY DEF SlabFits, Vacancies

\* Records and slots agree while both stay.
LEMMA LivesStays ==
  ASSUME Lives, UNCHANGED <<slab, place>>
  PROVE  Lives'
BY SameLive DEF Lives, Task

\* Every live key keeps its one place while the queues stay.
LEMMA PlacedStays ==
  ASSUME Placed, UNCHANGED <<slab, ready, parked, in_flight>>
  PROVE  Placed'
BY SameLive DEF Placed

\* Starts stay on their way while nobody takes one.
LEMMA ArrivalsStays ==
  ASSUME Arrivals, UNCHANGED <<inbox, starts, place>>
  PROVE  Arrivals'
BY DEF Arrivals

\* The phase of the loop keeps its meaning while what it is about stays.
LEMMA PhaseStays ==
  ASSUME Phase, UNCHANGED <<at, todo, job, in_flight, requests, deferred>>
  PROVE  Phase'
BY DEF Phase

\* A halt is as far as it was while the loop and the slab stay.
LEMMA HaltingStays ==
  ASSUME Halting, UNCHANGED <<at, job, aborts, starts, inbox, requests, slab>>
  PROVE  Halting'
BY SameLive DEF Halting

\* Nobody begins to wait, and a wait does not change its generation.
Calmer ==
  \A t \in Tasks : /\ cell'[t].n = cell[t].n
                   /\ cell'[t].phase = "Active" => cell[t].phase = "Active"
                   /\ cell'[t].phase = "Claim" => cell[t].phase \in {"Active", "Claim"}

\* Cells that stay as they are are calm.
LEMMA SameCells ==
  ASSUME UNCHANGED cell
  PROVE  Calmer
BY DEF Calmer

\* Every wait keeps its parked entry while cells only calm down.
LEMMA WaitsStays ==
  ASSUME Types, Placed, Waits, Calmer, UNCHANGED <<slab, parked>>
  PROVE  Waits'
<1>1. \A p \in parked : Task(p.key) \in Tasks
  BY LiveFacts DEF Placed
<1>2. \A p \in parked : p.token = token(Task(p.key))'
  BY <1>1 DEF Waits, Calmer, token, Task
<1>3. \A t \in Tasks : cell'[t].phase \in {"Active", "Claim"} => \E p \in parked : Task(p.key) = t
  BY DEF Waits, Calmer
<1>. QED
  BY <1>2, <1>3 DEF Waits, Task

\* Every notice has still its wait while cells only calm down and no notice is new.
LEMMA NoticesStays ==
  ASSUME Types, Notices, Calmer, UNCHANGED <<slab, parked>>,
         hub' \subseteq hub, deferred' \subseteq deferred, ToSet(local') \subseteq ToSet(local)
  PROVE  Notices'
<1>1. ASSUME NEW n \in Notification, Heard(n)
      PROVE  Heard(n)'
  <2>1. n.task \in Tasks
    BY DEF Notification
  <2>. QED
    BY <1>1, <2>1 DEF Heard, Calmer, Task
<1>2. /\ hub \subseteq Notification /\ deferred \subseteq Notification /\ ToSet(local) \subseteq Notification
  BY InLine DEF Types
<1>3. /\ \A n \in hub' : Heard(n)' /\ n \notin deferred' /\ n \notin ToSet(local')
      /\ \A n \in deferred' : Heard(n)' /\ n \notin ToSet(local')
      /\ \A n \in ToSet(local') : Heard(n)'
  BY <1>1, <1>2 DEF Notices
<1>. QED
  BY <1>3 DEF Notices

\* Tasks to discard do not start to wait while cells only calm down.
LEMMA DoomedStays ==
  ASSUME Types, Doomed, Calmer, UNCHANGED <<slab, job>>
  PROVE  Doomed'
<1>1. \A x \in job.keys : Task(x) \in Tasks
  BY LiveFacts DEF Doomed
<1>2. \A x \in job.keys : cell'[Task(x)].phase \notin {"Active", "Claim"}
  BY <1>1 DEF Doomed, Calmer
<1>. QED
  BY <1>2, SameLive DEF Doomed, Task

\* Children run inside their scopes while leases, scopes and the mounted task stay.
LEMMA LeasesStays ==
  ASSUME Leases, Calmer, UNCHANGED <<lease, scope, place>>,
         at' = "run" => at = "run" /\ UNCHANGED <<in_flight, slab>>
  PROVE  Leases'
<1>1. \A k \in Kids : place[k] = "live" /\ lease[k] = "Reclaimed" => cell'[k].phase \notin {"Active", "Claim"}
  BY DEF Leases, Calmer, Tasks
<1>. QED
  BY <1>1 DEF Leases, Task

-----------------------------------------------------------------------------
(* Other threads *)

\* A packet that reaches the inbox: its root is not live, its scope not open,
\* and no stop has been posted.
LEMMA PushKeeps ==
  ASSUME IInv, NEW r \in Roots, push(r)
  PROVE  IInv'
<1>1. /\ Types /\ SlabFits /\ Lives /\ Placed /\ Arrivals /\ Waits /\ Notices
      /\ Phase /\ Doomed /\ Leases /\ Halting
  BY DEF IInv
<1>2. /\ place[r] = "new" /\ requests[All] # "posted"
      /\ place' = [place EXCEPT ![r] = "inbox"] /\ inbox' = Append(inbox, r)
      /\ UNCHANGED <<slab, vacant, ready, parked, timers, deferred, in_flight, aborts, starts, local, hub,
                     requests, flagged, cell, lease, scope, at, todo, job>>
  BY DEF push, slabs, queues, drive
<1>3. r \in Tasks /\ r \notin Kids /\ place \in [Tasks -> {"new", "inbox", "starts", "live", "done"}]
  BY <1>1, KernelAssumption DEF Tasks, Types
<1>4. /\ inbox' \in LineOf(Roots) /\ ToSet(inbox') = ToSet(inbox) \cup {r}
  BY <1>1, <1>2, JoinLine DEF Types, Arrivals
<1>5. \A t \in Tasks : place'[t] = IF t = r THEN "inbox" ELSE place[t]
  BY <1>2, <1>3
<1>6. Types'
  <2>1. place' \in [Tasks -> {"new", "inbox", "starts", "live", "done"}]
    BY <1>2, <1>3
  <2>. QED
    BY <1>1, <1>2, <1>4, <2>1 DEF Types
<1>7. Lives'
  <2>1. \A x \in LiveKeys : Task(x) \in Tasks /\ Task(x) # r
    BY <1>1, <1>2, LiveFacts DEF Lives
  <2>. QED
    BY <1>1, <1>2, <1>5, <2>1, SameLive DEF Lives, Task
<1>8. Arrivals'
  BY <1>1, <1>2, <1>3, <1>4, <1>5 DEF Arrivals, Tasks
<1>9. Leases'
  <2>1. /\ \A k \in Kids : place'[k] = place[k]
        /\ \A q \in Roots : scope[q] = "open" => place'[q] = "live"
    BY <1>1, <1>2, <1>3, <1>5 DEF Leases, Tasks
  <2>. QED
    BY <1>1, <1>2, <2>1 DEF Leases, Task
<1>10. Halting'
  BY <1>1, <1>2 DEF Halting
<1>11. SlabFits' /\ Placed' /\ Phase'
  BY <1>1, <1>2, SlabFitsStays, PlacedStays, PhaseStays
<1>12. Waits' /\ Notices' /\ Doomed'
  BY <1>1, <1>2, SameCells, WaitsStays, NoticesStays, DoomedStays
<1>. QED
  BY <1>6, <1>7, <1>8, <1>9, <1>10, <1>11, <1>12 DEF IInv

\* What is left to show when a step changes cells, notices and requests only.
LEMMA OutsideKeeps ==
  ASSUME IInv, Calmer, Types', Notices',
         UNCHANGED <<slab, vacant, ready, parked, timers, deferred, in_flight, aborts, starts, inbox, lease,
                     scope, place, at, todo, job>>,
         requests[All] = "posted" => requests'[All] = "posted"
  PROVE  IInv'
<1>1. /\ Types /\ SlabFits /\ Lives /\ Placed /\ Arrivals /\ Waits /\ Notices
      /\ Phase /\ Doomed /\ Leases /\ Halting
  BY DEF IInv
<1>2. SlabFits' /\ Lives' /\ Placed' /\ Arrivals'
  BY <1>1, SlabFitsStays, LivesStays, PlacedStays, ArrivalsStays
<1>3. Waits' /\ Doomed' /\ Leases'
  BY <1>1, WaitsStays, DoomedStays, LeasesStays
<1>4. Phase'
  BY <1>1 DEF Phase
<1>5. Halting'
  BY <1>1, SameLive DEF Halting
<1>. QED
  BY <1>2, <1>3, <1>4, <1>5 DEF IInv

\* The cells of a step that changes one of them.
Cells == [Tasks -> [phase : {"Idle", "Active", "Claim", "Selected"}, n : Nat, join : BOOLEAN, seen : BOOLEAN]]

\* A change to one cell leads to cells again.
LEMMA OneCell ==
  ASSUME cell \in Cells, NEW t \in Tasks, NEW ph \in {"Idle", "Claim", "Selected"}, NEW sn \in BOOLEAN
  PROVE  /\ [cell EXCEPT ![t].phase = ph] \in Cells
         /\ [cell EXCEPT ![t].phase = ph, ![t].seen = sn] \in Cells
         /\ [cell EXCEPT ![t].seen = sn] \in Cells
         /\ [cell EXCEPT ![t] = Idle(@.n)] \in Cells
BY DEF Cells, Idle

\* The notice of a wait nobody had won is new.
LEMMA FreshNotice ==
  ASSUME Types, Notices, NEW t, NEW n, n.task = t, cell[t].phase = "Active"
  PROVE  n \notin hub /\ n \notin deferred /\ n \notin ToSet(local)
BY DEF Notices, Heard

\* Its notice is a value that the step does not change.
LEMMA WonNotice ==
  ASSUME Types, Lives, Placed, Waits, Notices, NEW t \in Tasks, cell[t].phase = "Active"
  PROVE  \E n \in Notification :
           /\ n = Notice(t) /\ n.task = t
           /\ n \notin hub /\ n \notin deferred /\ n \notin ToSet(local)
           /\ \E p \in parked : p.key = n.route /\ p.token = n.token /\ Task(p.key) = n.task
<1>1. PICK p \in parked : Task(p.key) = t
  BY DEF Waits
<1>2. /\ Notice(t) \in Notification /\ Notice(t).route = p.key /\ Notice(t).task = t
      /\ Notice(t).token = p.token
  BY <1>1, NoticeOf
<1>. QED
  BY <1>1, <1>2, FreshNotice

\* The notices that are queued stay heard.
LEMMA HeardStays ==
  ASSUME Calmer, UNCHANGED <<slab, parked>>, NEW n \in Notification, Heard(n)
  PROVE  Heard(n)'
<1>1. n.task \in Tasks
  BY DEF Notification
<1>. QED
  BY <1>1 DEF Heard, Calmer, Task

\* A wake of another thread puts the notice of a parked wait into the hub.
LEMMA ClaimKeeps ==
  ASSUME IInv, NEW t \in Tasks, claim(t)
  PROVE  IInv'
<1>1. Types /\ Lives /\ Placed /\ Waits /\ Notices
  BY DEF IInv
<1>2. /\ cell[t].phase = "Active"
      /\ cell' = [cell EXCEPT ![t].phase = "Claim"] /\ hub' = hub \cup {Notice(t)}
      /\ UNCHANGED <<slab, vacant, ready, parked, timers, deferred, in_flight, aborts, starts, local, inbox,
                     requests, flagged, lease, scope, place, at, todo, job>>
  BY DEF claim, slabs, queues, drive
<1>3. PICK m \in Notification :
        /\ m = Notice(t) /\ m.task = t
        /\ m \notin hub /\ m \notin deferred /\ m \notin ToSet(local)
        /\ \E p \in parked : p.key = m.route /\ p.token = m.token /\ Task(p.key) = m.task
  BY <1>1, <1>2, WonNotice
<1>4. cell \in Cells /\ cell' \in Cells
  BY <1>1, <1>2, OneCell DEF Types, Cells
<1>5. \A u \in Tasks : cell'[u].n = cell[u].n /\ cell'[u].phase = IF u = t THEN "Claim" ELSE cell[u].phase
  BY <1>2, <1>4 DEF Cells
<1>6. Calmer
  BY <1>2, <1>5 DEF Calmer
<1>7. Types'
  BY <1>1, <1>2, <1>3, <1>4 DEF Types, Cells
<1>8. Notices'
  <2>1. \A n \in Notification : Heard(n) => Heard(n)'
    BY <1>2, <1>6, HeardStays
  <2>2. Heard(m)'
    BY <1>2, <1>3, <1>5 DEF Heard, Task
  <2>3. hub \subseteq Notification /\ deferred \subseteq Notification /\ ToSet(local) \subseteq Notification
    BY <1>1, InLine DEF Types
  <2>4. hub' = hub \cup {m} /\ deferred' = deferred /\ local' = local
    BY <1>2, <1>3
  <2>5. /\ \A n \in hub' : Heard(n)' /\ n \notin deferred' /\ n \notin ToSet(local')
        /\ \A n \in deferred' : Heard(n)' /\ n \notin ToSet(local')
        /\ \A n \in ToSet(local') : Heard(n)'
    BY <1>1, <1>3, <2>1, <2>2, <2>3, <2>4 DEF Notices
  <2>. QED
    BY <2>5 DEF Notices
<1>. QED
  BY <1>2, <1>6, <1>7, <1>8, OutsideKeeps

\* The publication ends the claim.
LEMMA PublishKeeps ==
  ASSUME IInv, NEW t \in Tasks, publish(t)
  PROVE  IInv'
<1>1. Types /\ Notices
  BY DEF IInv
<1>2. /\ cell' = [cell EXCEPT ![t].phase = "Selected", ![t].seen = FALSE]
      /\ UNCHANGED <<slab, vacant, ready, parked, timers, deferred, in_flight, aborts, starts, local, inbox,
                     hub, requests, flagged, lease, scope, place, at, todo, job>>
  BY DEF publish, slabs, queues, drive
<1>3. cell \in Cells /\ cell' \in Cells
  BY <1>1, <1>2, OneCell DEF Types, Cells
<1>4. \A u \in Tasks : cell'[u].n = cell[u].n /\ cell'[u].phase = IF u = t THEN "Selected" ELSE cell[u].phase
  BY <1>2, <1>3 DEF Cells
<1>5. Calmer
  BY <1>4 DEF Calmer
<1>6. Types' /\ Notices'
  BY <1>1, <1>2, <1>3, <1>5, NoticesStays DEF Types, Cells
<1>. QED
  BY <1>2, <1>5, <1>6, OutsideKeeps

\* Aborts and the stop: their requests are on their way.
LEMMA RequestKeeps ==
  ASSUME IInv, (\E s \in Scopes : request_abort(s) \/ post_abort(s)) \/ stop
  PROVE  IInv'
<1>1. Types /\ Notices
  BY DEF IInv
<1>2. /\ \/ \E s \in Scopes : flagged' = flagged \cup {s} /\ UNCHANGED requests
         \/ \E s \in Scopes \cup {All} : requests' = [requests EXCEPT ![s] = "posted"] /\ UNCHANGED flagged
      /\ UNCHANGED <<slab, vacant, ready, parked, timers, deferred, in_flight, aborts, starts, local, inbox,
                     hub, cell, lease, scope, place, at, todo, job>>
  BY DEF request_abort, post_abort, stop, slabs, queues, tasks, drive
<1>3. Types' /\ (requests[All] = "posted" => requests'[All] = "posted")
  BY <1>1, <1>2 DEF Types
<1>4. Calmer /\ Notices'
  BY <1>1, <1>2, SameCells, NoticesStays
<1>. QED
  BY <1>2, <1>3, <1>4, OutsideKeeps

-----------------------------------------------------------------------------
(* The drive loop *)

\* A step that only moves the loop on.
LEMMA DriveKeeps ==
  ASSUME IInv,
         UNCHANGED <<slab, vacant, ready, parked, timers, deferred, in_flight, aborts, starts, local, inbox,
                     hub, requests, flagged, cell, lease, scope, place>>,
         at' \in Phases, at' # "run",
         job' \in [keys : SUBSET KeySet, back : {"top", "requests", "retry", "halt"}],
         Phase', Doomed', Halting'
  PROVE  IInv'
<1>1. /\ Types /\ SlabFits /\ Lives /\ Placed /\ Arrivals /\ Waits /\ Notices /\ Leases
  BY DEF IInv
<1>2. Types'
  BY <1>1 DEF Types
<1>3. SlabFits' /\ Lives' /\ Placed' /\ Arrivals'
  BY <1>1, SlabFitsStays, LivesStays, PlacedStays, ArrivalsStays
<1>4. Waits' /\ Notices' /\ Leases'
  BY <1>1, SameCells, WaitsStays, NoticesStays, LeasesStays
<1>. QED
  BY <1>2, <1>3, <1>4 DEF IInv

\* The next phase with work.
LEMMA AheadIs ==
  ASSUME NEW from \in 1..4
  PROVE  /\ Ahead(from) \in {"retry", "deferred", "wakes", "timers", "select"}
         /\ from > 1 => Ahead(from) # "retry"
         /\ from > 2 => Ahead(from) # "deferred"
<1>. DEFINE work == <<sig /\ aborts # {}, sig /\ deferred # {},
                      Pending /\ (sig \/ parked # {}), timers # {}>>
            left == {i \in from..4 : work[i]}
            names == <<"retry", "deferred", "wakes", "timers">>
<1>1. Ahead(from) = IF left = {} THEN "select" ELSE names[Min(left)]
  BY DEF Ahead
<1>2. left # {} => Min(left) \in from..4
  <2>1. left \in SUBSET Nat
    OBVIOUS
  <2>2. left # {} => Min(left) \in left
    <3>. HIDE DEF left
    <3>. QED
      BY <2>1, MinMember
  <2>. QED
    BY <2>2
<1>. HIDE DEF left
<1>3. \A i \in from..4 : /\ names[i] \in {"retry", "deferred", "wakes", "timers"}
                         /\ from > 1 => names[i] # "retry"
                         /\ from > 2 => names[i] # "deferred"
  OBVIOUS
<1>. HIDE DEF names
<1>. QED
  BY <1>1, <1>2, <1>3

\* The loop turns to the requests it was signalled.
LEMMA ReadSignalKeeps ==
  ASSUME IInv, read_signal
  PROVE  IInv'
<1>1. Types /\ Phase /\ Doomed /\ Halting
  BY DEF IInv
<1>2. /\ at = "top" /\ ((at' = "stop" /\ requests[All] = "posted") \/ at' = "requests")
      /\ UNCHANGED <<slab, vacant, ready, parked, timers, deferred, in_flight, aborts, starts, local, inbox,
                     hub, requests, flagged, cell, lease, scope, place, todo, job>>
  BY DEF read_signal, slabs, queues, tasks
<1>3. Phase'
  BY <1>1, <1>2 DEF Phase
<1>4. Doomed' /\ Halting'
  BY <1>1, <1>2, SameCells, DoomedStays DEF Halting
<1>. QED
  BY <1>1, <1>2, <1>3, <1>4, DriveKeeps DEF Phases, Types

\* No task is left to discard: the loop returns to where it came from.
LEMMA DiscardedKeeps ==
  ASSUME IInv, discarded
  PROVE  IInv'
<1>1. Types /\ Phase /\ Doomed /\ Halting
  BY DEF IInv
<1>2. /\ at = "discard" /\ job.keys = {} /\ at' = job.back /\ job' = NoJob
      /\ UNCHANGED <<slab, vacant, ready, parked, timers, deferred, in_flight, aborts, starts, local, inbox,
                     hub, requests, flagged, cell, lease, scope, place, todo>>
  BY DEF discarded, queues, shared, tasks
<1>3. job'.keys = {} /\ job' \in [keys : SUBSET KeySet, back : {"top", "requests", "retry", "halt"}]
      /\ at' \in {"top", "requests", "retry", "halt"}
  BY <1>1, <1>2 DEF NoJob, Types
<1>4. Phase'
  BY <1>1, <1>2, <1>3 DEF Phase
<1>5. Doomed'
  BY <1>3 DEF Doomed
<1>6. Halting'
  BY <1>1, <1>2, <1>3, SameLive DEF Halting
<1>. QED
  BY <1>2, <1>3, <1>4, <1>5, <1>6, DriveKeeps DEF Phases

\* A sweep dooms the live children whose stacks were revoked.
LEMMA SweepKeeps ==
  ASSUME IInv, sweep_revoked
  PROVE  IInv'
<1>1. Types /\ Lives /\ Phase /\ Doomed /\ Leases /\ Halting
  BY DEF IInv
<1>2. /\ at = "sweep"
      /\ UNCHANGED <<slab, vacant, ready, parked, timers, deferred, in_flight, aborts, starts, local, inbox,
                     hub, requests, flagged, cell, lease, scope, place>>
  BY DEF sweep_revoked, slabs, queues, shared, tasks
<1>3. in_flight = NoTask /\ aborts \subseteq Scopes \cup {All}
  BY <1>1, <1>2 DEF Phase, NoJob, Types
<1>4. CASE Swept
  <2>1. at' = "discard" /\ job' = [keys |-> Gone, back |-> "retry"] /\ todo' = aborts
    BY <1>4 DEF sweep_revoked
  <2>2. Gone \subseteq LiveKeys /\ \A x \in Gone : Task(x) \in Kids /\ lease[Task(x)] = "Reclaimed"
    BY DEF Gone
  <2>3. job' \in [keys : SUBSET KeySet, back : {"top", "requests", "retry", "halt"}]
    BY <1>1, <2>1, <2>2, LiveFacts
  <2>4. Phase'
    BY <1>2, <1>3, <2>1 DEF Phase
  <2>5. Doomed'
    <3>1. \A x \in Gone : cell[Task(x)].phase \notin {"Active", "Claim"}
      BY <1>1, <2>2 DEF Leases, Lives
    <3>2. \A x \in Gone, y \in LiveKeys : ~ (Task(y) \in Kids /\ OwnerOf[Task(y)] = Task(x))
      BY <2>2, KernelAssumption
    <3>3. job'.keys = Gone /\ LiveKeys' = LiveKeys
      BY <1>2, <2>1, SameLive
    <3>4. /\ job'.keys \subseteq LiveKeys'
          /\ \A x \in job'.keys : cell[Task(x)].phase \notin {"Active", "Claim"}
          /\ \A x \in job'.keys, y \in LiveKeys' : ~ (Task(y) \in Kids /\ OwnerOf[Task(y)] = Task(x))
      BY <2>2, <3>1, <3>2, <3>3
    <3>. QED
      BY <1>2, <3>4 DEF Doomed, Task
  <2>6. Halting'
    BY <2>1 DEF Halting
  <2>. QED
    BY <1>2, <2>1, <2>3, <2>4, <2>5, <2>6, DriveKeeps DEF Phases
<1>5. CASE ~Swept
  <2>1. /\ at' = Ahead(1) /\ job' = job
        /\ at' = "retry" => todo' = aborts
        /\ at' = "deferred" => todo' = deferred
    BY <1>5 DEF sweep_revoked
  <2>2. at' \in {"retry", "deferred", "wakes", "timers", "select"}
    BY <2>1, AheadIs
  <2>3. Phase'
    BY <1>1, <1>2, <1>3, <2>1, <2>2 DEF Phase, NoJob
  <2>4. Doomed' /\ Halting'
    BY <1>1, <1>2, <2>1, <2>2, SameCells, DoomedStays DEF Halting
  <2>. QED
    BY <1>1, <1>2, <2>1, <2>2, <2>3, <2>4, DriveKeeps DEF Phases, Types
<1>. QED
  BY <1>4, <1>5

\* A phase with nothing left to do.
LEMMA PhaseDoneKeeps ==
  ASSUME IInv, retried \/ phase_done
  PROVE  IInv'
<1>1. Types /\ Phase /\ Doomed /\ Halting
  BY DEF IInv
<1>2. /\ at \in {"retry", "deferred"} \cup Waking
      /\ UNCHANGED <<slab, vacant, ready, parked, timers, deferred, in_flight, aborts, starts, local, inbox,
                     hub, requests, flagged, cell, lease, scope, place, job>>
  BY DEF retried, phase_done, slabs, queues, shared, tasks
<1>3. /\ at' \in {"deferred", "wakes", "timers", "select", "select_late"}
      /\ at' = "deferred" => todo' = deferred
  <2>1. CASE retried
    <3>1. at' = Ahead(2) /\ (at' = "deferred" => todo' = deferred)
      BY <2>1 DEF retried
    <3>. QED
      BY <3>1, AheadIs
  <2>2. CASE phase_done
    <3>1. at' \in {Ahead(3), Ahead(4), "select", "select_late"}
      BY <2>2 DEF phase_done, Waking
    <3>. QED
      BY <3>1, AheadIs
  <2>. QED
    BY <2>1, <2>2
<1>4. Phase'
  BY <1>1, <1>2, <1>3 DEF Phase, NoJob, Waking
<1>5. Doomed' /\ Halting'
  BY <1>1, <1>2, <1>3, SameCells, DoomedStays DEF Halting
<1>. QED
  BY <1>1, <1>2, <1>3, <1>4, <1>5, DriveKeeps DEF Phases, Types

\* A selected key leaves its lane for the mount.
LEMMA SelectKeeps ==
  ASSUME IInv, select_ready
  PROVE  IInv'
<1>1. /\ Types /\ SlabFits /\ Lives /\ Placed /\ Arrivals /\ Waits /\ Notices
      /\ Phase /\ Doomed /\ Leases /\ Halting
  BY DEF IInv
<1>2. /\ at \in {"select", "select_late"}
      /\ UNCHANGED <<slab, vacant, parked, timers, deferred, aborts, starts, local, inbox, hub, requests,
                     flagged, cell, lease, scope, place, todo, job>>
  BY DEF select_ready, slabs, shared, tasks
<1>3. ready \in Runnable
  BY <1>1 DEF Types
<1>4. PICK next : /\ Popped(ready, next) /\ ready' = next.queue
                  /\ in_flight' = IF next.entry = Nothing THEN NoTask ELSE next.entry
                  /\ next.entry # Nothing => at' = "mount"
                  /\ next.entry = Nothing => at' \in {"late", "top"}
  <2>. DEFINE nx == IF aborts = {} THEN pop_front(ready) ELSE pop_matching(ready, Unblocked)
  <2>1. Popped(ready, nx)
    BY <1>3, PopFront, PopMatching
  <2>2. /\ ready' = nx.queue /\ in_flight' = IF nx.entry = Nothing THEN NoTask ELSE nx.entry
        /\ at' = CASE nx.entry # Nothing -> "mount"
                   [] nx.entry = Nothing /\ at = "select" /\ Pending -> "late"
                   [] OTHER -> "top"
    BY DEF select_ready
  <2>. HIDE DEF nx
  <2>. QED
    BY <2>1, <2>2
<1>5. in_flight = NoTask /\ job = NoJob
  BY <1>1, <1>2 DEF Phase, NoJob
<1>6. /\ ToSet(ready.normal) \subseteq LiveKeys /\ ToSet(ready.wakes) \subseteq LiveKeys
      /\ LiveKeys \subseteq KeySet /\ NoTask \notin KeySet /\ Nothing \notin KeySet
  BY <1>1, LiveFacts, KernelAssumption DEF Placed, KeySet
<1>7. Types'
  BY <1>1, <1>2, <1>4, <1>6 DEF Types, Popped, Phases
<1>8. Placed'
  <2>1. LiveKeys' = LiveKeys /\ parked' = parked
    BY <1>2, SameLive
  <2>2. CASE next.entry = Nothing
    BY <1>1, <1>4, <1>5, <1>6, <2>1, <2>2 DEF Placed, Popped
  <2>3. CASE next.entry # Nothing
    <3>1. /\ in_flight' = next.entry /\ next.entry # NoTask
          /\ \/ /\ next.entry \in ToSet(ready.normal) /\ ToSet(ready'.normal) = ToSet(ready.normal) \ {next.entry}
                /\ ToSet(ready'.wakes) = ToSet(ready.wakes)
             \/ /\ next.entry \in ToSet(ready.wakes) /\ ToSet(ready'.wakes) = ToSet(ready.wakes) \ {next.entry}
                /\ ToSet(ready'.normal) = ToSet(ready.normal)
      BY <1>4, <1>6, <2>3 DEF Popped
    <3>. QED
      BY <1>1, <1>5, <2>1, <3>1 DEF Placed
  <2>. QED
    BY <2>2, <2>3
<1>9. Phase'
  BY <1>1, <1>2, <1>4, <1>5, <1>6 DEF Phase, NoJob, Popped
<1>10. Halting'
  BY <1>2, <1>4 DEF Halting
<1>11. SlabFits' /\ Lives' /\ Arrivals'
  BY <1>1, <1>2, SlabFitsStays, LivesStays, ArrivalsStays
<1>12. at' # "run"
  BY <1>4
<1>13. Waits' /\ Notices' /\ Doomed' /\ Leases'
  BY <1>1, <1>2, <1>12, SameCells, WaitsStays, NoticesStays, DoomedStays, LeasesStays
<1>. QED
  BY <1>7, <1>8, <1>9, <1>10, <1>11, <1>13 DEF IInv

-----------------------------------------------------------------------------
(* Wakes *)

\* A notice that is heard is about the one entry parked on its route: it is
\* dropped if an abort retired the wait, deferred while its publisher works, and
\* readies the task otherwise.
LEMMA WakeIs ==
  ASSUME Types, Placed, NEW n \in Notification, Heard(n), NEW held, process_wake(n, held)
  PROVE  /\ at' = at
         /\ \E p \in parked :
              /\ p.key = n.route /\ p.token = n.token /\ Task(p.key) = n.task /\ ParkedAt(n.route) = {p}
              /\ \/ deferred' = held /\ UNCHANGED <<parked, timers, ready, cell>>
                 \/ /\ deferred' = held \cup {n} /\ cell' = [cell EXCEPT ![n.task].seen = TRUE]
                    /\ UNCHANGED <<parked, timers, ready>>
                 \/ /\ cell[n.task].phase # "Claim" /\ deferred' = {d \in held : d.token # n.token}
                    /\ parked' = parked \ {p} /\ timers' = cancel(n.token)
                    /\ ready' = push_wake(ready, n.route) /\ UNCHANGED cell
<1>1. PICK p \in parked : p.key = n.route /\ p.token = n.token /\ Task(p.key) = n.task
  BY DEF Heard
<1>2. ParkedAt(n.route) = {p}
  BY <1>1 DEF ParkedAt, Placed
<1>3. ParkedAt(n.route) # {} /\ (CHOOSE q \in ParkedAt(n.route) : TRUE) = p /\ Task(n.route) = n.task
  BY <1>1, <1>2
<1>4. /\ at' = at
      /\ IF cell[n.task].phase = "Idle"
         THEN deferred' = held /\ UNCHANGED <<parked, timers, ready, cell>>
         ELSE IF cell[n.task].phase = "Claim"
         THEN /\ deferred' = held \cup {n} /\ cell' = [cell EXCEPT ![n.task].seen = TRUE]
              /\ UNCHANGED <<parked, timers, ready>>
         ELSE /\ deferred' = {d \in held : d.token # n.token}
              /\ parked' = parked \ ParkedAt(n.route) /\ timers' = cancel(n.token)
              /\ ready' = push_wake(ready, n.route) /\ UNCHANGED cell
  BY <1>1, <1>3 DEF process_wake
<1>. QED
  BY <1>1, <1>2, <1>4

\* Whatever queue the notice is taken from.
LEMMA WakeKeeps ==
  ASSUME IInv, NEW n \in Notification, Heard(n), NEW held, process_wake(n, held),
         held \subseteq deferred, n \notin held, hub' \subseteq hub, n \notin hub',
         local' \in LineOf(Notification), ToSet(local') \subseteq ToSet(local), n \notin ToSet(local'),
         at \in Waking \cup {"deferred"}, at = "deferred" => todo' \subseteq held,
         UNCHANGED <<slab, vacant, in_flight, aborts, starts, inbox, requests, flagged, lease, scope, place, job>>
  PROVE  IInv'
<1>1. /\ Types /\ SlabFits /\ Lives /\ Placed /\ Arrivals /\ Waits /\ Notices
      /\ Phase /\ Doomed /\ Leases /\ Halting
  BY DEF IInv
<1>2. at' = at
  BY <1>1, WakeIs
<1>3. PICK p \in parked :
        /\ p.key = n.route /\ p.token = n.token /\ Task(p.key) = n.task
        /\ \/ deferred' = held /\ UNCHANGED <<parked, timers, ready, cell>>
           \/ /\ deferred' = held \cup {n} /\ cell' = [cell EXCEPT ![n.task].seen = TRUE]
              /\ UNCHANGED <<parked, timers, ready>>
           \/ /\ cell[n.task].phase # "Claim" /\ deferred' = {d \in held : d.token # n.token}
              /\ parked' = parked \ {p} /\ timers' = cancel(n.token)
              /\ ready' = push_wake(ready, n.route) /\ UNCHANGED cell
  BY <1>1, WakeIs
<1>4. /\ n.task \in Tasks /\ n.route \in KeySet /\ cell[n.task].phase # "Active"
      /\ n.route \in LiveKeys /\ n.route \notin ToSet(ready.normal) /\ n.route \notin ToSet(ready.wakes)
      /\ n.route # in_flight
  BY <1>1, <1>3 DEF Notification, Heard, Placed
<1>5. hub \subseteq Notification /\ deferred \subseteq Notification /\ ToSet(local) \subseteq Notification
  BY <1>1, InLine DEF Types
<1>6. \A d \in Notification : Heard(d) /\ d # n => d.token # n.token /\ d.route # n.route
  BY <1>1, OneNotice
<1>7. held \subseteq deferred' /\ deferred' \subseteq held \cup {n}
  BY <1>1, <1>3, <1>5, <1>6 DEF Notices
<1>8. Phase'
  BY <1>1, <1>2, <1>7 DEF Phase, Waking
<1>9. Halting'
  BY <1>1, <1>2, SameLive DEF Halting
<1>10. SlabFits' /\ Lives' /\ Arrivals'
  BY <1>1, SlabFitsStays, LivesStays, ArrivalsStays
<1>11. CASE /\ deferred' \in {held, held \cup {n}} /\ UNCHANGED <<parked, timers, ready>>
            /\ cell' \in {cell, [cell EXCEPT ![n.task].seen = TRUE]}
  <2>1. cell \in Cells /\ cell' \in Cells
    <3>1. cell \in Cells
      BY <1>1 DEF Types, Cells
    <3>2. [cell EXCEPT ![n.task].seen = TRUE] \in Cells
      BY <1>4, <3>1 DEF Cells
    <3>. QED
      BY <1>11, <3>1, <3>2
  <2>2. \A t \in Tasks : cell'[t].n = cell[t].n /\ cell'[t].phase = cell[t].phase
    BY <1>4, <1>11, <2>1 DEF Cells
  <2>3. Calmer
    BY <2>2 DEF Calmer
  <2>4. Types'
    BY <1>1, <1>2, <1>5, <1>11, <2>1 DEF Types, Cells
  <2>5. Notices'
    <3>1. \A d \in Notification : Heard(d) => Heard(d)'
      BY <1>11, <2>3, HeardStays
    <3>2. /\ \A d \in hub' : Heard(d)' /\ d \notin deferred' /\ d \notin ToSet(local')
          /\ \A d \in deferred' : Heard(d)' /\ d \notin ToSet(local')
          /\ \A d \in ToSet(local') : Heard(d)'
      BY <1>1, <1>5, <1>7, <3>1 DEF Notices
    <3>. QED
      BY <3>2 DEF Notices
  <2>6. Placed' /\ Waits' /\ Doomed' /\ Leases'
    BY <1>1, <1>2, <1>11, <2>3, PlacedStays, WaitsStays, DoomedStays, LeasesStays
  <2>. QED
    BY <1>8, <1>9, <1>10, <2>4, <2>5, <2>6 DEF IInv
<1>12. CASE /\ cell[n.task].phase # "Claim" /\ deferred' = {d \in held : d.token # n.token}
            /\ parked' = parked \ {p} /\ timers' = cancel(n.token)
            /\ ready' = push_wake(ready, n.route) /\ UNCHANGED cell
  <2>1. /\ ready' \in Runnable /\ ToSet(ready'.wakes) = ToSet(ready.wakes) \cup {n.route}
        /\ ready'.normal = ready.normal
    BY <1>1, <1>4, <1>12, LaneFacts DEF Types
  <2>2. timers' \subseteq parked'
    BY <1>1, <1>3, <1>12 DEF Types, cancel
  <2>3. Types'
    <3>1. parked' \subseteq Parking /\ deferred' \subseteq Notification /\ hub' \subseteq Notification
      BY <1>1, <1>5, <1>12 DEF Types
    <3>. QED
      BY <1>1, <1>2, <1>12, <2>1, <2>2, <3>1 DEF Types
  <2>4. Placed'
    <3>1. LiveKeys' = LiveKeys
      BY SameLive
    <3>. QED
      BY <1>1, <1>3, <1>4, <1>12, <2>1, <3>1 DEF Placed
  <2>5. Waits'
    <3>1. \A t \in Tasks : cell[t].phase \in {"Active", "Claim"} => \E q \in parked' : Task(q.key) = t
      BY <1>1, <1>3, <1>4, <1>12 DEF Waits
    <3>. QED
      BY <1>1, <1>12, <3>1 DEF Waits, Task, token
  <2>6. Notices'
    <3>1. ASSUME NEW d \in Notification, Heard(d), d # n
          PROVE  Heard(d)'
      <4>1. PICK q \in parked : q.key = d.route /\ q.token = d.token /\ Task(q.key) = d.task
        BY <3>1 DEF Heard
      <4>2. q \in parked'
        BY <1>3, <1>6, <1>12, <3>1, <4>1
      <4>. QED
        BY <1>12, <3>1, <4>1, <4>2 DEF Heard, Task
    <3>2. n \notin deferred'
      BY <1>12
    <3>3. /\ \A d \in hub' : Heard(d)' /\ d \notin deferred' /\ d \notin ToSet(local')
          /\ \A d \in deferred' : Heard(d)' /\ d \notin ToSet(local')
          /\ \A d \in ToSet(local') : Heard(d)'
      BY <1>1, <1>5, <1>7, <3>1, <3>2 DEF Notices
    <3>. QED
      BY <3>3 DEF Notices
  <2>7. Doomed' /\ Leases'
    BY <1>1, <1>2, <1>12, SameCells, DoomedStays, LeasesStays
  <2>. QED
    BY <1>8, <1>9, <1>10, <2>3, <2>4, <2>5, <2>6, <2>7 DEF IInv
<1>. QED
  BY <1>3, <1>11, <1>12

\* Deferred wakes are looked at again.
LEMMA DeferredKeeps ==
  ASSUME IInv, process_deferred_wakes
  PROVE  IInv'
<1>1. Types /\ Notices /\ Phase
  BY DEF IInv
<1>2. /\ at = "deferred"
      /\ UNCHANGED <<slab, vacant, in_flight, aborts, starts, local, inbox, hub, requests, flagged,
                     lease, scope, place, job>>
  BY DEF process_deferred_wakes, slabs, shared
<1>3. PICK n \in todo : todo' = todo \ {n} /\ process_wake(n, deferred \ {n})
  BY DEF process_deferred_wakes
<1>4. /\ n \in deferred /\ n \in Notification /\ Heard(n) /\ n \notin hub /\ n \notin ToSet(local)
      /\ todo' \subseteq deferred \ {n} /\ local \in LineOf(Notification)
  BY <1>1, <1>2, <1>3 DEF Phase, Notices, Types
<1>. QED
  BY <1>2, <1>3, <1>4, WakeKeeps

\* The carrier's own notices, then the hub's.
LEMMA WakesKeeps ==
  ASSUME IInv, process_wakes
  PROVE  IInv'
<1>1. Types /\ Notices
  BY DEF IInv
<1>2. /\ at \in Waking /\ at # "deferred"
      /\ UNCHANGED <<slab, vacant, in_flight, aborts, starts, inbox, requests, flagged,
                     lease, scope, place, job>>
  BY DEF process_wakes, slabs, Waking
<1>3. CASE local # <<>>
  <2>1. local' = Tail(local) /\ process_wake(Head(local), deferred) /\ UNCHANGED hub
    BY <1>3 DEF process_wakes
  <2>2. /\ Head(local) \in Notification /\ Head(local) \in ToSet(local)
        /\ Tail(local) \in LineOf(Notification) /\ ToSet(Tail(local)) = ToSet(local) \ {Head(local)}
    BY <1>1, <1>3, ServeLine DEF Types
  <2>3. Heard(Head(local)) /\ Head(local) \notin hub /\ Head(local) \notin deferred
    BY <1>1, <2>2 DEF Notices
  <2>4. PICK n : n = Head(local)
    OBVIOUS
  <2>. QED
    BY <1>2, <2>1, <2>2, <2>3, <2>4, WakeKeeps
<1>4. CASE local = <<>>
  <2>1. PICK n \in hub : hub' = hub \ {n} /\ process_wake(n, deferred) /\ UNCHANGED local
    BY <1>4 DEF process_wakes
  <2>2. /\ n \in Notification /\ Heard(n) /\ n \notin deferred /\ n \notin ToSet(local)
        /\ local \in LineOf(Notification)
    BY <1>1, <2>1 DEF Notices, Types
  <2>. QED
    BY <1>2, <2>1, <2>2, WakeKeeps
<1>. QED
  BY <1>3, <1>4

-----------------------------------------------------------------------------
(* Timers *)

\* Slabs have finitely many slots.
LEMMA LiveFinite ==
  ASSUME Types
  PROVE  IsFiniteSet(LiveKeys)
<1>. DEFINE a == {"owned"} \X (1..Len(slab["owned"]))
            b == {"borrowed"} \X (1..Len(slab["borrowed"]))
<1>1. \A k \in Kinds : Len(slab[k]) \in Nat
  BY LiveFacts, OccupiedSlots
<1>2. \A n \in Nat : IsFiniteSet(1..n)
  BY FS_Interval
<1>3. IsFiniteSet({"owned"}) /\ IsFiniteSet({"borrowed"})
  BY FS_Singleton
<1>4. IsFiniteSet(a)
  BY <1>1, <1>2, <1>3, FS_Product DEF Kinds
<1>5. IsFiniteSet(b)
  BY <1>1, <1>2, <1>3, FS_Product DEF Kinds
<1>6. LiveKeys \subseteq a \cup b
  BY LiveFacts, OccupiedSlots DEF Kinds
<1>. HIDE DEF a, b
<1>. QED
  BY <1>4, <1>5, <1>6, FS_Union, FS_Subset

\* A key parks once.
LEMMA ParkedFinite ==
  ASSUME Types, Placed
  PROVE  /\ IsFiniteSet(parked) /\ IsFiniteSet({p.key : p \in parked})
         /\ Cardinality(parked) = Cardinality({p.key : p \in parked})
<1>. DEFINE K == {p.key : p \in parked}
            f == [p \in parked |-> p.key]
<1>1. IsFiniteSet(K)
  BY LiveFinite, FS_Subset DEF Placed
<1>2. f \in [parked -> K] /\ \A p \in parked : f[p] = p.key
  OBVIOUS
<1>3. \A x \in K : \E p \in parked : f[p] = x
  OBVIOUS
<1>. HIDE DEF f, K
<1>4. f \in Injection(parked, K) /\ f \in Surjection(parked, K)
  BY <1>2, <1>3 DEF Placed, Injection, Surjection, IsInjective
<1>. QED
  BY <1>1, <1>4, FS_Injection DEF K

\* A timer selects the wait it was set for, if nobody has won that.
LEMMA ExpireKeeps ==
  ASSUME IInv, expire_timers
  PROVE  IInv'
<1>1. /\ Types /\ SlabFits /\ Lives /\ Placed /\ Arrivals /\ Waits /\ Notices
      /\ Phase /\ Doomed /\ Leases /\ Halting
  BY DEF IInv
<1>2. /\ at = "timers" /\ at' = "expired"
      /\ UNCHANGED <<slab, vacant, ready, parked, deferred, in_flight, aborts, starts, local, inbox, requests,
                     flagged, lease, scope, place, todo, job>>
  BY DEF expire_timers, slabs
<1>3. PICK due \in SUBSET timers :
        LET won == {x \in due : cell[x.token[1]].phase = "Active" /\ token(x.token[1]) = x.token}
        IN /\ timers' = pop_expired(due)
           /\ cell' = [t \in Tasks |-> IF \E x \in won : x.token[1] = t
                                       THEN [cell[t] EXCEPT !.phase = "Selected"] ELSE cell[t]]
           /\ hub' = hub \cup {Notice(x.token[1]) : x \in won}
  BY DEF expire_timers
<1>. DEFINE won == {x \in due : cell[x.token[1]].phase = "Active" /\ token(x.token[1]) = x.token}
            new == {Notice(x.token[1]) : x \in won}
<1>4. \A x \in won : x \in parked /\ x.token[1] \in Tasks /\ cell[x.token[1]].phase = "Active"
  BY <1>1 DEF Types, Parking
<1>6. \A n \in new :
        /\ n \in Notification /\ n \notin hub /\ n \notin deferred /\ n \notin ToSet(local)
        /\ \E p \in parked : p.key = n.route /\ p.token = n.token /\ Task(p.key) = n.task
        /\ \E x \in won : x.token[1] = n.task
  <2>1. ASSUME NEW x \in won
        PROVE  /\ Notice(x.token[1]) \in Notification /\ Notice(x.token[1]).task = x.token[1]
               /\ Notice(x.token[1]) \notin hub /\ Notice(x.token[1]) \notin deferred
               /\ Notice(x.token[1]) \notin ToSet(local)
               /\ \E p \in parked : /\ p.key = Notice(x.token[1]).route /\ p.token = Notice(x.token[1]).token
                                    /\ Task(p.key) = Notice(x.token[1]).task
    <3>1. x.token[1] \in Tasks /\ cell[x.token[1]].phase = "Active"
      BY <1>4
    <3>. QED
      BY <1>1, <3>1, WonNotice
  <2>. QED
    BY <2>1
<1>7. /\ cell' = [t \in Tasks |-> IF \E x \in won : x.token[1] = t
                                  THEN [cell[t] EXCEPT !.phase = "Selected"] ELSE cell[t]]
      /\ hub' = hub \cup new /\ timers' \subseteq timers
  BY <1>3 DEF pop_expired
<1>. HIDE DEF won, new
<1>8. hub' \subseteq Notification
  BY <1>1, <1>6, <1>7 DEF Types
<1>9. cell \in Cells /\ cell' \in Cells
  <2>1. cell \in Cells
    BY <1>1 DEF Types, Cells
  <2>2. \A t \in Tasks : [cell[t] EXCEPT !.phase = "Selected"] \in
          [phase : {"Idle", "Active", "Claim", "Selected"}, n : Nat, join : BOOLEAN, seen : BOOLEAN]
    BY <2>1 DEF Cells
  <2>. QED
    BY <1>7, <2>1, <2>2 DEF Cells
<1>10. \A t \in Tasks : /\ cell'[t].n = cell[t].n
                        /\ cell'[t].phase = IF \E x \in won : x.token[1] = t THEN "Selected" ELSE cell[t].phase
  BY <1>7, <1>9 DEF Cells
<1>11. Calmer
  BY <1>10 DEF Calmer
<1>12. Types'
  BY <1>1, <1>2, <1>7, <1>8, <1>9 DEF Types, Cells, Phases
<1>13. Notices'
  <2>1. \A n \in Notification : Heard(n) => Heard(n)'
    BY <1>2, <1>11, HeardStays
  <2>2. \A n \in new : Heard(n)'
    <3>1. ASSUME NEW n \in new
          PROVE  Heard(n)'
      <4>1. n.task \in Tasks /\ cell'[n.task].phase = "Selected"
        BY <1>6, <1>10 DEF Notification
      <4>. QED
        BY <1>2, <1>6, <4>1 DEF Heard, Task
    <3>. QED
      BY <3>1
  <2>3. hub \subseteq Notification /\ deferred \subseteq Notification /\ ToSet(local) \subseteq Notification
    BY <1>1, InLine DEF Types
  <2>4. hub' = hub \cup new /\ deferred' = deferred /\ local' = local
    BY <1>2, <1>7
  <2>5. /\ \A n \in hub' : Heard(n)' /\ n \notin deferred' /\ n \notin ToSet(local')
        /\ \A n \in deferred' : Heard(n)' /\ n \notin ToSet(local')
        /\ \A n \in ToSet(local') : Heard(n)'
    BY <1>1, <1>6, <2>1, <2>2, <2>3, <2>4 DEF Notices
  <2>. QED
    BY <2>5 DEF Notices
<1>14. Phase' /\ Halting'
  BY <1>1, <1>2 DEF Phase, Halting, NoJob
<1>15. SlabFits' /\ Lives' /\ Placed' /\ Arrivals'
  BY <1>1, <1>2, SlabFitsStays, LivesStays, PlacedStays, ArrivalsStays
<1>16. Waits' /\ Doomed' /\ Leases'
  BY <1>1, <1>2, <1>11, WaitsStays, DoomedStays, LeasesStays
<1>. QED
  BY <1>12, <1>13, <1>14, <1>15, <1>16 DEF IInv

-----------------------------------------------------------------------------
(* What a mounted task does *)

\* The task in flight is live, in no queue, and does not wait.
LEMMA MountedIs ==
  ASSUME IInv, at \in {"mount", "run"}
  PROVE  /\ in_flight \in LiveKeys /\ in_flight \in KeySet /\ in_flight # NoTask
         /\ Mounted \in Tasks /\ place[Mounted] = "live" /\ Mounted = Task(in_flight)
         /\ in_flight \notin ToSet(ready.normal) /\ in_flight \notin ToSet(ready.wakes)
         /\ job = NoJob /\ job.keys = {}
         /\ \A p \in parked : p.key # in_flight /\ Task(p.key) # Mounted /\ Task(p.key) \in Tasks
         /\ cell[Mounted].phase \notin {"Active", "Claim"}
<1>1. Types /\ Lives /\ Placed /\ Waits /\ Phase
  BY DEF IInv
<1>2. in_flight # NoTask /\ job = NoJob /\ job.keys = {}
  BY <1>1 DEF Phase, NoJob
<1>3. in_flight \in LiveKeys
  BY <1>1, <1>2 DEF Placed
<1>4. in_flight \in KeySet /\ Mounted \in Tasks /\ Mounted = Task(in_flight) /\ place[Mounted] = "live"
  BY <1>1, <1>3, LiveFacts DEF Mounted, Lives
<1>5. in_flight \notin ToSet(ready.normal) /\ in_flight \notin ToSet(ready.wakes)
  BY <1>1 DEF Placed
<1>6. \A p \in parked : p.key # in_flight /\ Task(p.key) # Mounted /\ Task(p.key) \in Tasks
  <2>1. \A p \in parked : p.key # in_flight /\ p.key \in LiveKeys
    BY <1>1 DEF Placed
  <2>. QED
    BY <1>1, <1>3, <1>4, <2>1, LiveFacts DEF Lives
<1>7. cell[Mounted].phase \notin {"Active", "Claim"}
  BY <1>1, <1>4, <1>6 DEF Waits
<1>. QED
  BY <1>2, <1>3, <1>4, <1>5, <1>6, <1>7

\* A revoked stack is discarded; another one is resumed with the result of its wait.
LEMMA DispatchKeeps ==
  ASSUME IInv, dispatch
  PROVE  IInv'
<1>1. /\ Types /\ SlabFits /\ Lives /\ Placed /\ Arrivals /\ Waits /\ Notices
      /\ Phase /\ Doomed /\ Leases /\ Halting
  BY DEF IInv
<1>2. /\ at = "mount"
      /\ UNCHANGED <<slab, vacant, ready, parked, timers, deferred, in_flight, aborts, starts, local, inbox,
                     hub, requests, flagged, scope, place, todo>>
  BY DEF dispatch, slabs, queues, shared
<1>3. /\ in_flight \in LiveKeys /\ in_flight \in KeySet /\ in_flight # NoTask
      /\ Mounted \in Tasks /\ place[Mounted] = "live" /\ Mounted = Task(in_flight)
      /\ job = NoJob /\ cell[Mounted].phase \notin {"Active", "Claim"}
  BY <1>2, MountedIs
<1>4. CASE in_flight \in Gone
  <2>1. at' = "discard" /\ job' = [keys |-> {in_flight}, back |-> "top"] /\ UNCHANGED <<cell, lease>>
    BY <1>4 DEF dispatch
  <2>2. job' \in [keys : SUBSET KeySet, back : {"top", "requests", "retry", "halt"}]
    BY <1>3, <2>1
  <2>3. Phase' /\ Halting'
    BY <1>1, <1>2, <2>1 DEF Phase, Halting
  <2>4. Doomed'
    <3>1. Mounted \in Kids
      BY <1>3, <1>4 DEF Gone
    <3>2. \A y \in LiveKeys : ~ (Task(y) \in Kids /\ OwnerOf[Task(y)] = Mounted)
      BY <3>1, KernelAssumption
    <3>3. LiveKeys' = LiveKeys /\ job'.keys = {in_flight}
      BY <1>2, <2>1, SameLive
    <3>. QED
      BY <1>2, <1>3, <2>1, <3>2, <3>3 DEF Doomed, Task
  <2>. QED
    BY <1>2, <2>1, <2>2, <2>3, <2>4, DriveKeeps DEF Phases
<1>5. CASE in_flight \notin Gone
  <2>1. /\ at' = "run" /\ job' = job /\ cell' = [cell EXCEPT ![Mounted] = Idle(@.n)]
        /\ lease' = IF Mounted \in Kids THEN [lease EXCEPT ![Mounted] = "Running"] ELSE lease
    BY <1>5 DEF dispatch
  <2>2. cell \in Cells /\ cell' \in Cells
    BY <1>1, <1>3, <2>1, OneCell DEF Types, Cells
  <2>3. \A t \in Tasks : cell'[t].n = cell[t].n /\ cell'[t].phase = IF t = Mounted THEN "Idle" ELSE cell[t].phase
    BY <1>3, <2>1, <2>2 DEF Cells, Idle
  <2>4. Calmer
    BY <2>3 DEF Calmer
  <2>5. \A k \in Kids : lease'[k] = IF k = Mounted THEN "Running" ELSE lease[k]
    BY <1>1, <2>1 DEF Types
  <2>6. Types'
    <3>1. lease' \in [Kids -> {"none", "Ready", "Running", "Reclaimed"}]
      BY <1>1, <2>1 DEF Types
    <3>. QED
      BY <1>1, <1>2, <2>1, <2>2, <3>1 DEF Types, Cells, Phases
  <2>7. Leases'
    <3>1. Mounted \in Kids => lease[Mounted] \in {"Ready", "Running"} /\ scope[OwnerOf[Mounted]] = "open"
      BY <1>1, <1>3, <1>5 DEF Leases, Types, Gone
    <3>2. /\ \A k \in Kids : lease'[k] \in {"Ready", "Running"} => scope[OwnerOf[k]] = "open"
          /\ \A k \in Kids : place[k] \in {"starts", "live"} => lease'[k] # "none"
      BY <1>1, <2>5, <3>1 DEF Leases
    <3>3. \A k \in Kids : place[k] = "live" /\ lease'[k] = "Reclaimed" =>
            cell'[k].phase \notin {"Active", "Claim"}
      BY <1>1, <2>3, <2>5 DEF Leases, Tasks
    <3>4. Task(in_flight) \in Kids => lease'[Task(in_flight)] = "Running"
      BY <1>3, <2>5
    <3>. QED
      BY <1>1, <1>2, <3>2, <3>3, <3>4 DEF Leases, Task
  <2>8. Phase' /\ Halting'
    BY <1>1, <1>2, <1>3, <2>1 DEF Phase, Halting
  <2>9. SlabFits' /\ Lives' /\ Placed' /\ Arrivals'
    BY <1>1, <1>2, SlabFitsStays, LivesStays, PlacedStays, ArrivalsStays
  <2>10. Waits' /\ Notices' /\ Doomed'
    BY <1>1, <1>2, <2>1, <2>4, WaitsStays, NoticesStays, DoomedStays
  <2>. QED
    BY <2>6, <2>7, <2>8, <2>9, <2>10 DEF IInv
<1>. QED
  BY <1>4, <1>5

\* A root opens its scope for a child, whose lease precedes its start.
LEMMA SpawnKeeps ==
  ASSUME IInv, NEW k \in Kids, spawn(k)
  PROVE  IInv'
<1>1. /\ Types /\ SlabFits /\ Lives /\ Placed /\ Arrivals /\ Waits /\ Notices
      /\ Phase /\ Doomed /\ Leases /\ Halting
  BY DEF IInv
<1>2. /\ at = "run" /\ Mounted = OwnerOf[k] /\ place[k] = "new"
      /\ scope' = [scope EXCEPT ![Mounted] = "open"] /\ lease' = [lease EXCEPT ![k] = "Ready"]
      /\ starts' = Append(starts, k) /\ place' = [place EXCEPT ![k] = "starts"]
      /\ UNCHANGED <<slab, vacant, ready, parked, timers, deferred, in_flight, aborts, local, inbox,
                     hub, requests, flagged, cell, at, todo, job>>
  BY DEF spawn, push_start, slabs, queues, shared, drive
<1>3. Mounted \in Roots /\ place[Mounted] = "live" /\ Mounted = Task(in_flight) /\ Mounted # k
  BY <1>2, MountedIs, KernelAssumption
<1>4. starts' \in LineOf(Kids) /\ ToSet(starts') = ToSet(starts) \cup {k}
  BY <1>1, <1>2, JoinLine DEF Types, Arrivals
<1>5. /\ \A t \in Tasks : place'[t] = IF t = k THEN "starts" ELSE place[t]
      /\ \A r \in Roots : scope'[r] = IF r = Mounted THEN "open" ELSE scope[r]
      /\ \A j \in Kids : lease'[j] = IF j = k THEN "Ready" ELSE lease[j]
  BY <1>1, <1>2 DEF Types
<1>6. Types'
  <2>1. /\ lease' \in [Kids -> {"none", "Ready", "Running", "Reclaimed"}]
        /\ scope' \in [Roots -> {"none", "open", "closed"}]
        /\ place' \in [Tasks -> {"new", "inbox", "starts", "live", "done"}]
    BY <1>1, <1>2 DEF Types
  <2>. QED
    BY <1>1, <1>2, <1>4, <2>1 DEF Types
<1>7. Lives'
  <2>1. \A x \in LiveKeys : Task(x) \in Tasks /\ Task(x) # k
    BY <1>1, <1>2, LiveFacts DEF Lives
  <2>. QED
    BY <1>1, <1>2, <1>5, <2>1, SameLive DEF Lives, Task
<1>8. Arrivals'
  BY <1>1, <1>2, <1>4, <1>5, KernelAssumption DEF Arrivals, Tasks
<1>9. Leases'
  <2>1. \A j \in Kids : OwnerOf[j] \in Roots /\ j \notin Roots /\ j \in Tasks
    BY KernelAssumption DEF Tasks
  <2>2. \A r \in Roots : r \in Tasks /\ r # k
    BY KernelAssumption DEF Tasks
  <2>3. \A j \in Kids : lease'[j] \in {"Ready", "Running"} => scope'[OwnerOf[j]] = "open"
    BY <1>1, <1>2, <1>5, <2>1 DEF Leases
  <2>4. \A j \in Kids : place'[j] \in {"starts", "live"} => lease'[j] # "none"
    BY <1>1, <1>5, <2>1 DEF Leases
  <2>5. \A j \in Kids : place'[j] = "live" /\ lease'[j] = "Reclaimed" => cell[j].phase \notin {"Active", "Claim"}
    BY <1>1, <1>5, <2>1 DEF Leases
  <2>6. \A r \in Roots : scope'[r] = "open" => place'[r] = "live"
    BY <1>1, <1>3, <1>5, <2>2 DEF Leases
  <2>7. Task(in_flight) \notin Kids
    BY <1>3, <2>1
  <2>. QED
    BY <1>2, <2>3, <2>4, <2>5, <2>6, <2>7 DEF Leases, Task
<1>10. Phase' /\ Halting'
  BY <1>1, <1>2 DEF Phase, Halting
<1>11. SlabFits' /\ Placed'
  BY <1>1, <1>2, SlabFitsStays, PlacedStays
<1>12. Waits' /\ Notices' /\ Doomed'
  BY <1>1, <1>2, SameCells, WaitsStays, NoticesStays, DoomedStays
<1>. QED
  BY <1>6, <1>7, <1>8, <1>9, <1>10, <1>11, <1>12 DEF IInv

\* A task wakes another one of its carrier: the notice goes to the local queue.
LEMMA WakeOtherKeeps ==
  ASSUME IInv, NEW t \in Tasks, wake(t)
  PROVE  IInv'
<1>1. Types /\ Lives /\ Placed /\ Waits /\ Notices
  BY DEF IInv
<1>2. /\ cell[t].phase = "Active"
      /\ cell' = [cell EXCEPT ![t].phase = "Selected"] /\ local' = Append(local, Notice(t))
      /\ UNCHANGED <<slab, vacant, ready, parked, timers, deferred, in_flight, aborts, starts, inbox, hub,
                     requests, flagged, lease, scope, place, at, todo, job>>
  BY DEF wake, slabs, queues, shared, drive
<1>3. PICK m \in Notification :
        /\ m = Notice(t) /\ m.task = t
        /\ m \notin hub /\ m \notin deferred /\ m \notin ToSet(local)
        /\ \E p \in parked : p.key = m.route /\ p.token = m.token /\ Task(p.key) = m.task
  BY <1>1, <1>2, WonNotice
<1>4. cell \in Cells /\ cell' \in Cells
  BY <1>1, <1>2, OneCell DEF Types, Cells
<1>5. \A u \in Tasks : cell'[u].n = cell[u].n /\ cell'[u].phase = IF u = t THEN "Selected" ELSE cell[u].phase
  BY <1>2, <1>4 DEF Cells
<1>6. Calmer
  BY <1>2, <1>5 DEF Calmer
<1>7. local' \in LineOf(Notification) /\ ToSet(local') = ToSet(local) \cup {m}
  BY <1>1, <1>2, <1>3, JoinLine DEF Types
<1>8. Types'
  BY <1>1, <1>2, <1>4, <1>7 DEF Types, Cells
<1>9. Notices'
  <2>1. \A n \in Notification : Heard(n) => Heard(n)'
    BY <1>2, <1>6, HeardStays
  <2>2. Heard(m)'
    BY <1>2, <1>3, <1>5 DEF Heard, Task
  <2>3. hub \subseteq Notification /\ deferred \subseteq Notification /\ ToSet(local) \subseteq Notification
    BY <1>1, InLine DEF Types
  <2>4. hub' = hub /\ deferred' = deferred
    BY <1>2
  <2>5. /\ \A n \in hub' : Heard(n)' /\ n \notin deferred' /\ n \notin ToSet(local')
        /\ \A n \in deferred' : Heard(n)' /\ n \notin ToSet(local')
        /\ \A n \in ToSet(local') : Heard(n)'
    BY <1>1, <1>3, <1>7, <2>1, <2>2, <2>3, <2>4 DEF Notices
  <2>. QED
    BY <2>5 DEF Notices
<1>. QED
  BY <1>2, <1>6, <1>8, <1>9, OutsideKeeps

\* A local scope returns: its live children are gone, the others lose their stacks.
LEMMA ExitScopeKeeps ==
  ASSUME IInv, exit_scope
  PROVE  IInv'
<1>1. /\ Types /\ SlabFits /\ Lives /\ Placed /\ Arrivals /\ Waits /\ Notices
      /\ Phase /\ Doomed /\ Leases /\ Halting
  BY DEF IInv
<1>2. /\ at = "run" /\ Mounted \in Roots /\ \A k \in Children(Mounted) : place[k] = "starts"
      /\ scope' = [scope EXCEPT ![Mounted] = "closed"] /\ lease' = Revoked(Mounted)
      /\ UNCHANGED <<slab, vacant, ready, parked, timers, deferred, in_flight, aborts, starts, local, inbox,
                     hub, requests, flagged, cell, place, at, todo, job>>
  BY DEF exit_scope, slabs, queues, shared, drive
<1>3. Mounted = Task(in_flight)
  BY DEF Mounted
<1>4. /\ lease \in [Kids -> {"none", "Ready", "Running", "Reclaimed"}]
      /\ scope \in [Roots -> {"none", "open", "closed"}]
  BY <1>1 DEF Types
<1>5. /\ \A j \in Kids : lease'[j] = IF OwnerOf[j] = Mounted /\ lease[j] # "none" THEN "Reclaimed" ELSE lease[j]
      /\ lease' \in [Kids -> {"none", "Ready", "Running", "Reclaimed"}]
  BY <1>2, <1>4 DEF Revoked
<1>6. /\ \A r \in Roots : scope'[r] = IF r = Mounted THEN "closed" ELSE scope[r]
      /\ scope' \in [Roots -> {"none", "open", "closed"}]
  BY <1>2, <1>4
<1>7. Types'
  BY <1>1, <1>2, <1>5, <1>6 DEF Types
<1>8. Leases'
  <2>1. \A j \in Kids : OwnerOf[j] \in Roots /\ j \notin Roots /\ j \in Tasks
    BY KernelAssumption DEF Tasks
  <2>2. \A j \in Kids : lease'[j] \in {"Ready", "Running"} => scope'[OwnerOf[j]] = "open"
    BY <1>1, <1>5, <1>6, <2>1 DEF Leases
  <2>3. \A j \in Kids : place[j] \in {"starts", "live"} => lease'[j] # "none"
    BY <1>1, <1>5, <2>1 DEF Leases
  <2>4. \A j \in Kids : place[j] = "live" => OwnerOf[j] # Mounted
    BY <1>2 DEF Children
  <2>5. \A j \in Kids : place[j] = "live" /\ lease'[j] = "Reclaimed" => cell[j].phase \notin {"Active", "Claim"}
    BY <1>1, <1>5, <2>1, <2>4 DEF Leases
  <2>6. \A r \in Roots : scope'[r] = "open" => place[r] = "live"
    BY <1>1, <1>6 DEF Leases
  <2>7. Task(in_flight) \notin Kids
    BY <1>2, <1>3, <2>1
  <2>. QED
    BY <1>2, <2>2, <2>3, <2>5, <2>6, <2>7 DEF Leases, Task
<1>9. SlabFits' /\ Lives' /\ Placed' /\ Arrivals' /\ Phase' /\ Halting'
  BY <1>1, <1>2, SlabFitsStays, LivesStays, PlacedStays, ArrivalsStays, PhaseStays, HaltingStays
<1>10. Waits' /\ Notices' /\ Doomed'
  BY <1>1, <1>2, SameCells, WaitsStays, NoticesStays, DoomedStays
<1>. QED
  BY <1>7, <1>8, <1>9, <1>10 DEF IInv

\* The stack of a task that leaves the carrier is ready again.
LEMMA SuspendedIs ==
  ASSUME IInv, at = "run", lease' = Suspended
  PROVE  /\ lease' \in [Kids -> {"none", "Ready", "Running", "Reclaimed"}]
         /\ \A k \in Kids : lease'[k] = IF k = Mounted THEN "Ready" ELSE lease[k]
         /\ Mounted \in Kids => lease[Mounted] = "Running"
BY DEF IInv, Types, Leases, Suspended, Mounted

\* A yielding task stands behind the others.
LEMMA YieldKeeps ==
  ASSUME IInv, yield_now
  PROVE  IInv'
<1>1. /\ Types /\ SlabFits /\ Lives /\ Placed /\ Arrivals /\ Waits /\ Notices
      /\ Phase /\ Doomed /\ Leases /\ Halting
  BY DEF IInv
<1>2. /\ at = "run" /\ at' = "top" /\ in_flight' = NoTask /\ lease' = Suspended
      /\ ready' = push_back(ready, in_flight)
      /\ UNCHANGED <<slab, vacant, parked, timers, deferred, aborts, starts, local, inbox, hub, requests,
                     flagged, cell, scope, place, todo, job>>
  BY DEF yield_now, slabs, shared
<1>3. /\ in_flight \in LiveKeys /\ in_flight \in KeySet /\ in_flight # NoTask
      /\ in_flight \notin ToSet(ready.normal) /\ in_flight \notin ToSet(ready.wakes) /\ job = NoJob
      /\ \A p \in parked : p.key # in_flight
  BY <1>2, MountedIs
<1>4. /\ ready' \in Runnable /\ ToSet(ready'.normal) = ToSet(ready.normal) \cup {in_flight}
      /\ ready'.wakes = ready.wakes
  BY <1>1, <1>2, <1>3, LaneFacts DEF Types
<1>5. /\ lease' \in [Kids -> {"none", "Ready", "Running", "Reclaimed"}]
      /\ \A k \in Kids : lease'[k] = IF k = Mounted THEN "Ready" ELSE lease[k]
      /\ Mounted \in Kids => lease[Mounted] = "Running"
  BY <1>2, SuspendedIs
<1>6. Types'
  BY <1>1, <1>2, <1>4, <1>5 DEF Types, Phases
<1>7. Placed'
  <2>1. LiveKeys' = LiveKeys /\ NoTask \notin LiveKeys
    BY <1>1, <1>2, SameLive, LiveFacts
  <2>. QED
    BY <1>1, <1>2, <1>3, <1>4, <2>1 DEF Placed
<1>8. Leases'
  <2>1. \A k \in Kids : lease'[k] \in {"Ready", "Running"} <=> lease[k] \in {"Ready", "Running"}
    BY <1>5
  <2>2. \A k \in Kids : /\ lease'[k] = "none" => lease[k] = "none"
                        /\ lease'[k] = "Reclaimed" => lease[k] = "Reclaimed"
    BY <1>5
  <2>. QED
    BY <1>1, <1>2, <2>1, <2>2 DEF Leases
<1>9. Phase' /\ Halting'
  BY <1>1, <1>2, <1>3 DEF Phase, Halting, NoJob
<1>10. SlabFits' /\ Lives' /\ Arrivals'
  BY <1>1, <1>2, SlabFitsStays, LivesStays, ArrivalsStays
<1>11. Waits' /\ Notices' /\ Doomed'
  BY <1>1, <1>2, SameCells, WaitsStays, NoticesStays, DoomedStays
<1>. QED
  BY <1>6, <1>7, <1>8, <1>9, <1>10, <1>11 DEF IInv

\* A parking task waits with a new token, under its key, and its deadline with it.
LEMMA ParkKeeps ==
  ASSUME IInv, NEW timed \in BOOLEAN, NEW join \in BOOLEAN, park_task(timed, join)
  PROVE  IInv'
<1>1. /\ Types /\ SlabFits /\ Lives /\ Placed /\ Arrivals /\ Waits /\ Notices
      /\ Phase /\ Doomed /\ Leases /\ Halting
  BY DEF IInv
<1>. DEFINE n == cell[Mounted].n + 1
            p == [key |-> in_flight, token |-> <<Mounted, n>>]
<1>2. /\ at = "run" /\ at' = "top" /\ in_flight' = NoTask /\ lease' = Suspended
      /\ cell' = [cell EXCEPT ![Mounted] = [phase |-> "Active", n |-> @.n + 1, join |-> join, seen |-> FALSE]]
      /\ parked' = parked \cup {p} /\ timers' \subseteq timers \cup {p} /\ timers \subseteq timers'
      /\ UNCHANGED <<slab, vacant, ready, deferred, aborts, starts, local, inbox, hub, requests,
                     flagged, scope, place, todo, job>>
  BY DEF park_task, schedule, slabs, shared
<1>3. /\ in_flight \in LiveKeys /\ in_flight \in KeySet /\ in_flight # NoTask
      /\ Mounted \in Tasks /\ place[Mounted] = "live" /\ Mounted = Task(in_flight)
      /\ in_flight \notin ToSet(ready.normal) /\ in_flight \notin ToSet(ready.wakes)
      /\ job = NoJob /\ job.keys = {}
      /\ \A q \in parked : q.key # in_flight /\ Task(q.key) # Mounted /\ Task(q.key) \in Tasks
  BY <1>2, MountedIs
<1>4. /\ lease' \in [Kids -> {"none", "Ready", "Running", "Reclaimed"}]
      /\ \A k \in Kids : lease'[k] = IF k = Mounted THEN "Ready" ELSE lease[k]
      /\ Mounted \in Kids => lease[Mounted] = "Running"
  BY <1>2, SuspendedIs
<1>5. cell \in Cells /\ n \in Nat
  BY <1>1, <1>3 DEF Types, Cells
<1>6. /\ cell' \in Cells /\ cell'[Mounted].n = n
      /\ \A t \in Tasks : t # Mounted => cell'[t] = cell[t]
  BY <1>2, <1>3, <1>5 DEF Cells
<1>7. p \in Parking /\ p.key = in_flight /\ p.token = <<Mounted, n>>
  BY <1>3, <1>5 DEF Parking
<1>. HIDE DEF p, n
<1>8. Types'
  <2>1. parked' \subseteq Parking /\ timers' \subseteq parked'
    BY <1>1, <1>2, <1>7 DEF Types
  <2>. QED
    BY <1>1, <1>2, <1>4, <1>6, <2>1 DEF Types, Cells, Phases
<1>9. Placed'
  <2>1. LiveKeys' = LiveKeys /\ NoTask \notin LiveKeys /\ \A x \in LiveKeys : x # NoTask
    BY <1>1, <1>2, SameLive, LiveFacts
  <2>2. \A x : (\E q \in parked' : q.key = x) <=> x = in_flight \/ \E q \in parked : q.key = x
    BY <1>2, <1>7
  <2>3. NoTask \notin ToSet(ready.normal) /\ NoTask \notin ToSet(ready.wakes) /\ \A q \in parked : q.key # NoTask
    BY <1>1, <2>1 DEF Placed
  <2>4. \A x : x \in LiveKeys <=> x \in ToSet(ready.normal) \/ x \in ToSet(ready.wakes) \/ \E q \in parked' : q.key = x
    BY <1>1, <1>3, <2>2 DEF Placed
  <2>5. /\ \A q \in parked' : q.key \notin ToSet(ready.normal) /\ q.key \notin ToSet(ready.wakes) /\ q.key # NoTask
        /\ \A q, r \in parked' : q.key = r.key => q = r
    BY <1>1, <1>2, <1>3, <1>7, <2>3 DEF Placed
  <2>. QED
    BY <1>1, <1>2, <2>1, <2>3, <2>4, <2>5 DEF Placed
<1>10. Waits'
  <2>1. \A q \in parked' : q.token = <<Task(q.key), cell'[Task(q.key)].n>>
    BY <1>1, <1>2, <1>3, <1>6, <1>7 DEF Waits, token
  <2>2. \A t \in Tasks : cell'[t].phase \in {"Active", "Claim"} => \E q \in parked' : Task(q.key) = t
    BY <1>1, <1>2, <1>3, <1>6, <1>7 DEF Waits
  <2>. QED
    BY <1>2, <2>1, <2>2 DEF Waits, Task, token
<1>11. Notices'
  <2>1. ASSUME NEW m \in Notification, Heard(m)
        PROVE  Heard(m)'
    <3>1. m.task \in Tasks /\ m.task # Mounted
      BY <1>3, <2>1 DEF Heard
    <3>. QED
      BY <1>2, <1>6, <2>1, <3>1 DEF Heard, Task
  <2>2. /\ hub \subseteq Notification /\ deferred \subseteq Notification /\ ToSet(local) \subseteq Notification
    BY <1>1, InLine DEF Types
  <2>3. /\ \A m \in hub' : Heard(m)' /\ m \notin deferred' /\ m \notin ToSet(local')
        /\ \A m \in deferred' : Heard(m)' /\ m \notin ToSet(local')
        /\ \A m \in ToSet(local') : Heard(m)'
    BY <1>1, <1>2, <2>1, <2>2 DEF Notices
  <2>. QED
    BY <2>3 DEF Notices
<1>12. Leases'
  <2>1. \A k \in Kids : lease'[k] \in {"Ready", "Running"} <=> lease[k] \in {"Ready", "Running"}
    BY <1>4
  <2>2. \A k \in Kids : /\ lease'[k] = "none" => lease[k] = "none"
                        /\ lease'[k] = "Reclaimed" => lease[k] = "Reclaimed" /\ k # Mounted
    BY <1>4
  <2>3. \A k \in Kids : place[k] = "live" /\ lease'[k] = "Reclaimed" => cell'[k].phase \notin {"Active", "Claim"}
    BY <1>1, <1>6, <2>2 DEF Leases, Tasks
  <2>. QED
    BY <1>1, <1>2, <2>1, <2>2, <2>3 DEF Leases
<1>13. Phase' /\ Halting'
  BY <1>1, <1>2, <1>3 DEF Phase, Halting, NoJob
<1>14. SlabFits' /\ Lives' /\ Arrivals'
  BY <1>1, <1>2, SlabFitsStays, LivesStays, ArrivalsStays
<1>15. Doomed'
  BY <1>2, <1>3 DEF Doomed
<1>. QED
  BY <1>8, <1>9, <1>10, <1>11, <1>12, <1>13, <1>14, <1>15 DEF IInv

-----------------------------------------------------------------------------
(* Reclaiming tasks *)

\* remove_in_flight frees the slot of a live task, and no other.
LEMMA SlotFreed ==
  ASSUME Types, SlabFits, NEW x \in LiveKeys, remove_in_flight(x)
  PROVE  /\ slab' \in Slab /\ vacant' \in [Kinds -> LineOf(Nat)] /\ SlabFits'
         /\ LiveKeys' = LiveKeys \ {x}
         /\ \A y \in LiveKeys : y # x => Task(y)' = Task(y)
<1>. DEFINE k == x[1]
            i == x[2]
            q == slab[k]
            p == [q EXCEPT ![i] = NoTask]
<1>1. /\ slab \in Slab /\ vacant \in [Kinds -> LineOf(Nat)] /\ LiveKeys = Occupied(slab)
      /\ \A m \in Kinds : ToSet(vacant[m]) = {j \in 1..Len(slab[m]) : slab[m][j] = NoTask}
  BY LiveFacts DEF Types, SlabFits, Vacancies
<1>2. /\ x = <<k, i>> /\ k \in Kinds /\ i \in 1..Len(q) /\ q[i] \in Tasks /\ i \in Nat
  BY <1>1, OccupiedSlots
<1>3. slab' = [slab EXCEPT ![k] = p] /\ vacant' = [vacant EXCEPT ![k] = Append(vacant[k], i)]
  BY <1>1, <1>2 DEF remove_in_flight
<1>4. q \in Seq(Tasks \cup {NoTask}) /\ q = slab[k]
  BY <1>1, <1>2 DEF Slab
<1>5. /\ p \in Seq(Tasks \cup {NoTask}) /\ Len(p) = Len(q) /\ p[i] = NoTask
      /\ \A j \in 1..Len(q) : j # i => p[j] = q[j]
  <2>. DEFINE U == Tasks \cup {NoTask}
  <2>1. NoTask \in U /\ q \in Seq(U)
    BY <1>4
  <2>. HIDE DEF q, U
  <2>2. /\ p \in Seq(U) /\ Len(p) = Len(q) /\ p[i] = NoTask
        /\ \A j \in 1..Len(q) : j # i => p[j] = q[j]
    BY <1>2, <2>1, ExceptSeq
  <2>. QED
    BY <2>2 DEF U
<1>. HIDE DEF k, i, q, p
<1>6. /\ slab' \in Slab /\ slab'[k] = p /\ \A m \in Kinds : m # k => slab'[m] = slab[m]
  BY <1>1, <1>2, <1>3, <1>5 DEF Slab
<1>7. /\ vacant[k] \in LineOf(Nat) /\ i \notin ToSet(vacant[k])
  BY <1>1, <1>2, <1>4, KernelAssumption
<1>8. Append(vacant[k], i) \in LineOf(Nat) /\ ToSet(Append(vacant[k], i)) = ToSet(vacant[k]) \cup {i}
  BY <1>2, <1>7, JoinLine
<1>9. /\ vacant' \in [Kinds -> LineOf(Nat)] /\ ToSet(vacant'[k]) = ToSet(vacant[k]) \cup {i}
      /\ \A m \in Kinds : m # k => vacant'[m] = vacant[m]
  BY <1>1, <1>2, <1>3, <1>8
<1>10. ToSet(vacant'[k]) = {j \in 1..Len(p) : p[j] = NoTask}
  <2>1. ToSet(vacant[k]) = {j \in 1..Len(q) : q[j] = NoTask}
    BY <1>1, <1>2, <1>4
  <2>. QED
    BY <1>2, <1>5, <1>9, <2>1
<1>11. SlabFits'
  <2>1. \A m \in Kinds : ToSet(vacant'[m]) = {j \in 1..Len(slab'[m]) : slab'[m][j] = NoTask}
    BY <1>1, <1>6, <1>9, <1>10
  <2>. QED
    BY <2>1 DEF SlabFits, Vacancies
<1>12. LiveKeys' = Occupied(slab')
  BY <1>6 DEF LiveKeys, Occupied, Task, Slab
<1>13. \A m, j : <<m, j>> \in Occupied(slab) <=> m \in Kinds /\ j \in 1..Len(slab[m]) /\ slab[m][j] # NoTask
  BY <1>1, OccupiedSlots
<1>14. \A m, j : <<m, j>> \in Occupied(slab') <=> m \in Kinds /\ j \in 1..Len(slab'[m]) /\ slab'[m][j] # NoTask
  BY <1>6, OccupiedSlots
<1>15. /\ \A y \in Occupied(slab) : y = <<y[1], y[2]>>
       /\ \A y \in Occupied(slab') : y = <<y[1], y[2]>>
  BY <1>1, <1>6, OccupiedSlots
<1>16. ASSUME NEW m, NEW j
       PROVE  /\ <<m, j>> \in Occupied(slab') <=> <<m, j>> \in Occupied(slab) /\ ~ (m = k /\ j = i)
              /\ <<m, j>> \in Occupied(slab) /\ ~ (m = k /\ j = i) => slab'[m][j] = slab[m][j]
  <2>. DEFINE a == slab[m]
              b == slab'[m]
  <2>0. /\ <<m, j>> \in Occupied(slab) <=> m \in Kinds /\ j \in 1..Len(a) /\ a[j] # NoTask
        /\ <<m, j>> \in Occupied(slab') <=> m \in Kinds /\ j \in 1..Len(b) /\ b[j] # NoTask
    BY <1>13, <1>14
  <2>1. CASE m # k
    <3>1. m \in Kinds => a = b
      BY <1>6, <2>1
    <3>. HIDE DEF a, b
    <3>2. /\ <<m, j>> \in Occupied(slab') <=> <<m, j>> \in Occupied(slab)
          /\ <<m, j>> \in Occupied(slab) => b[j] = a[j]
      BY <2>0, <3>1
    <3>. QED
      BY <2>1, <3>2 DEF a, b
  <2>2. CASE m = k
    <3>1. a = q /\ b = p
      BY <1>4, <1>6, <2>2
    <3>. HIDE DEF a, b
    <3>2. /\ <<m, j>> \in Occupied(slab') <=> <<m, j>> \in Occupied(slab) /\ j # i
          /\ <<m, j>> \in Occupied(slab) /\ j # i => b[j] = a[j]
      BY <1>5, <2>0, <3>1
    <3>. QED
      BY <2>2, <3>2 DEF a, b
  <2>. QED
    BY <2>1, <2>2
<1>17. \A m, j : <<m, j>> = x <=> m = k /\ j = i
  BY <1>2
<1>18. \A y \in LiveKeys' : y \in LiveKeys /\ y # x
  BY <1>1, <1>12, <1>15, <1>16, <1>17
<1>19. \A y \in LiveKeys : y # x => y \in LiveKeys' /\ slab'[y[1]][y[2]] = slab[y[1]][y[2]]
  BY <1>1, <1>12, <1>15, <1>16, <1>17
<1>. QED
  BY <1>6, <1>9, <1>11, <1>18, <1>19 DEF Task

\* The owner that a completed child wakes, if it joins or drains it.
LEMMA AnnouncedIs ==
  ASSUME IInv, NEW t \in Tasks, NEW l \in LineOf(Notification), ToSet(l) \subseteq ToSet(local)
  PROVE  /\ Announced(t, cell) \in Cells /\ Announced(t, cell)[t] = cell[t]
         /\ \A u \in Tasks : /\ Announced(t, cell)[u].n = cell[u].n
                             /\ Announced(t, cell)[u].phase \in {cell[u].phase, "Selected"}
         /\ AnnouncedTo(t, l) \in LineOf(Notification)
         /\ \A m \in ToSet(AnnouncedTo(t, l)) :
              \/ m \in ToSet(l)
              \/ /\ m \in Notification /\ m.task # t /\ Announced(t, cell)[m.task].phase = "Selected"
                 /\ m \notin hub /\ m \notin deferred
                 /\ \E p \in parked : p.key = m.route /\ p.token = m.token /\ Task(p.key) = m.task
<1>1. Types /\ Lives /\ Placed /\ Waits /\ Notices
  BY DEF IInv
<1>2. cell \in Cells
  BY <1>1 DEF Types, Cells
<1>3. CASE Joining(t)
  <2>1. /\ OwnerOf[t] \in Tasks /\ OwnerOf[t] # t /\ cell[OwnerOf[t]].phase = "Active"
        /\ Announced(t, cell) = [cell EXCEPT ![OwnerOf[t]].phase = "Selected"]
        /\ AnnouncedTo(t, l) = Append(l, Notice(OwnerOf[t]))
    BY <1>3, KernelAssumption DEF Joining, Announced, AnnouncedTo, Tasks
  <2>2. PICK o \in Tasks : o = OwnerOf[t]
    BY <2>1
  <2>3. PICK m \in Notification :
          /\ m = Notice(o) /\ m.task = o
          /\ m \notin hub /\ m \notin deferred /\ m \notin ToSet(local)
          /\ \E p \in parked : p.key = m.route /\ p.token = m.token /\ Task(p.key) = m.task
    BY <1>1, <2>1, <2>2, WonNotice
  <2>4. AnnouncedTo(t, l) \in LineOf(Notification) /\ ToSet(AnnouncedTo(t, l)) = ToSet(l) \cup {m}
    <3>1. m \notin ToSet(l)
      BY <2>3
    <3>. QED
      BY <2>1, <2>2, <2>3, <3>1, JoinLine
  <2>5. Announced(t, cell) \in Cells
    BY <1>2, <2>1, OneCell
  <2>6. \A u \in Tasks : /\ Announced(t, cell)[u].n = cell[u].n
                         /\ Announced(t, cell)[u].phase = IF u = o THEN "Selected" ELSE cell[u].phase
                         /\ u # o => Announced(t, cell)[u] = cell[u]
    BY <1>2, <2>1, <2>2 DEF Cells
  <2>. QED
    BY <2>1, <2>2, <2>3, <2>4, <2>5, <2>6
<1>4. CASE ~Joining(t)
  BY <1>2, <1>4 DEF Announced, AnnouncedTo
<1>. QED
  BY <1>3, <1>4

\* Task t of key x leaves the carrier: its slot is freed, no queue and no notice
\* names it, and l, what is left of the carrier's own notices, and the ones to
\* those who wait for it follow.
Departs(x, t, l) ==
  /\ t = Task(x) /\ remove_in_flight(x)
  /\ in_flight \in {x, NoTask} /\ in_flight' = NoTask
  /\ ready' \in Runnable /\ ToSet(ready'.normal) = ToSet(ready.normal) \ {x}
  /\ ToSet(ready'.wakes) = ToSet(ready.wakes) \ {x}
  /\ parked' = parked \ ParkedAt(x) /\ timers' \subseteq parked'
  /\ hub' \subseteq hub /\ deferred' \subseteq deferred
  /\ ToSet(l) \subseteq ToSet(local) /\ local' = AnnouncedTo(t, l)
  /\ \A n \in hub' \cup deferred' \cup ToSet(l) : n.task # t
  /\ cell' \in Cells /\ cell'[t].n = cell[t].n /\ cell'[t].phase \notin {"Active", "Claim"}
  /\ \A u \in Tasks : u # t => cell'[u] = Announced(t, cell)[u]
  /\ place' = [place EXCEPT ![t] = "done"]
  /\ lease' \in [Kids -> {"none", "Ready", "Running", "Reclaimed"}]
  /\ scope' \in [Roots -> {"none", "open", "closed"}]
  /\ at' \in Phases /\ job' \in [keys : SUBSET KeySet, back : {"top", "requests", "retry", "halt"}]
  /\ job'.keys = job.keys \ {x} /\ Leases' /\ Phase' /\ Halting'
  /\ UNCHANGED <<starts, inbox, aborts, flagged, requests>>

\* A task leaves the carrier: its slot, its place in a queue, its wait and the
\* notices about it go with it.
LEMMA DepartKeeps ==
  ASSUME IInv, NEW x \in LiveKeys, NEW t, NEW l \in LineOf(Notification), Departs(x, t, l)
  PROVE  IInv'
<1>. USE DEF Departs
<1>1. /\ Types /\ SlabFits /\ Lives /\ Placed /\ Arrivals /\ Waits /\ Notices /\ Doomed
  BY DEF IInv
<1>2. /\ slab' \in Slab /\ vacant' \in [Kinds -> LineOf(Nat)] /\ SlabFits'
      /\ LiveKeys' = LiveKeys \ {x} /\ \A y \in LiveKeys : y # x => Task(y)' = Task(y)
  BY <1>1, SlotFreed
<1>3. /\ \A y \in LiveKeys : y \in KeySet /\ Task(y) \in Tasks /\ y # NoTask
      /\ t \in Tasks /\ place[t] = "live" /\ \A y \in LiveKeys : Task(y) = t => y = x
      /\ \A p \in parked : p.key \in LiveKeys
  BY <1>1, LiveFacts DEF Lives, Placed
<1>4. /\ Announced(t, cell) \in Cells /\ Announced(t, cell)[t] = cell[t]
      /\ \A u \in Tasks : /\ Announced(t, cell)[u].n = cell[u].n
                          /\ Announced(t, cell)[u].phase \in {cell[u].phase, "Selected"}
      /\ AnnouncedTo(t, l) \in LineOf(Notification)
      /\ \A m \in ToSet(AnnouncedTo(t, l)) :
           \/ m \in ToSet(l)
           \/ /\ m \in Notification /\ m.task # t /\ Announced(t, cell)[m.task].phase = "Selected"
              /\ m \notin hub /\ m \notin deferred
              /\ \E p \in parked : p.key = m.route /\ p.token = m.token /\ Task(p.key) = m.task
  BY <1>3, AnnouncedIs
<1>5. \A u \in Tasks : cell'[u].n = cell[u].n /\ cell'[u].phase \in {cell[u].phase, "Selected", "Idle"}
  BY <1>3, <1>4 DEF Cells
<1>6. Calmer
  BY <1>5 DEF Calmer
<1>7. \A u \in Tasks : place'[u] = IF u = t THEN "done" ELSE place[u]
  BY <1>1 DEF Types
<1>8. Types'
  <2>1. place' \in [Tasks -> {"new", "inbox", "starts", "live", "done"}]
    BY <1>1 DEF Types
  <2>2. parked' \subseteq Parking /\ hub' \subseteq Notification /\ deferred' \subseteq Notification
    BY <1>1 DEF Types
  <2>3. local' \in LineOf(Notification) /\ in_flight' \in KeySet \cup {NoTask}
    BY <1>4
  <2>. QED
    BY <1>1, <1>2, <2>1, <2>2, <2>3 DEF Types, Cells, Slab
<1>9. Lives'
  <2>1. \A y \in LiveKeys' : y \in LiveKeys /\ y # x /\ Task(y)' = Task(y) /\ Task(y) \in Tasks /\ Task(y) # t
    BY <1>2, <1>3
  <2>2. /\ \A y \in LiveKeys' : kind(Task(y)') = y[1] /\ place'[Task(y)'] = "live"
        /\ \A y, z \in LiveKeys' : Task(y)' = Task(z)' => y = z
    BY <1>1, <1>7, <2>1 DEF Lives
  <2>3. ASSUME NEW u \in Tasks, place'[u] = "live"
        PROVE  \E y \in LiveKeys' : Task(y)' = u
    <3>1. u # t /\ place[u] = "live"
      BY <1>7, <2>3
    <3>2. PICK y \in LiveKeys : Task(y) = u
      BY <1>1, <3>1 DEF Lives
    <3>. QED
      BY <1>2, <3>1, <3>2
  <2>. QED
    BY <2>2, <2>3 DEF Lives, kind
<1>10. Placed'
  <2>1. \A p \in parked : p \in parked' <=> p.key # x
    BY DEF ParkedAt
  <2>2. \A p \in parked' : p \in parked /\ p.key # x /\ p.key # NoTask
    BY <1>3, <2>1
  <2>3. NoTask \notin ToSet(ready.normal) /\ NoTask \notin ToSet(ready.wakes)
    BY <1>1, <1>3 DEF Placed
  <2>4. \A y : (\E p \in parked' : p.key = y) <=> y # x /\ \E p \in parked : p.key = y
    BY <2>1, <2>2
  <2>5. \A y : y \in LiveKeys' <=> \/ y \in ToSet(ready'.normal) \/ y \in ToSet(ready'.wakes)
                                   \/ \E p \in parked' : p.key = y
    BY <1>1, <1>2, <2>4 DEF Placed
  <2>6. /\ ToSet(ready'.normal) \cap ToSet(ready'.wakes) = {}
        /\ \A p \in parked' : p.key \notin ToSet(ready'.normal) /\ p.key \notin ToSet(ready'.wakes)
                              /\ p.key # in_flight'
        /\ \A p, q \in parked' : p.key = q.key => p = q
        /\ in_flight' \notin ToSet(ready'.normal) /\ in_flight' \notin ToSet(ready'.wakes)
    BY <1>1, <2>2, <2>3 DEF Placed
  <2>. QED
    BY <2>5, <2>6 DEF Placed
<1>11. Arrivals'
  <2>1. \A u \in Tasks : /\ place'[u] \in {"inbox", "starts"} <=> place[u] \in {"inbox", "starts"}
                         /\ place[u] \in {"inbox", "starts"} => place'[u] = place[u]
    BY <1>3, <1>7
  <2>. QED
    BY <1>1, <2>1 DEF Arrivals, Tasks
<1>12. \A p \in parked : p.key # x => p \in parked' /\ Task(p.key)' = Task(p.key) /\ Task(p.key) \in Tasks
  BY <1>2, <1>3 DEF ParkedAt
<1>13. Waits'
  <2>1. \A p \in parked' : p \in parked /\ p.key # x
    BY DEF ParkedAt
  <2>2. \A p \in parked' : p.token = <<Task(p.key)', cell'[Task(p.key)'].n>>
    BY <1>1, <1>5, <1>12, <2>1 DEF Waits, token
  <2>3. ASSUME NEW u \in Tasks, cell'[u].phase \in {"Active", "Claim"}
        PROVE  \E p \in parked' : Task(p.key)' = u
    <3>1. u # t /\ cell[u].phase \in {"Active", "Claim"}
      BY <1>3, <1>5, <2>3
    <3>2. PICK p \in parked : Task(p.key) = u
      BY <1>1, <3>1 DEF Waits
    <3>. QED
      BY <1>12, <3>1, <3>2
  <2>. QED
    BY <2>2, <2>3 DEF Waits, token
<1>14. Notices'
  <2>1. ASSUME NEW m \in Notification, m.task # t,
               \E p \in parked : p.key = m.route /\ p.token = m.token /\ Task(p.key) = m.task,
               cell'[m.task].phase # "Active"
        PROVE  Heard(m)'
    <3>1. PICK p \in parked : p.key = m.route /\ p.token = m.token /\ Task(p.key) = m.task
      BY <2>1
    <3>2. p \in parked' /\ Task(p.key)' = m.task
      BY <1>12, <2>1, <3>1
    <3>. QED
      BY <2>1, <3>1, <3>2 DEF Heard
  <2>2. \A m \in Notification : m.task # t /\ Heard(m) => Heard(m)'
    <3>1. \A m \in Notification : m.task \in Tasks
      BY DEF Notification
    <3>. QED
      BY <1>6, <2>1, <3>1 DEF Heard, Calmer
  <2>3. hub \subseteq Notification /\ deferred \subseteq Notification /\ ToSet(local) \subseteq Notification
    BY <1>1, InLine DEF Types
  <2>4. \A m \in ToSet(local') : Heard(m)' /\ m \notin hub' /\ m \notin deferred'
    <3>1. \A m \in ToSet(l) : Heard(m)' /\ m \notin hub' /\ m \notin deferred'
      BY <1>1, <2>2, <2>3 DEF Notices
    <3>2. ASSUME NEW m \in Notification, m.task # t, Announced(t, cell)[m.task].phase = "Selected",
                 \E p \in parked : p.key = m.route /\ p.token = m.token /\ Task(p.key) = m.task
          PROVE  Heard(m)'
      <4>1. m.task \in Tasks
        BY DEF Notification
      <4>2. cell'[m.task].phase = "Selected"
        BY <3>2, <4>1
      <4>. QED
        BY <2>1, <3>2, <4>2
    <3>. QED
      BY <1>4, <3>1, <3>2
  <2>5. \A m \in hub' : Heard(m)' /\ m \notin deferred'
    BY <1>1, <2>2, <2>3 DEF Notices
  <2>6. \A m \in deferred' : Heard(m)'
    BY <1>1, <2>2, <2>3 DEF Notices
  <2>. QED
    BY <2>4, <2>5, <2>6 DEF Notices
<1>15. Doomed'
  <2>1. \A y \in job'.keys : y \in job.keys /\ y \in LiveKeys' /\ Task(y)' = Task(y) /\ Task(y) \in Tasks
    BY <1>1, <1>2, <1>3 DEF Doomed
  <2>2. \A y \in job'.keys : cell'[Task(y)'].phase \notin {"Active", "Claim"}
    BY <1>1, <1>5, <2>1 DEF Doomed
  <2>3. \A y \in job'.keys, z \in LiveKeys' : Task(z)' \in Kids /\ OwnerOf[Task(z)'] = Task(y)' => z \in job'.keys
    <3>1. \A z \in LiveKeys' : z \in LiveKeys /\ z # x /\ Task(z)' = Task(z)
      BY <1>2
    <3>. QED
      BY <1>1, <2>1, <3>1 DEF Doomed
  <2>. QED
    BY <2>1, <2>2, <2>3 DEF Doomed
<1>. QED
  BY <1>2, <1>8, <1>9, <1>10, <1>11, <1>13, <1>14, <1>15 DEF IInv

\* A task returns: a root after its local scope, a child to an owner that may wait for it.
LEMMA CompleteKeeps ==
  ASSUME IInv, complete_task
  PROVE  IInv'
<1>1. /\ Types /\ Lives /\ Placed /\ Waits /\ Notices /\ Phase /\ Leases /\ Halting
  BY DEF IInv
<1>2. /\ at = "run" /\ at' = "top" /\ (Mounted \in Roots => scope[Mounted] # "open")
      /\ remove_in_flight(in_flight) /\ in_flight' = NoTask
      /\ lease' = (IF Mounted \in Kids THEN [lease EXCEPT ![Mounted] = "Reclaimed"] ELSE lease)
      /\ place' = [place EXCEPT ![Mounted] = "done"]
      /\ cell' = Announced(Mounted, cell) /\ local' = AnnouncedTo(Mounted, local)
      /\ UNCHANGED <<ready, parked, timers, deferred, aborts, starts, inbox, hub, requests, flagged,
                     scope, todo, job>>
  BY DEF complete_task, queues, shared
<1>3. PICK t : t = Mounted
  OBVIOUS
<1>4. /\ in_flight \in LiveKeys /\ in_flight # NoTask /\ t \in Tasks /\ t = Task(in_flight)
      /\ in_flight \notin ToSet(ready.normal) /\ in_flight \notin ToSet(ready.wakes)
      /\ job = NoJob /\ job.keys = {} /\ cell[t].phase \notin {"Active", "Claim"}
      /\ \A p \in parked : p.key # in_flight /\ Task(p.key) # t
  BY <1>2, <1>3, MountedIs
<1>5. PICK x \in LiveKeys : x = in_flight
  BY <1>4
<1>6. local \in LineOf(Notification) /\ parked' = parked \ ParkedAt(x) /\ timers' \subseteq parked'
  BY <1>1, <1>2, <1>4, <1>5 DEF ParkedAt, Types
<1>7. \A n \in hub \cup deferred \cup ToSet(local) : n.task # t
  <2>1. \A n : Heard(n) => n.task # t
    BY <1>4 DEF Heard
  <2>. QED
    BY <1>1, <2>1 DEF Notices
<1>8. /\ Announced(t, cell) \in Cells /\ Announced(t, cell)[t] = cell[t]
      /\ \A u \in Tasks : Announced(t, cell)[u].phase \in {cell[u].phase, "Selected"}
  BY <1>4, <1>6, AnnouncedIs
<1>9. /\ cell' \in Cells /\ cell'[t].n = cell[t].n /\ cell'[t].phase \notin {"Active", "Claim"}
      /\ \A u \in Tasks : u # t => cell'[u] = Announced(t, cell)[u]
      /\ \A u \in Tasks : cell'[u].phase \in {cell[u].phase, "Selected"}
  BY <1>2, <1>3, <1>4, <1>8
<1>10. /\ lease' \in [Kids -> {"none", "Ready", "Running", "Reclaimed"}]
       /\ \A k \in Kids : lease'[k] = IF k = t THEN "Reclaimed" ELSE lease[k]
       /\ \A u \in Tasks : place'[u] = IF u = t THEN "done" ELSE place[u]
       /\ ready \in Runnable /\ scope \in [Roots -> {"none", "open", "closed"}]
  BY <1>1, <1>2, <1>3 DEF Types
<1>11. Leases'
  <2>1. \A k \in Kids : OwnerOf[k] \in Roots /\ k \in Tasks
    BY KernelAssumption DEF Tasks
  <2>2. \A k \in Kids : lease'[k] \in {"Ready", "Running"} => scope[OwnerOf[k]] = "open"
    BY <1>1, <1>10 DEF Leases
  <2>3. \A k \in Kids : place'[k] \in {"starts", "live"} => lease'[k] # "none"
    BY <1>1, <1>10, <2>1 DEF Leases
  <2>4. \A k \in Kids : place'[k] = "live" /\ lease'[k] = "Reclaimed" => cell'[k].phase \notin {"Active", "Claim"}
    BY <1>1, <1>9, <1>10, <2>1 DEF Leases
  <2>5. \A r \in Roots : scope[r] = "open" => place'[r] = "live"
    BY <1>1, <1>2, <1>3, <1>10 DEF Leases, Tasks
  <2>. QED
    BY <1>2, <2>2, <2>3, <2>4, <2>5 DEF Leases
<1>12. Phase' /\ Halting'
  BY <1>1, <1>2, <1>4 DEF Phase, Halting, NoJob
<1>13. /\ job' \in [keys : SUBSET KeySet, back : {"top", "requests", "retry", "halt"}]
       /\ job'.keys = job.keys \ {x} /\ at' \in Phases
  BY <1>1, <1>2, <1>4 DEF Types, Phases
<1>14. /\ remove_in_flight(x) /\ t = Task(x) /\ in_flight \in {x, NoTask}
       /\ ready' \in Runnable /\ ToSet(ready'.normal) = ToSet(ready.normal) \ {x}
       /\ ToSet(ready'.wakes) = ToSet(ready.wakes) \ {x}
  BY <1>2, <1>4, <1>5, <1>10
<1>15. /\ hub' \subseteq hub /\ deferred' \subseteq deferred /\ local' = AnnouncedTo(t, local)
       /\ \A n \in hub' \cup deferred' \cup ToSet(local) : n.task # t
       /\ place' = [place EXCEPT ![t] = "done"]
       /\ scope' \in [Roots -> {"none", "open", "closed"}]
  BY <1>2, <1>3, <1>7, <1>10
<1>16. /\ UNCHANGED <<starts, inbox, aborts, flagged, requests>>
       /\ in_flight' = NoTask /\ local \in LineOf(Notification) /\ ToSet(local) \subseteq ToSet(local)
  BY <1>2, <1>6
<1>17. /\ remove_in_flight(x) /\ t = Task(x) /\ in_flight \in {x, NoTask} /\ in_flight' = NoTask
       /\ ready' \in Runnable /\ ToSet(ready'.normal) = ToSet(ready.normal) \ {x}
       /\ ToSet(ready'.wakes) = ToSet(ready.wakes) \ {x}
       /\ parked' = parked \ ParkedAt(x) /\ timers' \subseteq parked'
       /\ hub' \subseteq hub /\ deferred' \subseteq deferred
  BY <1>6, <1>14, <1>15, <1>16
<1>18. /\ ToSet(local) \subseteq ToSet(local) /\ local' = AnnouncedTo(t, local)
       /\ \A n \in hub' \cup deferred' \cup ToSet(local) : n.task # t
  BY <1>15
<1>19. /\ cell' \in Cells /\ cell'[t].n = cell[t].n /\ cell'[t].phase \notin {"Active", "Claim"}
       /\ \A u \in Tasks : u # t => cell'[u] = Announced(t, cell)[u]
  BY <1>9
<1>20. /\ place' = [place EXCEPT ![t] = "done"]
       /\ lease' \in [Kids -> {"none", "Ready", "Running", "Reclaimed"}]
       /\ scope' \in [Roots -> {"none", "open", "closed"}]
       /\ at' \in Phases /\ job' \in [keys : SUBSET KeySet, back : {"top", "requests", "retry", "halt"}]
       /\ job'.keys = job.keys \ {x} /\ Leases' /\ Phase' /\ Halting'
       /\ UNCHANGED <<starts, inbox, aborts, flagged, requests>>
  BY <1>10, <1>11, <1>12, <1>13, <1>15, <1>16
<1>21. Departs(x, t, local)
  BY <1>17, <1>18, <1>19, <1>20 DEF Departs
<1>. QED
  BY <1>6, <1>21, DepartKeeps

\* What stands first in one sequence stands first in the two together.
LEMMA HeadFirst ==
  ASSUME NEW T, NEW a \in Seq(T), NEW b \in Seq(T), Len(a) >= 1
  PROVE  (a \o b)[1] = a[1] /\ Len(a \o b) >= 1
<1>1. Len(a) \in Nat /\ Len(b) \in Nat
  BY LenProperties
<1>2. Len(a \o b) = Len(a) + Len(b) /\ \A i \in 1..(Len(a) + Len(b)) : (a \o b)[i] = IF i <= Len(a) THEN a[i] ELSE b[i - Len(a)]
  BY ConcatProperties
<1>. QED
  BY <1>1, <1>2

\* The next task of the cleanup is one of those to discard, the one in flight first.
LEMMA VictimIs ==
  ASSUME Types, Placed, Phase, Doomed, at = "discard", job.keys # {}
  PROVE  Victim \in job.keys /\ in_flight \in {Victim, NoTask}
<1>. DEFINE T == KeySet \cup {NoTask}
            a == <<in_flight>>
            b == a \o ready.normal
            c == b \o ready.wakes
            d == c \o KeySeq("owned")
            order == d \o KeySeq("borrowed")
            I == {i \in DOMAIN order : order[i] \in job.keys}
<1>1. Victim = order[Min(I)]
  BY DEF Victim
<1>2. ready.normal \in Seq(KeySet) /\ ready.wakes \in Seq(KeySet) /\ in_flight \in T
  BY InLine DEF Types, Runnable
<1>3. /\ \A k \in Kinds : KeySeq(k) \in Seq(KeySet)
      /\ \A k \in Kinds : \A i \in 1..Len(slab[k]) : <<k, i>> \in ToSet(KeySeq(k))
  <2>1. \A k \in Kinds : Len(slab[k]) \in Nat /\ DOMAIN slab[k] = 1..Len(slab[k])
    BY DEF Types
  <2>2. ASSUME NEW k \in Kinds
        PROVE  /\ KeySeq(k) \in Seq(KeySet)
               /\ \A i \in 1..Len(slab[k]) : <<k, i>> \in ToSet(KeySeq(k))
    <3>1. PICK n \in Nat : n = Len(slab[k])
      BY <2>1
    <3>2. KeySeq(k) = [i \in 1..n |-> <<k, i>>]
      BY <2>1, <3>1 DEF KeySeq
    <3>3. KeySeq(k) \in Seq(KeySet)
      <4>1. \A i \in 1..n : <<k, i>> \in KeySet
        BY DEF KeySet
      <4>. QED
        BY <3>2, <4>1
    <3>4. DOMAIN KeySeq(k) = 1..n /\ \A i \in 1..n : KeySeq(k)[i] = <<k, i>>
      BY <3>2
    <3>5. \A i \in 1..n : <<k, i>> \in ToSet(KeySeq(k))
      <4>1. ToSet(KeySeq(k)) = {KeySeq(k)[i] : i \in 1..n}
        BY <3>4 DEF ToSet
      <4>. QED
        BY <3>4, <4>1
    <3>. QED
      BY <3>1, <3>3, <3>5
  <2>. QED
    BY <2>2
<1>4. /\ ready.normal \in Seq(T) /\ ready.wakes \in Seq(T)
      /\ KeySeq("owned") \in Seq(T) /\ KeySeq("borrowed") \in Seq(T)
  <2>1. \A s \in Seq(KeySet) : s \in Seq(T)
    OBVIOUS
  <2>2. "owned" \in Kinds /\ "borrowed" \in Kinds
    BY DEF Kinds
  <2>. QED
    BY <1>2, <1>3, <2>1, <2>2
<1>5. a \in Seq(T) /\ Len(a) = 1 /\ a[1] = in_flight
  <2>. HIDE DEF T
  <2>. QED
    BY <1>2
<1>. HIDE DEF T, a
<1>6. b \in Seq(T) /\ b[1] = in_flight /\ Len(b) >= 1
  <2>1. a \o ready.normal \in Seq(T)
    BY <1>4, <1>5, ConcatMembers
  <2>2. Len(a) >= 1
    BY <1>5
  <2>3. (a \o ready.normal)[1] = a[1] /\ Len(a \o ready.normal) >= 1
    BY <1>4, <1>5, <2>2, HeadFirst
  <2>. QED
    BY <1>5, <2>1, <2>3
<1>. HIDE DEF b
<1>7. c \in Seq(T) /\ c[1] = in_flight /\ Len(c) >= 1
  BY <1>4, <1>6, ConcatMembers, HeadFirst
<1>. HIDE DEF c
<1>8. /\ d \in Seq(T) /\ d[1] = in_flight /\ Len(d) >= 1
      /\ ToSet(d) = ToSet(c) \cup ToSet(KeySeq("owned"))
  BY <1>4, <1>7, ConcatMembers, HeadFirst
<1>. HIDE DEF d
<1>9. /\ order \in Seq(T) /\ order[1] = in_flight /\ Len(order) >= 1
      /\ ToSet(order) = ToSet(d) \cup ToSet(KeySeq("borrowed"))
  BY <1>4, <1>8, ConcatMembers, HeadFirst
<1>. HIDE DEF order
<1>10. /\ DOMAIN order = 1..Len(order) /\ Len(order) \in Nat
       /\ \A x \in ToSet(order) : \E i \in DOMAIN order : order[i] = x
  BY <1>9, LenProperties DEF ToSet
<1>11. \A x \in LiveKeys : x \in ToSet(order)
  <2>1. ASSUME NEW x \in LiveKeys
        PROVE  x \in ToSet(order)
    <3>1. x = <<x[1], x[2]>> /\ x[1] \in Kinds /\ x[2] \in 1..Len(slab[x[1]])
      BY LiveFacts, OccupiedSlots
    <3>2. x \in ToSet(KeySeq(x[1])) /\ (x[1] = "owned" \/ x[1] = "borrowed")
      BY <1>3, <3>1 DEF Kinds
    <3>. QED
      BY <1>8, <1>9, <3>2
  <2>. QED
    BY <2>1
<1>12. I \in SUBSET Nat /\ I # {}
  <2>1. PICK x \in job.keys : x \in ToSet(order)
    BY <1>11 DEF Doomed
  <2>2. PICK i \in DOMAIN order : order[i] = x
    BY <1>10, <2>1
  <2>3. i \in I
    BY <2>2
  <2>. QED
    BY <1>10, <2>3
<1>13. Min(I) \in I /\ \A i \in I : Min(I) <= i
  <2>. HIDE DEF I
  <2>. QED
    BY <1>12, MinMember
<1>14. Victim \in job.keys
  BY <1>1, <1>13
<1>15. in_flight # NoTask => Min(I) = 1
  <2>1. SUFFICES ASSUME in_flight # NoTask PROVE Min(I) = 1
    OBVIOUS
  <2>2. in_flight \in job.keys
    BY <2>1 DEF Phase
  <2>3. 1 \in I
    BY <1>9, <1>10, <2>2
  <2>4. Min(I) \in 1..Len(order)
    BY <1>10, <1>13
  <2>5. Min(I) <= 1
    BY <1>13, <2>3
  <2>. HIDE DEF I
  <2>. QED
    BY <1>10, <2>4, <2>5
<1>. QED
  BY <1>1, <1>9, <1>14, <1>15

\* A doomed task is discarded: a child wakes its owner, a root revokes the
\* stacks of its children, which are doomed with it.
LEMMA DiscardKeeps ==
  ASSUME IInv, discard
  PROVE  IInv'
<1>1. /\ Types /\ SlabFits /\ Lives /\ Placed /\ Waits /\ Notices
      /\ Phase /\ Doomed /\ Leases /\ Halting
  BY DEF IInv
<1>2. /\ at = "discard" /\ job.keys # {}
      /\ UNCHANGED <<aborts, starts, inbox, requests, flagged, at, todo>>
  BY DEF discard
<1>3. PICK x \in job.keys : x = Victim /\ in_flight \in {x, NoTask}
  BY <1>1, <1>2, VictimIs
<1>4. x \in LiveKeys /\ x \in KeySet /\ Task(x) \in Tasks
  BY <1>1, LiveFacts DEF Doomed
<1>5. PICK t \in Tasks : t = Task(x)
  BY <1>4
<1>6. PICK l : l = unregister_wake(local, token(t))
  OBVIOUS
<1>7. /\ job' = [job EXCEPT !.keys = @ \ {x}] /\ in_flight' = NoTask
      /\ ready' = remove(ready, x) /\ parked' = parked \ ParkedAt(x) /\ timers' = cancel(token(t))
      /\ deferred' = {n \in deferred : n.token # token(t)} /\ hub' = {n \in hub : n.token # token(t)}
      /\ local' = AnnouncedTo(t, l) /\ cell' = [Announced(t, cell) EXCEPT ![t] = Idle(@.n)]
      /\ lease' = (IF t \in Kids THEN [lease EXCEPT ![t] = "Reclaimed"] ELSE Revoked(t))
      /\ place' = [place EXCEPT ![t] = "done"] /\ remove_in_flight(x)
  BY <1>3, <1>5, <1>6 DEF discard
<1>8. IF t \in Roots /\ scope[t] = "open" THEN scope' = [scope EXCEPT ![t] = "closed"] ELSE scope' = scope
  BY <1>3, <1>5 DEF discard
<1>9. l \in LineOf(Notification) /\ \A n \in ToSet(l) : n \in ToSet(local) /\ n.token # token(t)
  <2>1. local \in LineOf(Notification)
    BY <1>1 DEF Types
  <2>2. l = retain(local, {n \in Range(local) : n.token # token(t)})
    BY <1>6 DEF unregister_wake
  <2>3. l \in LineOf(Notification) /\ ToSet(l) = ToSet(local) \cap {n \in Range(local) : n.token # token(t)}
    BY <2>1, <2>2, RetainFacts
  <2>. QED
    BY <2>3
<1>10. \A p \in parked : p.key = x => p.token = token(t)
  BY <1>1, <1>5 DEF Waits
<1>11. \A n : Heard(n) /\ n.token # token(t) => n.task # t
  BY <1>1, <1>5 DEF Waits, Heard
<1>12. /\ hub' \subseteq hub /\ deferred' \subseteq deferred /\ ToSet(l) \subseteq ToSet(local)
       /\ \A n \in hub' \cup deferred' \cup ToSet(l) : n.task # t
  BY <1>1, <1>7, <1>9, <1>11 DEF Notices
<1>13. timers' \subseteq parked'
  BY <1>1, <1>7, <1>10 DEF Types, ParkedAt, cancel
<1>14. /\ ready' \in Runnable /\ ToSet(ready'.normal) = ToSet(ready.normal) \ {x}
       /\ ToSet(ready'.wakes) = ToSet(ready.wakes) \ {x}
  BY <1>1, <1>4, <1>7, LaneFacts DEF Types, Placed
<1>15. /\ Announced(t, cell) \in Cells /\ Announced(t, cell)[t] = cell[t]
       /\ \A u \in Tasks : Announced(t, cell)[u].phase \in {cell[u].phase, "Selected"}
  BY <1>9, <1>12, AnnouncedIs
<1>16. /\ cell' \in Cells /\ cell'[t] = Idle(cell[t].n)
       /\ \A u \in Tasks : u # t => cell'[u] = Announced(t, cell)[u]
  <2>. DEFINE c == Announced(t, cell)
  <2>1. c \in Cells /\ c[t] = cell[t] /\ cell' = [c EXCEPT ![t] = Idle(@.n)]
    BY <1>7, <1>15
  <2>. HIDE DEF c
  <2>2. /\ cell' \in Cells /\ cell'[t] = Idle(cell[t].n)
        /\ \A u \in Tasks : u # t => cell'[u] = c[u]
    BY <2>1 DEF Cells, Idle
  <2>. QED
    BY <2>2 DEF c
<1>17. /\ cell'[t].n = cell[t].n /\ cell'[t].phase \notin {"Active", "Claim"}
       /\ \A u \in Tasks : cell'[u].phase \in {cell[u].phase, "Selected", "Idle"}
  BY <1>15, <1>16 DEF Idle
<1>18. /\ job' \in [keys : SUBSET KeySet, back : {"top", "requests", "retry", "halt"}]
       /\ job'.keys = job.keys \ {x} /\ job'.back = job.back
  BY <1>1, <1>7 DEF Types
<1>19. /\ lease' \in [Kids -> {"none", "Ready", "Running", "Reclaimed"}]
       /\ \A k \in Kids : lease'[k] = IF k = t \/ (t \notin Kids /\ OwnerOf[k] = t /\ lease[k] # "none")
                                      THEN "Reclaimed" ELSE lease[k]
  BY <1>1, <1>7 DEF Types, Revoked
<1>20. /\ scope' \in [Roots -> {"none", "open", "closed"}]
       /\ \A r \in Roots : scope'[r] = IF r = t /\ scope[r] = "open" THEN "closed" ELSE scope[r]
  BY <1>1, <1>8 DEF Types
<1>21. \A u \in Tasks : place'[u] = IF u = t THEN "done" ELSE place[u]
  BY <1>1, <1>7 DEF Types
<1>22. Leases'
  <2>1. /\ \A k \in Kids : OwnerOf[k] \in Roots /\ k \in Tasks /\ k \notin Roots
        /\ \A r \in Roots : r \notin Kids /\ r \in Tasks
    BY KernelAssumption DEF Tasks
  <2>2. \A k \in Kids : lease'[k] \in {"Ready", "Running"} => scope'[OwnerOf[k]] = "open"
    BY <1>1, <1>19, <1>20, <2>1 DEF Leases
  <2>3. \A k \in Kids : place'[k] \in {"starts", "live"} => lease'[k] # "none"
    BY <1>1, <1>19, <1>21, <2>1 DEF Leases
  <2>4. ASSUME NEW k \in Kids, place'[k] = "live", lease'[k] = "Reclaimed"
        PROVE  cell'[k].phase \notin {"Active", "Claim"}
    <3>1. k # t /\ place[k] = "live" /\ k \in Tasks
      BY <1>21, <2>1, <2>4
    <3>2. CASE OwnerOf[k] = t
      <4>1. PICK y \in LiveKeys : Task(y) = k
        BY <1>1, <3>1 DEF Lives
      <4>2. y \in job.keys
        BY <1>1, <1>5, <3>2, <4>1 DEF Doomed
      <4>3. cell[k].phase \notin {"Active", "Claim"}
        BY <1>1, <4>1, <4>2 DEF Doomed
      <4>. QED
        BY <1>17, <3>1, <4>3
    <3>3. CASE OwnerOf[k] # t
      <4>1. cell[k].phase \notin {"Active", "Claim"}
        BY <1>1, <1>19, <2>4, <3>1, <3>3 DEF Leases
      <4>. QED
        BY <1>17, <3>1, <4>1
    <3>. QED
      BY <3>2, <3>3
  <2>5. \A r \in Roots : scope'[r] = "open" => place'[r] = "live"
    BY <1>1, <1>20, <1>21, <2>1 DEF Leases
  <2>. QED
    BY <1>2, <2>2, <2>3, <2>4, <2>5 DEF Leases
<1>23. Phase'
  BY <1>1, <1>2, <1>7, <1>18 DEF Phase
<1>24. Halting'
  <2>1. LiveKeys' = LiveKeys \ {x}
    BY <1>1, <1>4, <1>7, SlotFreed
  <2>. QED
    BY <1>1, <1>2, <1>18, <2>1 DEF Halting
<1>25. at' \in Phases
  BY <1>1, <1>2 DEF Types
<1>26. /\ remove_in_flight(x) /\ t = Task(x) /\ in_flight \in {x, NoTask} /\ in_flight' = NoTask
       /\ parked' = parked \ ParkedAt(x) /\ local' = AnnouncedTo(t, l)
       /\ place' = [place EXCEPT ![t] = "done"]
       /\ UNCHANGED <<starts, inbox, aborts, flagged, requests>>
  BY <1>2, <1>3, <1>5, <1>7
<1>27. /\ remove_in_flight(x) /\ t = Task(x) /\ in_flight \in {x, NoTask} /\ in_flight' = NoTask
       /\ ready' \in Runnable /\ ToSet(ready'.normal) = ToSet(ready.normal) \ {x}
       /\ ToSet(ready'.wakes) = ToSet(ready.wakes) \ {x}
       /\ parked' = parked \ ParkedAt(x) /\ timers' \subseteq parked'
       /\ hub' \subseteq hub /\ deferred' \subseteq deferred
  BY <1>12, <1>13, <1>14, <1>26
<1>28. /\ ToSet(l) \subseteq ToSet(local) /\ local' = AnnouncedTo(t, l)
       /\ \A n \in hub' \cup deferred' \cup ToSet(l) : n.task # t
  BY <1>12, <1>26
<1>29. /\ cell' \in Cells /\ cell'[t].n = cell[t].n /\ cell'[t].phase \notin {"Active", "Claim"}
       /\ \A u \in Tasks : u # t => cell'[u] = Announced(t, cell)[u]
  BY <1>16, <1>17
<1>30. /\ place' = [place EXCEPT ![t] = "done"]
       /\ lease' \in [Kids -> {"none", "Ready", "Running", "Reclaimed"}]
       /\ scope' \in [Roots -> {"none", "open", "closed"}]
       /\ at' \in Phases /\ job' \in [keys : SUBSET KeySet, back : {"top", "requests", "retry", "halt"}]
       /\ job'.keys = job.keys \ {x} /\ Leases' /\ Phase' /\ Halting'
       /\ UNCHANGED <<starts, inbox, aborts, flagged, requests>>
  BY <1>18, <1>19, <1>20, <1>22, <1>23, <1>24, <1>25, <1>26
<1>31. Departs(x, t, l)
  BY <1>27, <1>28, <1>29, <1>30 DEF Departs
<1>. QED
  BY <1>4, <1>9, <1>31, DepartKeeps

-----------------------------------------------------------------------------
(* Starts and aborts *)

\* A line of some people is a line of more.
LEMMA LineWider ==
  ASSUME NEW T, NEW U, T \subseteq U, NEW s \in LineOf(T)
  PROVE  s \in LineOf(U)
<1>1. s \in Seq(T) /\ \A i, j \in 1..Len(s) : s[i] = s[j] => i = j
  BY InLine
<1>2. s \in Seq(U)
  BY <1>1
<1>. QED
  BY <1>1, <1>2, IsLine

\* The slabs after some starts.
LEMMA SlabGrows ==
  ASSUME Types, NEW r, NEW S, Grown(Store, r, S), slab' = r.slab, vacant' = r.vacant
  PROVE  /\ slab' \in Slab /\ vacant' \in [Kinds -> LineOf(Nat)] /\ SlabFits' /\ r.ready \in Runnable
         /\ LiveKeys' = Occupied(slab')
         /\ \A x \in LiveKeys : x \in LiveKeys' /\ Task(x)' = Task(x)
         /\ \A x \in LiveKeys' : x \in KeySet /\ Task(x)' \in Tasks
         /\ \A x \in LiveKeys' \ LiveKeys : Task(x)' \in S /\ kind(Task(x)') = x[1]
         /\ \A t \in S : \E x \in LiveKeys' \ LiveKeys : Task(x)' = t
         /\ \A x, y \in LiveKeys' \ LiveKeys : Task(x)' = Task(y)' => x = y
         /\ r.ready.wakes = ready.wakes
         /\ ToSet(r.ready.normal) = ToSet(ready.normal) \cup (LiveKeys' \ LiveKeys)
<1>1. /\ r.slab \in Slab /\ r.vacant \in [Kinds -> LineOf(Nat)] /\ r.ready \in Runnable
      /\ Vacancies(r.slab, r.vacant)
  BY DEF Grown, Sound
<1>2. LiveKeys = Occupied(slab) /\ LiveKeys' = Occupied(r.slab)
  <2>1. Occupied(slab') = LiveKeys'
    BY <1>1 DEF LiveKeys, Occupied, Task, Slab
  <2>. QED
    BY <2>1, LiveFacts
<1>3. Store.slab = slab /\ Store.ready = ready
  BY DEF Store
<1>4. Fresh(Store, r) = LiveKeys' \ LiveKeys
  BY <1>2, <1>3 DEF Fresh
<1>5. \A x : Task(x) = slab[x[1]][x[2]] /\ Task(x)' = r.slab[x[1]][x[2]]
  BY DEF Task
<1>6. /\ \A x \in Occupied(slab) : x \in Occupied(r.slab) /\ r.slab[x[1]][x[2]] = slab[x[1]][x[2]]
      /\ r.ready.wakes = ready.wakes
      /\ ToSet(r.ready.normal) = ToSet(ready.normal) \cup (LiveKeys' \ LiveKeys)
      /\ \A x \in LiveKeys' \ LiveKeys : r.slab[x[1]][x[2]] \in S /\ kind(r.slab[x[1]][x[2]]) = x[1]
      /\ \A t \in S : \E x \in LiveKeys' \ LiveKeys : r.slab[x[1]][x[2]] = t
      /\ \A x, y \in LiveKeys' \ LiveKeys : r.slab[x[1]][x[2]] = r.slab[y[1]][y[2]] => x = y
  BY <1>3, <1>4 DEF Grown
<1>7. SlabFits'
  BY <1>1 DEF SlabFits
<1>8. \A x \in Occupied(r.slab) : x \in KeySet /\ r.slab[x[1]][x[2]] \in Tasks
  BY <1>1, OccupiedSlots
<1>. QED
  BY <1>1, <1>2, <1>5, <1>6, <1>7, <1>8

\* Starts become live: nothing that was live, parked or queued is disturbed.
LEMMA ArriveKeeps ==
  ASSUME IInv, NEW r, NEW S \in SUBSET Tasks, Grown(Store, r, S), slab' = r.slab, vacant' = r.vacant,
         \A t \in S : place[t] \in {"starts", "inbox"},
         place' \in [Tasks -> {"new", "inbox", "starts", "live", "done"}],
         \A t \in Tasks : place'[t] = "live" <=> place[t] = "live" \/ t \in S,
         \A k \in Kids : place'[k] # "starts",
         \/ ready' = r.ready /\ UNCHANGED in_flight
         \/ /\ ready' = IF in_flight = NoTask THEN r.ready ELSE push_front(r.ready, in_flight)
            /\ in_flight' = NoTask,
         cell' \in Cells, Calmer, hub' \subseteq hub,
         at' \in Phases, at' # "run",
         job' \in [keys : SUBSET KeySet, back : {"top", "requests", "retry", "halt"}],
         aborts' \subseteq Scopes \cup {All}, starts' \in LineOf(Kids), inbox' \in LineOf(Roots),
         requests' \in [Scopes \cup {All} -> {"none", "posted", "taken", "never"}],
         Arrivals', Phase', Doomed', Halting',
         UNCHANGED <<parked, timers, deferred, local, flagged, lease, scope>>
  PROVE  IInv'
<1>1. /\ Types /\ Lives /\ Placed /\ Arrivals /\ Waits /\ Notices /\ Leases
  BY DEF IInv
<1>2. /\ slab' \in Slab /\ vacant' \in [Kinds -> LineOf(Nat)] /\ SlabFits' /\ r.ready \in Runnable
      /\ \A x \in LiveKeys : x \in LiveKeys' /\ Task(x)' = Task(x)
      /\ \A x \in LiveKeys' : x \in KeySet /\ Task(x)' \in Tasks
      /\ \A x \in LiveKeys' \ LiveKeys : Task(x)' \in S /\ kind(Task(x)') = x[1]
      /\ \A t \in S : \E x \in LiveKeys' \ LiveKeys : Task(x)' = t
      /\ \A x, y \in LiveKeys' \ LiveKeys : Task(x)' = Task(y)' => x = y
      /\ r.ready.wakes = ready.wakes
      /\ ToSet(r.ready.normal) = ToSet(ready.normal) \cup (LiveKeys' \ LiveKeys)
  BY <1>1, SlabGrows
<1>3. /\ in_flight # NoTask => in_flight \in LiveKeys /\ in_flight \in KeySet
      /\ \A p \in parked : p.key \in LiveKeys /\ Task(p.key) \in Tasks /\ Task(p.key)' = Task(p.key)
      /\ NoTask \notin LiveKeys /\ NoTask \notin LiveKeys'
  <2>1. NoTask \notin KeySet
    BY KernelAssumption DEF KeySet
  <2>. QED
    BY <1>1, <1>2, <2>1, LiveFacts DEF Placed
<1>4. \/ ready' = r.ready /\ in_flight' = in_flight
      \/ /\ in_flight # NoTask /\ in_flight' = NoTask
         /\ ready' \in Runnable /\ ToSet(ready'.normal) = ToSet(r.ready.normal) \cup {in_flight}
         /\ ready'.wakes = r.ready.wakes
  <2>1. in_flight # NoTask => in_flight \notin ToSet(r.ready.normal)
    BY <1>1, <1>2, <1>3 DEF Placed
  <2>2. in_flight # NoTask =>
          /\ push_front(r.ready, in_flight) \in Runnable
          /\ ToSet(push_front(r.ready, in_flight).normal) = ToSet(r.ready.normal) \cup {in_flight}
          /\ push_front(r.ready, in_flight).wakes = r.ready.wakes
    <3>1. ASSUME in_flight # NoTask
          PROVE  in_flight \in KeySet /\ in_flight \notin ToSet(r.ready.normal)
      BY <1>3, <2>1, <3>1
    <3>2. r.ready \in Runnable
      BY <1>2
    <3>3. ASSUME in_flight # NoTask
          PROVE  /\ push_front(r.ready, in_flight) \in Runnable
                 /\ ToSet(push_front(r.ready, in_flight).normal) = ToSet(r.ready.normal) \cup {in_flight}
                 /\ push_front(r.ready, in_flight).wakes = r.ready.wakes
      <4>1. in_flight \in KeySet /\ in_flight \notin ToSet(r.ready.normal)
        BY <3>1, <3>3
      <4>. QED
        BY <3>2, <4>1, LaneFacts
    <3>. QED
      BY <3>3
  <2>. QED
    BY <2>2
<1>5. Types'
  <2>1. ready' \in Runnable /\ in_flight' \in KeySet \cup {NoTask}
    BY <1>1, <1>2, <1>4 DEF Types
  <2>2. hub' \subseteq Notification
    BY <1>1 DEF Types
  <2>. QED
    BY <1>1, <1>2, <2>1, <2>2 DEF Types, Cells, Slab
<1>6. Lives'
  <2>1. \A x \in LiveKeys : place[Task(x)] = "live" /\ kind(Task(x)) = x[1] /\ Task(x) \in Tasks
    BY <1>1, LiveFacts DEF Lives
  <2>2. \A x \in LiveKeys' : kind(Task(x)') = x[1] /\ place'[Task(x)'] = "live"
    BY <1>2, <2>1
  <2>3. \A x \in LiveKeys, y \in LiveKeys' \ LiveKeys : Task(x)' # Task(y)'
    BY <1>2, <2>1
  <2>4. \A x, y \in LiveKeys' : Task(x)' = Task(y)' => x = y
    BY <1>1, <1>2, <2>3 DEF Lives
  <2>5. ASSUME NEW t \in Tasks, place'[t] = "live"
        PROVE  \E x \in LiveKeys' : Task(x)' = t
    <3>1. CASE place[t] = "live"
      BY <1>1, <1>2, <3>1 DEF Lives
    <3>2. CASE t \in S
      BY <1>2, <3>2
    <3>. QED
      BY <2>5, <3>1, <3>2
  <2>. QED
    BY <2>2, <2>4, <2>5 DEF Lives, kind
<1>7. Placed'
  <2>. DEFINE new == LiveKeys' \ LiveKeys
              lk == LiveKeys'
  <2>1. /\ ToSet(ready.normal) \subseteq LiveKeys /\ ToSet(ready.wakes) \subseteq LiveKeys
        /\ new \cap LiveKeys = {} /\ lk = LiveKeys \cup new /\ NoTask \notin new
    BY <1>1, <1>2, <1>3 DEF Placed
  <2>2. ToSet(r.ready.normal) = ToSet(ready.normal) \cup new /\ ToSet(r.ready.wakes) = ToSet(ready.wakes)
    BY <1>2
  <2>. HIDE DEF new, lk
  <2>3. CASE ready' = r.ready /\ in_flight' = in_flight
    <3>1. /\ ToSet(ready'.normal) \cap ToSet(ready'.wakes) = {}
          /\ \A p \in parked : p.key \notin ToSet(ready'.normal) /\ p.key \notin ToSet(ready'.wakes)
                               /\ p.key # in_flight
          /\ \A p, q \in parked : p.key = q.key => p = q
          /\ in_flight \notin ToSet(ready'.normal) /\ in_flight \notin ToSet(ready'.wakes)
      BY <1>1, <1>3, <2>1, <2>2, <2>3 DEF Placed
    <3>2. \A x : x \in lk <=>
            \/ x \in ToSet(ready'.normal) \/ x \in ToSet(ready'.wakes)
            \/ x = in_flight /\ x # NoTask
            \/ \E p \in parked : p.key = x
      BY <1>1, <2>1, <2>2, <2>3 DEF Placed
    <3>. QED
      BY <2>3, <3>1, <3>2 DEF Placed, lk
  <2>4. CASE /\ in_flight # NoTask /\ in_flight' = NoTask
             /\ ready' \in Runnable /\ ToSet(ready'.normal) = ToSet(r.ready.normal) \cup {in_flight}
             /\ ready'.wakes = r.ready.wakes
    <3>1. /\ ToSet(ready'.normal) = ToSet(ready.normal) \cup new \cup {in_flight}
          /\ ToSet(ready'.wakes) = ToSet(ready.wakes)
      BY <2>2, <2>4
    <3>2. /\ ToSet(ready'.normal) \cap ToSet(ready'.wakes) = {}
          /\ \A p \in parked : p.key \notin ToSet(ready'.normal) /\ p.key \notin ToSet(ready'.wakes)
                               /\ p.key # NoTask
          /\ \A p, q \in parked : p.key = q.key => p = q
          /\ NoTask \notin ToSet(ready'.normal) /\ NoTask \notin ToSet(ready'.wakes)
      BY <1>1, <1>3, <2>1, <2>4, <3>1 DEF Placed
    <3>3. \A x : x \in lk <=>
            \/ x \in ToSet(ready'.normal) \/ x \in ToSet(ready'.wakes)
            \/ \E p \in parked : p.key = x
      BY <1>1, <2>1, <2>4, <3>1 DEF Placed
    <3>. QED
      BY <2>4, <3>2, <3>3 DEF Placed, lk
  <2>. QED
    BY <1>4, <2>3, <2>4
<1>8. Waits'
  <2>1. \A p \in parked : p.token = <<Task(p.key)', cell'[Task(p.key)'].n>>
    BY <1>1, <1>3 DEF Waits, token, Calmer
  <2>2. \A t \in Tasks : cell'[t].phase \in {"Active", "Claim"} => \E p \in parked : Task(p.key)' = t
    BY <1>1, <1>3 DEF Waits, Calmer
  <2>. QED
    BY <2>1, <2>2 DEF Waits, token
<1>9. Notices'
  <2>1. ASSUME NEW n \in Notification, Heard(n)
        PROVE  Heard(n)'
    <3>1. n.task \in Tasks
      BY DEF Notification
    <3>2. cell'[n.task].phase # "Active"
      BY <2>1, <3>1 DEF Heard, Calmer
    <3>3. \E p \in parked : p.key = n.route /\ p.token = n.token /\ Task(p.key)' = n.task
      BY <1>3, <2>1 DEF Heard
    <3>. QED
      BY <3>2, <3>3 DEF Heard
  <2>2. hub \subseteq Notification /\ deferred \subseteq Notification /\ ToSet(local) \subseteq Notification
    BY <1>1, InLine DEF Types
  <2>3. /\ \A n \in hub' : Heard(n)' /\ n \notin deferred' /\ n \notin ToSet(local')
        /\ \A n \in deferred' : Heard(n)' /\ n \notin ToSet(local')
        /\ \A n \in ToSet(local') : Heard(n)'
    BY <1>1, <2>1, <2>2 DEF Notices
  <2>. QED
    BY <2>3 DEF Notices
<1>10. Leases'
  <2>1. \A k \in Kids : k \in Tasks
    BY DEF Tasks
  <2>2. \A k \in Kids : place'[k] \in {"starts", "live"} => lease[k] # "none"
    <3>1. \A k \in Kids : k \in S => place[k] = "starts"
      BY <1>1 DEF Arrivals
    <3>. QED
      BY <1>1, <2>1, <3>1 DEF Leases
  <2>3. ASSUME NEW k \in Kids, place'[k] = "live", lease[k] = "Reclaimed"
        PROVE  cell'[k].phase \notin {"Active", "Claim"}
    <3>1. k \in Tasks /\ (place[k] = "live" \/ k \in S)
      BY <2>1, <2>3
    <3>2. cell[k].phase \in {"Active", "Claim"} => place[k] = "live"
      BY <1>1, <1>3, <3>1 DEF Waits, Lives
    <3>. QED
      BY <1>1, <2>3, <3>1, <3>2 DEF Leases, Calmer
  <2>4. \A q \in Roots : scope[q] = "open" => place'[q] = "live"
    BY <1>1 DEF Leases, Tasks
  <2>. QED
    BY <1>1, <2>2, <2>3, <2>4 DEF Leases
<1>. QED
  BY <1>2, <1>5, <1>6, <1>7, <1>8, <1>9, <1>10 DEF IInv

\* The starts of local scopes and the packets of the inbox become live.
LEMMA ReceiveKeeps ==
  ASSUME IInv, receive
  PROVE  IInv'
<1>1. /\ Types /\ SlabFits /\ Placed /\ Arrivals /\ Phase
  BY DEF IInv
<1>2. /\ at \in {"top", "requests"} /\ at' = "sweep" /\ starts' = <<>> /\ inbox' = <<>>
      /\ UNCHANGED <<in_flight, parked, timers, deferred, aborts, local, hub, requests, flagged, cell,
                     lease, scope, todo, job>>
  BY DEF receive
<1>3. PICK lost \in SUBSET Range(inbox) :
        LET got == retain(inbox, Roots \ lost)
            store == insert_all(take_starts(Store), got)
        IN /\ slab' = store.slab /\ vacant' = store.vacant /\ ready' = store.ready
           /\ place' = [t \in Tasks |-> IF t \in lost THEN "done"
                                        ELSE IF place[t] \in {"inbox", "starts"} THEN "live"
                                        ELSE place[t]]
  BY DEF receive
<1>. DEFINE got == retain(inbox, Roots \ lost)
            first == take_starts(Store)
            store == insert_all(first, got)
            S == ToSet(starts) \cup ToSet(got)
<1>4. got \in LineOf(Roots) /\ ToSet(got) = ToSet(inbox) \ lost /\ ToSet(inbox) \subseteq Roots
  <2>1. inbox \in LineOf(Roots) /\ starts \in LineOf(Kids)
    BY <1>1 DEF Types
  <2>2. ToSet(inbox) \subseteq Roots
    BY <2>1, InLine
  <2>3. got \in LineOf(Roots) /\ ToSet(got) = ToSet(inbox) \cap (Roots \ lost)
    BY <2>1, RetainFacts
  <2>. QED
    BY <2>2, <2>3
<1>5. starts \in LineOf(Tasks) /\ got \in LineOf(Tasks) /\ ToSet(starts) \subseteq Kids
  <2>1. starts \in LineOf(Kids) /\ Kids \subseteq Tasks /\ Roots \subseteq Tasks
    BY <1>1 DEF Types, Tasks
  <2>2. ToSet(starts) \subseteq Kids
    BY <2>1, InLine
  <2>. QED
    BY <1>4, <2>1, <2>2, LineWider
<1>6. Grown(Store, first, ToSet(starts))
  BY <1>1, <1>5, StoreSound, InsertAllGrows DEF take_starts
<1>7. Grown(first, store, ToSet(got))
  <2>1. Sound(first)
    BY <1>6 DEF Grown
  <2>. HIDE DEF first, got
  <2>. QED
    BY <1>5, <2>1, InsertAllGrows
<1>8. Grown(Store, store, S)
  <2>1. ToSet(starts) \cap ToSet(got) = {}
    BY <1>4, <1>5, KernelAssumption
  <2>. HIDE DEF first, store, got
  <2>. QED
    BY <1>6, <1>7, <2>1, GrownAgain
<1>9. slab' = store.slab /\ vacant' = store.vacant /\ ready' = store.ready
  BY <1>3
<1>10. /\ lost \subseteq ToSet(inbox)
       /\ place' = [t \in Tasks |-> IF t \in lost THEN "done"
                                    ELSE IF place[t] \in {"inbox", "starts"} THEN "live"
                                    ELSE place[t]]
  BY <1>3, RangeIsToSet
<1>. HIDE DEF got, first, store
<1>11. /\ place \in [Tasks -> {"new", "inbox", "starts", "live", "done"}]
       /\ \A t \in Tasks : t \in S <=> place[t] \in {"starts", "inbox"} /\ t \notin lost
       /\ \A t \in lost : t \in Tasks /\ place[t] = "inbox"
       /\ S \in SUBSET Tasks
  <2>1. \A t \in Tasks : /\ t \in Roots => (t \in ToSet(inbox) <=> place[t] = "inbox") /\ place[t] # "starts"
                                           /\ t \notin ToSet(starts)
                         /\ t \in Kids => (t \in ToSet(starts) <=> place[t] = "starts") /\ place[t] # "inbox"
                                          /\ t \notin ToSet(inbox)
    BY <1>1, <1>4, <1>5, KernelAssumption DEF Arrivals
  <2>2. \A t \in lost : t \in Roots /\ t \in Tasks
    BY <1>4, <1>10 DEF Tasks
  <2>3. S \in SUBSET Tasks
    BY <1>4, <1>5 DEF Tasks
  <2>4. \A t \in Tasks : t \in S <=> place[t] \in {"starts", "inbox"} /\ t \notin lost
    BY <1>4, <1>10, <2>1 DEF Tasks
  <2>. QED
    BY <1>1, <1>10, <2>1, <2>2, <2>3, <2>4 DEF Types
<1>. HIDE DEF S
<1>12. /\ place' \in [Tasks -> {"new", "inbox", "starts", "live", "done"}]
       /\ \A t \in Tasks : place'[t] = "live" <=> place[t] = "live" \/ t \in S
       /\ \A t \in Tasks : place'[t] \notin {"starts", "inbox"}
  BY <1>10, <1>11
<1>13. /\ starts' \in LineOf(Kids) /\ inbox' \in LineOf(Roots) /\ ToSet(starts') = {} /\ ToSet(inbox') = {}
  BY <1>2, NobodyInLine
<1>14. Arrivals'
  BY <1>12, <1>13 DEF Arrivals, Tasks
<1>15. in_flight = NoTask /\ job = NoJob /\ job.keys = {}
  BY <1>1, <1>2 DEF Phase, NoJob
<1>16. Phase' /\ Halting'
  BY <1>2, <1>15 DEF Phase, Halting
<1>17. Doomed'
  BY <1>2, <1>15 DEF Doomed
<1>18. /\ cell' \in Cells /\ Calmer /\ hub' \subseteq hub /\ at' \in Phases /\ at' # "run"
       /\ job' \in [keys : SUBSET KeySet, back : {"top", "requests", "retry", "halt"}]
       /\ aborts' \subseteq Scopes \cup {All}
       /\ requests' \in [Scopes \cup {All} -> {"none", "posted", "taken", "never"}]
  BY <1>1, <1>2, SameCells DEF Types, Cells, Phases
<1>19. /\ \A t \in S : place[t] \in {"starts", "inbox"}
       /\ \A k \in Kids : place'[k] # "starts"
  BY <1>11, <1>12 DEF Tasks
<1>. QED
  BY <1>2, <1>8, <1>9, <1>11, <1>12, <1>13, <1>14, <1>16, <1>17, <1>18, <1>19, ArriveKeeps

\* An abort takes the starts and packets of its scope, and either dooms every
\* task of the scope or, when a publisher holds a wait, keeps them all for later.
LEMMA AbortKeeps ==
  ASSUME IInv, NEW s \in Scopes \cup {All},
         NEW done \in {"top", "requests", "retry", "halt"}, NEW held \in {"top", "requests", "retry", "sweep"},
         abort(s, done, held), at \in {"stop", "requests", "retry", "mount"},
         in_flight # NoTask => Covers(s, Task(in_flight)),
         done = "halt" => s = All /\ requests'[All] = "posted",
         done = "retry" \/ held = "retry" => todo' \subseteq Scopes \cup {All},
         requests' \in [Scopes \cup {All} -> {"none", "posted", "taken", "never"}]
  PROVE  IInv'
<1>1. /\ Types /\ SlabFits /\ Lives /\ Placed /\ Arrivals /\ Waits /\ Phase
  BY DEF IInv
<1>. DEFINE store == take_starts(Store)
            waits == {t \in Tasks : Covers(s, t) /\ \E p \in parked : Task(p.key) = t}
            retired == {t \in waits : prepare_abort(t)}
            doomed == {key \in Slots(store.slab) : LET t == store.slab[key[1]][key[2]]
                                                   IN t # NoTask /\ Covers(s, t)}
            got == retain(inbox, {r \in Roots : ~Covers(s, r)})
<1>2. /\ slab' = store.slab /\ vacant' = store.vacant /\ starts' = <<>> /\ inbox' = got
      /\ place' = [t \in Tasks |-> CASE place[t] = "inbox" /\ Covers(s, t) -> "done"
                                     [] place[t] = "starts" -> "live"
                                     [] OTHER -> place[t]]
      /\ cell' = [t \in Tasks |-> CASE t \in retired -> Idle(cell[t].n)
                                    [] t \in waits \ retired -> [cell[t] EXCEPT !.seen = TRUE]
                                    [] OTHER -> cell[t]]
      /\ hub' = {n \in hub : n.task \notin retired}
      /\ UNCHANGED <<parked, timers, deferred, local, flagged, lease, scope>>
  BY DEF abort
<1>3. IF retired = waits
      THEN /\ aborts' = IF s = All THEN {} ELSE aborts \ {s}
           /\ job' = [keys |-> doomed, back |-> done]
           /\ at' = "discard"
           /\ ready' = store.ready
           /\ UNCHANGED in_flight
      ELSE /\ aborts' = defer_abort(s)
           /\ ready' = IF in_flight = NoTask THEN store.ready
                       ELSE push_front(store.ready, in_flight)
           /\ in_flight' = NoTask
           /\ at' = held /\ job' = NoJob
  BY DEF abort
<1>4. Grown(Store, store, ToSet(starts)) /\ ToSet(starts) \subseteq Kids
  <2>1. starts \in LineOf(Kids) /\ Kids \subseteq Tasks
    BY <1>1 DEF Types, Tasks
  <2>2. starts \in LineOf(Tasks) /\ ToSet(starts) \subseteq Kids
    BY <2>1, InLine, LineWider
  <2>. QED
    BY <1>1, <2>2, StoreSound, InsertAllGrows DEF take_starts
<1>5. doomed = {x \in Occupied(store.slab) : Covers(s, store.slab[x[1]][x[2]])}
  BY DEF Occupied
<1>6. waits \subseteq Tasks /\ \A t \in waits : cell[t].phase = "Claim" \/ t \in retired
  BY DEF prepare_abort
<1>7. \A t \in Tasks : t \in waits <=> Covers(s, t) /\ \E p \in parked : Task(p.key) = t
  OBVIOUS
<1>8. got \in LineOf(Roots) /\ \A r \in Roots : r \in ToSet(got) <=> r \in ToSet(inbox) /\ ~Covers(s, r)
  <2>1. inbox \in LineOf(Roots)
    BY <1>1 DEF Types
  <2>. QED
    BY <2>1, RetainFacts
<1>9. retired \subseteq waits
  OBVIOUS
<1>. HIDE DEF store, doomed, got, waits, retired
<1>10. /\ slab' \in Slab
       /\ LiveKeys' = Occupied(slab')
       /\ \A x \in LiveKeys : x \in LiveKeys' /\ Task(x)' = Task(x)
       /\ \A x \in LiveKeys' : x \in KeySet /\ Task(x)' \in Tasks
  BY <1>1, <1>2, <1>4, SlabGrows
<1>11. doomed = {x \in LiveKeys' : Covers(s, Task(x)')}
  BY <1>2, <1>5, <1>10 DEF Task
<1>12. /\ \A t \in Tasks : place'[t] = IF place[t] = "inbox" /\ Covers(s, t) THEN "done"
                                       ELSE IF place[t] = "starts" THEN "live" ELSE place[t]
       /\ place' \in [Tasks -> {"new", "inbox", "starts", "live", "done"}]
  <2>1. \A t \in Tasks : place[t] \in {"new", "inbox", "starts", "live", "done"}
    BY <1>1 DEF Types
  <2>. QED
    BY <1>2, <2>1
<1>13. /\ \A t \in Tasks : t \in ToSet(starts) <=> place[t] = "starts"
       /\ ToSet(starts) \in SUBSET Tasks
  <2>1. \A t \in Roots : t \notin ToSet(starts) /\ place[t] # "starts"
    BY <1>1, <1>4, KernelAssumption DEF Arrivals
  <2>. QED
    BY <1>1, <1>4, <2>1 DEF Arrivals, Tasks
<1>14. /\ \A t \in Tasks : place'[t] = "live" <=> place[t] = "live" \/ t \in ToSet(starts)
       /\ \A k \in Kids : place'[k] # "starts"
       /\ \A t \in ToSet(starts) : place[t] \in {"starts", "inbox"}
  BY <1>12, <1>13 DEF Tasks
<1>15. /\ cell \in Cells /\ cell' \in Cells
       /\ \A t \in Tasks : /\ cell'[t].n = cell[t].n
                           /\ cell'[t].phase = IF t \in retired THEN "Idle" ELSE cell[t].phase
  <2>1. cell \in Cells
    BY <1>1 DEF Types, Cells
  <2>2. \A t \in Tasks : cell'[t] = IF t \in retired THEN Idle(cell[t].n)
                                    ELSE IF t \in waits \ retired THEN [cell[t] EXCEPT !.seen = TRUE]
                                    ELSE cell[t]
    BY <1>2
  <2>3. \A t \in Tasks :
          /\ Idle(cell[t].n) \in [phase : {"Idle", "Active", "Claim", "Selected"}, n : Nat,
                                  join : BOOLEAN, seen : BOOLEAN]
          /\ Idle(cell[t].n).phase = "Idle" /\ Idle(cell[t].n).n = cell[t].n
          /\ [cell[t] EXCEPT !.seen = TRUE] \in [phase : {"Idle", "Active", "Claim", "Selected"}, n : Nat,
                                                 join : BOOLEAN, seen : BOOLEAN]
          /\ [cell[t] EXCEPT !.seen = TRUE].phase = cell[t].phase
          /\ [cell[t] EXCEPT !.seen = TRUE].n = cell[t].n
    BY <2>1 DEF Cells, Idle
  <2>4. cell' = [t \in Tasks |-> cell'[t]]
    BY <1>2
  <2>5. \A t \in Tasks : cell'[t] \in [phase : {"Idle", "Active", "Claim", "Selected"}, n : Nat,
                                       join : BOOLEAN, seen : BOOLEAN]
    BY ZenonT(60), <2>1, <2>2, <2>3 DEF Cells
  <2>6. cell' \in Cells
    BY <2>4, <2>5 DEF Cells
  <2>. QED
    BY ZenonT(60), <2>1, <2>2, <2>3, <2>6
<1>16. Calmer /\ hub' \subseteq hub
  BY <1>2, <1>15 DEF Calmer
<1>17. starts' \in LineOf(Kids) /\ inbox' \in LineOf(Roots) /\ ToSet(starts') = {}
  BY <1>2, <1>8, NobodyInLine
<1>18. Arrivals'
  <2>1. \A r \in Roots : (r \in ToSet(inbox') <=> place'[r] = "inbox") /\ place'[r] # "starts"
    BY <1>1, <1>2, <1>8, <1>12 DEF Arrivals, Tasks
  <2>2. \A k \in Kids : place'[k] # "starts" /\ place'[k] # "inbox"
    BY <1>1, <1>12 DEF Arrivals, Tasks
  <2>. QED
    BY <1>17, <2>1, <2>2 DEF Arrivals
<1>19. job = NoJob /\ aborts \subseteq Scopes \cup {All} /\ flagged' = flagged
  BY <1>1, <1>2 DEF Phase, Types
<1>20. CASE retired = waits
  <2>1. /\ aborts' = (IF s = All THEN {} ELSE aborts \ {s})
        /\ job' = [keys |-> doomed, back |-> done] /\ at' = "discard"
        /\ ready' = store.ready /\ UNCHANGED in_flight
    BY <1>3, <1>20
  <2>2. doomed \in SUBSET KeySet /\ doomed \subseteq LiveKeys'
    BY <1>10, <1>11
  <2>3. /\ job' \in [keys : SUBSET KeySet, back : {"top", "requests", "retry", "halt"}]
        /\ job'.keys = doomed /\ job'.back = done
    BY <2>1, <2>2
  <2>4. in_flight # NoTask => in_flight \in doomed
    BY <1>1, <1>10, <1>11 DEF Placed
  <2>5. Phase'
    BY <2>1, <2>3, <2>4 DEF Phase
  <2>6. Doomed'
    <3>1. \A x \in doomed : cell'[Task(x)'].phase \notin {"Active", "Claim"}
      <4>1. \A t \in Tasks : cell[t].phase \in {"Active", "Claim"} => \E p \in parked : Task(p.key) = t
        BY <1>1 DEF Waits
      <4>2. ASSUME NEW x \in doomed
            PROVE  cell'[Task(x)'].phase \notin {"Active", "Claim"}
        <5>1. Task(x)' \in Tasks /\ Covers(s, Task(x)')
          BY <1>10, <1>11
        <5>. QED
          BY <1>7, <1>15, <1>20, <4>1, <5>1
      <4>. QED
        BY <4>2
    <3>2. \A x \in doomed, y \in LiveKeys' : Task(y)' \in Kids /\ OwnerOf[Task(y)'] = Task(x)' => y \in doomed
      <4>1. \A t \in Tasks, k \in Kids : OwnerOf[k] = t /\ Covers(s, t) => Covers(s, k)
        BY KernelAssumption DEF Covers, Root
      <4>. QED
        BY <1>10, <1>11, <4>1
    <3>. QED
      BY <2>2, <2>3, <3>1, <3>2 DEF Doomed
  <2>7. Halting'
    <3>1. SUFFICES ASSUME done = "halt" PROVE Halting'
      BY <2>1, <2>3 DEF Halting
    <3>2. s = All /\ aborts' = {} /\ requests'[All] = "posted"
      BY <2>1, <3>1
    <3>3. inbox' = <<>>
      <4>1. ToSet(inbox') \subseteq Roots /\ \A r \in Roots : Covers(s, r)
        BY <1>17, <3>2, InLine DEF Covers
      <4>2. ToSet(inbox') = {}
        BY <1>2, <1>8, <4>1
      <4>. QED
        BY <1>17, <4>2, InLine
    <3>4. LiveKeys' \subseteq doomed
      BY <1>11, <3>2 DEF Covers
    <3>. QED
      BY <1>2, <2>3, <3>2, <3>3, <3>4 DEF Halting
  <2>8. aborts' \subseteq Scopes \cup {All} /\ at' \in Phases /\ at' # "run"
    BY <1>19, <2>1 DEF Phases
  <2>. QED
    BY <1>2, <1>4, <1>12, <1>13, <1>14, <1>15, <1>16, <1>17, <1>18, <2>1, <2>3, <2>5, <2>6, <2>7, <2>8,
       ArriveKeeps
<1>21. CASE retired # waits
  <2>1. /\ aborts' = defer_abort(s)
        /\ ready' = (IF in_flight = NoTask THEN store.ready ELSE push_front(store.ready, in_flight))
        /\ in_flight' = NoTask /\ at' = held /\ job' = NoJob
    BY <1>3, <1>21
  <2>2. aborts' \subseteq Scopes \cup {All}
    BY <1>19, <2>1 DEF defer_abort
  <2>3. /\ job' \in [keys : SUBSET KeySet, back : {"top", "requests", "retry", "halt"}]
        /\ job'.keys = {}
    BY <2>1 DEF NoJob
  <2>4. Phase' /\ Halting'
    BY <2>1 DEF Phase, Halting
  <2>5. Doomed'
    BY <2>3 DEF Doomed
  <2>6. at' \in Phases /\ at' # "run"
    BY <2>1 DEF Phases
  <2>. QED
    BY <1>2, <1>4, <1>12, <1>13, <1>14, <1>15, <1>16, <1>17, <1>18, <2>1, <2>2, <2>3, <2>4, <2>5, <2>6,
       ArriveKeeps
<1>. QED
  BY <1>20, <1>21

\* The aborts of the loop, and that of a mounted task.
LEMMA AbortsKeep ==
  ASSUME IInv, stop_abort \/ take_abort \/ retry_aborts \/ abort_dispatch
  PROVE  IInv'
<1>1. Types /\ Phase
  BY DEF IInv
<1>2. requests \in [Scopes \cup {All} -> {"none", "posted", "taken", "never"}]
  BY <1>1 DEF Types
<1>3. at \notin {"mount", "run", "discard"} => in_flight = NoTask
  BY <1>1 DEF Phase, NoJob
<1>4. CASE stop_abort
  <2>1. at = "stop" /\ abort(All, "halt", "sweep") /\ UNCHANGED requests /\ requests[All] = "posted"
    BY <1>1, <1>4 DEF stop_abort, Phase
  <2>. QED
    BY <1>2, <1>3, <2>1, AbortKeeps
<1>5. CASE take_abort
  <2>1. PICK s \in Scopes : requests' = [requests EXCEPT ![s] = "taken"] /\ abort(s, "requests", "requests")
    BY <1>5 DEF take_abort
  <2>2. at = "requests" /\ requests' \in [Scopes \cup {All} -> {"none", "posted", "taken", "never"}]
    BY <1>2, <1>5, <2>1 DEF take_abort
  <2>. QED
    BY <1>3, <2>1, <2>2, AbortKeeps
<1>6. CASE retry_aborts
  <2>1. PICK s \in todo : todo' = todo \ {s} /\ abort(s, "retry", "retry")
    BY <1>6 DEF retry_aborts
  <2>2. at = "retry" /\ UNCHANGED requests /\ s \in Scopes \cup {All} /\ todo' \subseteq Scopes \cup {All}
    BY <1>1, <1>6, <2>1 DEF retry_aborts, Phase
  <2>. QED
    BY <1>2, <1>3, <2>1, <2>2, AbortKeeps
<1>7. CASE abort_dispatch
  <2>1. PICK s : s = ScopeOf[Root(Mounted)]
    OBVIOUS
  <2>2. at = "mount" /\ abort(s, "top", "top") /\ UNCHANGED requests
    BY <1>7, <2>1 DEF abort_dispatch
  <2>3. s \in Scopes /\ Covers(s, Task(in_flight))
    <3>1. Mounted \in Tasks
      BY <2>2, MountedIs
    <3>2. Root(Mounted) \in Roots
      BY <3>1, KernelAssumption DEF Root, Tasks
    <3>. QED
      BY <2>1, <3>2 DEF Scopes, Covers, Mounted
  <2>. QED
    BY <1>2, <2>2, <2>3, AbortKeeps
<1>. QED
  BY <1>4, <1>5, <1>6, <1>7

-----------------------------------------------------------------------------
(* The invariant *)

\* A carrier starts without tasks.
LEMMA InitKeeps ==
  ASSUME Init
  PROVE  IInv
<1>1. /\ slab = [k \in Kinds |-> <<>>] /\ vacant = [k \in Kinds |-> <<>>]
      /\ ready = [normal |-> <<>>, wakes |-> <<>>, streak |-> 0] /\ in_flight = NoTask
      /\ parked = {} /\ timers = {} /\ deferred = {} /\ aborts = {}
      /\ starts = <<>> /\ local = <<>> /\ inbox = <<>> /\ hub = {} /\ flagged = {}
      /\ cell = [t \in Tasks |-> Idle(0)] /\ lease = [k \in Kids |-> "none"]
      /\ scope = [r \in Roots |-> "none"] /\ at = "top" /\ job = NoJob
  BY DEF Init, EmptyQueue
<1>2. /\ place \in [Tasks -> {"new", "done"}]
      /\ requests \in [Scopes \cup {All} -> {"none", "never"}]
  BY DEF Init
<1>3. \A T : <<>> \in LineOf(T) /\ <<>> \in Seq(T)
  BY NobodyInLine, EmptySeq
<1>4. ToSet(<<>>) = {} /\ Len(<<>>) = 0
  BY NobodyInLine
<1>5. job.keys = {} /\ job \in [keys : SUBSET KeySet, back : {"top", "requests", "retry", "halt"}]
  BY <1>1 DEF NoJob
<1>6. cell \in Cells /\ \A t \in Tasks : cell[t].phase = "Idle"
  BY <1>1 DEF Cells, Idle
<1>7. Types
  <2>1. slab \in Slab /\ vacant \in [Kinds -> LineOf(Nat)]
    BY <1>1, <1>3 DEF Slab
  <2>2. ready \in Runnable
    BY <1>1, <1>3 DEF Runnable
  <2>. QED
    BY <1>1, <1>2, <1>3, <1>5, <1>6, <2>1, <2>2 DEF Types, Slab, Cells, Phases
<1>8. LiveKeys = {}
  <2>1. slab \in Slab /\ LiveKeys = Occupied(slab)
    BY <1>7, LiveFacts
  <2>2. \A x \in Occupied(slab) : x[1] \in Kinds /\ x[2] \in 1..Len(slab[x[1]])
    BY <2>1, OccupiedSlots
  <2>3. \A k \in Kinds : 1..Len(slab[k]) = {}
    BY <1>1, <1>4
  <2>. QED
    BY <2>1, <2>2, <2>3
<1>9. SlabFits
  <2>1. \A k \in Kinds : ToSet(vacant[k]) = {} /\ 1..Len(slab[k]) = {}
    BY <1>1, <1>4
  <2>. QED
    BY <2>1 DEF SlabFits, Vacancies
<1>10. Lives
  BY <1>2, <1>8 DEF Lives
<1>11. Placed
  <2>1. ready.normal = <<>> /\ ready.wakes = <<>>
    BY <1>1
  <2>. QED
    BY <1>1, <1>4, <1>8, <2>1 DEF Placed
<1>12. Arrivals
  BY <1>1, <1>2, <1>4 DEF Arrivals, Tasks
<1>13. Waits /\ Notices
  BY <1>1, <1>4, <1>6 DEF Waits, Notices
<1>14. Phase /\ Halting
  BY <1>1 DEF Phase, Halting
<1>15. Doomed
  BY <1>5 DEF Doomed
<1>16. Leases
  BY <1>1, <1>2 DEF Leases, Tasks
<1>. QED
  BY <1>7, <1>9, <1>10, <1>11, <1>12, <1>13, <1>14, <1>15, <1>16 DEF IInv

\* Every step keeps the invariant.
LEMMA NextKeeps ==
  ASSUME IInv, [Next]_vars
  PROVE  IInv'
<1>1. CASE discard \/ discarded \/ read_signal \/ receive \/ sweep_revoked
  BY <1>1, DiscardKeeps, DiscardedKeeps, ReadSignalKeeps, ReceiveKeeps, SweepKeeps
<1>2. CASE stop_abort \/ take_abort \/ retry_aborts \/ abort_dispatch
  BY <1>2, AbortsKeep
<1>3. CASE retried \/ phase_done \/ process_deferred_wakes \/ process_wakes
  BY <1>3, PhaseDoneKeeps, DeferredKeeps, WakesKeeps
<1>4. CASE expire_timers \/ select_ready \/ dispatch
  BY <1>4, ExpireKeeps, SelectKeeps, DispatchKeeps
<1>5. CASE \/ \E k \in Kids : spawn(k)
           \/ \E t \in Tasks : wake(t)
           \/ exit_scope \/ yield_now \/ complete_task
           \/ \E timed, join \in BOOLEAN : park_task(timed, join)
  BY <1>5, SpawnKeeps, WakeOtherKeeps, ExitScopeKeeps, YieldKeeps, CompleteKeeps, ParkKeeps
<1>6. CASE \/ \E r \in Roots : push(r)
           \/ \E t \in Tasks : claim(t) \/ publish(t)
           \/ (\E s \in Scopes : request_abort(s) \/ post_abort(s)) \/ stop
  BY <1>6, PushKeeps, ClaimKeeps, PublishKeeps, RequestKeeps
<1>7. CASE UNCHANGED vars
  <2>1. Types'
    BY <1>7 DEF IInv, Types, vars, slabs, queues, shared, tasks, drive
  <2>2. UNCHANGED <<slab, vacant, ready, parked, timers, deferred, in_flight, aborts, starts, local, inbox, hub,
                    requests, flagged, cell, lease, scope, place, at, todo, job>>
    BY <1>7 DEF vars, slabs, queues, shared, tasks, drive
  <2>3. Calmer /\ Notices'
    BY <2>2, SameCells, NoticesStays DEF IInv
  <2>. QED
    BY <2>1, <2>2, <2>3, OutsideKeeps
<1>. QED
  BY <1>1, <1>2, <1>3, <1>4, <1>5, <1>6, <1>7 DEF Next, Carrier

\* The carrier keeps its invariant, whoever acts between two of its phases.
THEOREM KernelInvariant == Spec => []IInv
<1>1. Init => IInv
  BY InitKeeps
<1>2. IInv /\ [Next]_vars => IInv'
  BY NextKeeps
<1>. QED
  BY <1>1, <1>2, PTL DEF Spec

-----------------------------------------------------------------------------
(* What the runs check *)

\* Disjoint finite sets add up.
LEMMA SizesAdd ==
  ASSUME NEW A, NEW B, IsFiniteSet(A), IsFiniteSet(B), A \cap B = {}
  PROVE  IsFiniteSet(A \cup B) /\ Cardinality(A \cup B) = Cardinality(A) + Cardinality(B)
<1>1. Cardinality(A) \in Nat /\ Cardinality(B) \in Nat /\ Cardinality({}) = 0
  BY FS_CardinalityType, FS_EmptySet
<1>2. /\ IsFiniteSet(A \cup B)
      /\ Cardinality(A \cup B) = Cardinality(A) + Cardinality(B) - Cardinality(A \cap B)
  BY FS_Union
<1>3. Cardinality(A \cap B) = 0
  BY <1>1
<1>. QED
  BY <1>1, <1>2, <1>3

\* Whatever the tasks do and whoever wakes or aborts them, a live task is in
\* exactly one of the queues, parked or in flight (the assertion of
\* Kernel::snapshot), and the free lists have each free slot once.
THEOREM TaskIsPlaced == Spec => []TaskPlaced
<1>1. ASSUME IInv PROVE TaskPlaced
  <2>. DEFINE A == ToSet(ready.normal)
              B == ToSet(ready.wakes)
              C == {p.key : p \in parked}
              D == IF in_flight = NoTask THEN {} ELSE {in_flight}
  <2>1. Types /\ SlabFits /\ Placed
    BY <1>1 DEF IInv
  <2>2. ready.normal \in LineOf(KeySet) /\ ready.wakes \in LineOf(KeySet)
    BY <2>1 DEF Types, Runnable
  <2>3. /\ IsFiniteSet(A) /\ Cardinality(A) = Len(ready.normal)
        /\ IsFiniteSet(B) /\ Cardinality(B) = Len(ready.wakes)
    BY <2>2, LineSize
  <2>4. IsFiniteSet(C) /\ Cardinality(C) = Cardinality(parked)
    BY <2>1, ParkedFinite
  <2>5. IsFiniteSet(D) /\ Cardinality(D) = IF in_flight = NoTask THEN 0 ELSE 1
    BY FS_EmptySet, FS_Singleton
  <2>6. LiveKeys = A \cup B \cup C \cup D
    <3>1. \A x : x \in C <=> \E p \in parked : p.key = x
      OBVIOUS
    <3>2. \A x : x \in D <=> x = in_flight /\ x # NoTask
      OBVIOUS
    <3>3. \A x : x \in LiveKeys <=> x \in A \/ x \in B \/ x \in D \/ x \in C
      <4>. HIDE DEF C, D
      <4>. QED
        BY <2>1, <3>1, <3>2 DEF Placed
    <3>. HIDE DEF A, B, C, D
    <3>. QED
      BY <3>3
  <2>7. A \cap B = {} /\ (A \cup B) \cap C = {} /\ (A \cup B \cup C) \cap D = {}
    BY <2>1 DEF Placed
  <2>. HIDE DEF A, B, C, D
  <2>8. Cardinality(LiveKeys) = Cardinality(A) + Cardinality(B) + Cardinality(C) + Cardinality(D)
    <3>1. IsFiniteSet(A \cup B) /\ Cardinality(A \cup B) = Cardinality(A) + Cardinality(B)
      BY <2>3, <2>7, SizesAdd
    <3>2. /\ IsFiniteSet(A \cup B \cup C)
          /\ Cardinality(A \cup B \cup C) = Cardinality(A \cup B) + Cardinality(C)
      BY <2>4, <2>7, <3>1, SizesAdd
    <3>3. Cardinality(A \cup B \cup C \cup D) = Cardinality(A \cup B \cup C) + Cardinality(D)
      BY <2>5, <2>7, <3>2, SizesAdd
    <3>. QED
      BY <2>6, <3>1, <3>2, <3>3
  <2>9. LiveKeys = Entries(ready) \cup C \cup D
    <3>1. Entries(ready) = A \cup B
      BY RangeIsToSet DEF Entries, A, B
    <3>. QED
      BY <2>6, <3>1
  <2>10. Cardinality(LiveKeys) = Size(ready) + Cardinality(parked) + (IF in_flight = NoTask THEN 0 ELSE 1)
    BY <2>3, <2>4, <2>5, <2>8 DEF Size
  <2>11. ASSUME NEW k \in DOMAIN slab
         PROVE  /\ Range(vacant[k]) = {i \in DOMAIN slab[k] : slab[k][i] = NoTask}
                /\ Len(vacant[k]) = Cardinality(Range(vacant[k]))
    <3>1. k \in Kinds /\ DOMAIN slab[k] = 1..Len(slab[k]) /\ vacant[k] \in LineOf(Nat)
      BY <2>1 DEF Types
    <3>2. ToSet(vacant[k]) = {i \in 1..Len(slab[k]) : slab[k][i] = NoTask}
      BY <2>1, <3>1 DEF SlabFits, Vacancies
    <3>3. Cardinality(ToSet(vacant[k])) = Len(vacant[k])
      BY <3>1, LineSize
    <3>4. Range(vacant[k]) = ToSet(vacant[k])
      BY RangeIsToSet
    <3>. QED
      BY <3>1, <3>2, <3>3, <3>4
  <2>. QED
    BY <2>9, <2>10, <2>11 DEF TaskPlaced, C, D
<1>. QED
  BY <1>1, KernelInvariant, PTL

\* A notice, a deferred wake or a timer is about the wait parked on its route
\* (process_wake never meets another task there), and no task is discarded
\* while a publisher holds its wait.
THEOREM RoutesAreExact == Spec => []RouteExact
<1>1. ASSUME IInv PROVE RouteExact
  <2>1. Types /\ Notices /\ Doomed
    BY <1>1 DEF IInv
  <2>2. at # "failed"
    BY <2>1 DEF Types, Phases
  <2>3. \A n \in hub \cup Range(local) \cup deferred :
          \E p \in parked : p.key = n.route /\ p.token = n.token /\ Task(p.key) = n.task
    BY <2>1, RangeIsToSet DEF Notices, Heard
  <2>4. \A x \in timers : \E p \in parked : p.key = x.key /\ p.token = x.token
    BY <2>1 DEF Types
  <2>5. \A key \in job.keys : cell[Task(key)].phase # "Claim"
    BY <2>1 DEF Doomed
  <2>. QED
    BY <2>2, <2>3, <2>4, <2>5 DEF RouteExact
<1>. QED
  BY <1>1, KernelInvariant, PTL

\* A borrowed child runs only while the local scope it borrows from is open and
\* its owner is live (LocalScope's guard drains or revokes before it returns).
THEOREM BorrowedAreAlive == Spec => []BorrowedAlive
<1>1. ASSUME IInv PROVE BorrowedAlive
  <2>1. Leases
    BY <1>1 DEF IInv
  <2>2. \A k \in Kids : OwnerOf[k] \in Roots
    BY KernelAssumption
  <2>. QED
    BY <2>1, <2>2 DEF BorrowedAlive, Leases
<1>. QED
  BY <1>1, KernelInvariant, PTL

\* A carrier that halts has no task, wait, timer, notice, start or packet left
\* (Kernel::reclaimed).
THEOREM HaltIsReclaimed == Spec => []HaltReclaimed
<1>1. ASSUME IInv, at = "halt"
      PROVE  /\ LiveKeys = {} /\ in_flight = NoTask /\ Size(ready) = 0
             /\ parked = {} /\ deferred = {} /\ aborts = {} /\ timers = {}
             /\ starts = <<>> /\ local = <<>> /\ inbox = <<>>
  <2>1. Types /\ Placed /\ Notices /\ Phase /\ Halting
    BY <1>1 DEF IInv
  <2>2. job.keys = {} /\ in_flight = NoTask
    BY <1>1, <2>1 DEF Phase, NoJob
  <2>3. LiveKeys = {} /\ aborts = {} /\ starts = <<>> /\ inbox = <<>>
    BY <1>1, <2>1, <2>2 DEF Halting
  <2>4. parked = {} /\ timers = {} /\ ToSet(ready.normal) = {} /\ ToSet(ready.wakes) = {}
    BY <2>1, <2>3 DEF Placed, Types
  <2>5. deferred = {} /\ ToSet(local) = {}
    BY <2>1, <2>4 DEF Notices, Heard
  <2>6. local = <<>>
    BY <2>1, <2>5, InLine DEF Types
  <2>7. Size(ready) = 0
    <3>1. ready.normal \in LineOf(KeySet) /\ ready.wakes \in LineOf(KeySet)
      BY <2>1 DEF Types, Runnable
    <3>2. Len(ready.normal) = 0 /\ Len(ready.wakes) = 0
      BY <2>4, <3>1, LineSize, FS_EmptySet
    <3>. QED
      BY <3>2 DEF Size
  <2>. QED
    BY <2>2, <2>3, <2>4, <2>5, <2>6, <2>7
<1>2. IInv => HaltReclaimed
  BY <1>1 DEF HaltReclaimed
<1>. QED
  BY <1>2, KernelInvariant, PTL

-----------------------------------------------------------------------------
(* The ready queue under any arrivals *)

\* The selections that may still pass before the entry at place i of the normal
\* lane is served, and one with n older ones in the lane of wakes.
UntilNormal(i, s) == 4 * (i - 1) + (IF s = 3 THEN 4 ELSE 3 - s)
UntilWake(n, s) == 4 * n + 4 - s

\* What an entry has waited and what it may still wait stay within its bound.
Waiting == [waited : Nat, older : Nat]
Within(e, further) == e.waited + further <= 4 * (e.older + 1)
OrderTypes ==
  /\ lanes = [normal |-> lanes.normal, wakes |-> lanes.wakes, streak |-> lanes.streak]
  /\ lanes.normal \in Seq(Waiting) /\ lanes.wakes \in Seq(Waiting) /\ lanes.streak \in 0..3
NormalDue(lane, s) ==
  \A i \in 1..Len(lane) : Within(lane[i], UntilNormal(i, s))
WakesDue(lane, s) ==
  \A i \in 1..Len(lane) : Within(lane[i], UntilWake(Len(lane) - i, s))
OrderInv == OrderTypes /\ NormalDue(lanes.normal, lanes.streak) /\ WakesDue(lanes.wakes, lanes.streak)

\* An entry and the one it becomes when a selection passes it.
LEMMA WaitingParts ==
  ASSUME NEW e \in Waiting
  PROVE  /\ e.waited \in Nat /\ e.older \in Nat
         /\ [e EXCEPT !.waited = @ + 1] \in Waiting
         /\ [e EXCEPT !.waited = @ + 1].waited = e.waited + 1
         /\ [e EXCEPT !.waited = @ + 1].older = e.older
         /\ \A u, v \in Int : Within(e, u) /\ v <= u => Within(e, v)
<1>1. e.waited \in Nat /\ e.older \in Nat /\ e = [waited |-> e.waited, older |-> e.older]
  BY DEF Waiting
<1>2. [e EXCEPT !.waited = @ + 1] = [waited |-> e.waited + 1, older |-> e.older]
  BY <1>1
<1>3. [waited |-> e.waited + 1, older |-> e.older] \in Waiting
  BY <1>1 DEF Waiting
<1>4. \A u, v \in Int : Within(e, u) /\ v <= u => Within(e, v)
  BY <1>1 DEF Within
<1>. QED
  BY <1>1, <1>2, <1>3, <1>4

\* A selection ages every entry that stays in a lane.
LEMMA AgedFacts ==
  ASSUME NEW lane \in Seq(Waiting)
  PROVE  /\ Order!Aged(lane) \in Seq(Waiting) /\ Len(Order!Aged(lane)) = Len(lane)
         /\ \A i \in 1..Len(lane) : /\ Order!Aged(lane)[i].waited = lane[i].waited + 1
                                    /\ Order!Aged(lane)[i].older = lane[i].older
<1>. DEFINE a == [i \in 1..Len(lane) |-> [lane[i] EXCEPT !.waited = @ + 1]]
<1>1. Len(lane) \in Nat /\ DOMAIN lane = 1..Len(lane) /\ \A i \in 1..Len(lane) : lane[i] \in Waiting
  BY LenProperties, ElementOfSeq
<1>2. Order!Aged(lane) = a
  BY <1>1 DEF Order!Aged
<1>3. \A i \in 1..Len(lane) : /\ [lane[i] EXCEPT !.waited = @ + 1] \in Waiting
                              /\ [lane[i] EXCEPT !.waited = @ + 1].waited = lane[i].waited + 1
                              /\ [lane[i] EXCEPT !.waited = @ + 1].older = lane[i].older
  BY <1>1, WaitingParts
<1>4. a \in Seq(Waiting) /\ Len(a) = Len(lane)
  BY <1>1, <1>3
<1>. QED
  BY <1>2, <1>3, <1>4

\* Positions and lanes are those of the kernel's own queue.
LEMMA OrderLines ==
  /\ \A s, i : Order!RemoveAt(s, i) = RemoveAt(s, i)
  /\ \A s : Order!Range(s) = ToSet(s)
  /\ \A S : Order!Min(S) = Min(S) /\ Order!Max(S) = Max(S)
<1>1. \A s, i : Order!RemoveAt(s, i) = RemoveAt(s, i)
  BY DEF Order!RemoveAt, RemoveAt
<1>2. \A s : Order!Range(s) = ToSet(s)
  BY DEF Order!Range, ToSet
<1>3. \A S : Order!Min(S) = Min(S) /\ Order!Max(S) = Max(S)
  BY DEF Order!Min, Min, Order!Max, Max
<1>. QED
  BY <1>1, <1>2, <1>3

\* The first and the last place of a lane.
LEMMA EndPlaces ==
  ASSUME NEW n \in Nat \ {0}
  PROVE  Min(1..n) = 1 /\ Max(1..n) = n
<1>1. Min(1..n) \in 1..n /\ \A x \in 1..n : Min(1..n) <= x
  BY MinMember
<1>2. \E x \in 1..n : \A y \in 1..n : x >= y
  OBVIOUS
<1>3. Max(1..n) \in 1..n /\ \A x \in 1..n : Max(1..n) >= x
  BY <1>2 DEF Max
<1>. QED
  BY <1>1, <1>3

\* Which lane pop_front serves, at which place, and the cohort it leaves.
Served(normal, wakes, s) ==
  /\ lanes' = [normal |-> Order!Aged(normal), wakes |-> Order!Aged(wakes), streak |-> s]
LEMMA SelectFacts ==
  ASSUME OrderTypes, Order!Select
  PROVE  LET n == lanes.normal  w == lanes.wakes  s == lanes.streak IN
         \/ w = <<>> /\ n # <<>> /\ Served(RemoveAt(n, 1), w, 0)
         \/ w # <<>> /\ s < 2 /\ Served(n, RemoveAt(w, 1), s + 1)
         \/ w # <<>> /\ s = 2 /\ n # <<>> /\ Served(RemoveAt(n, 1), w, 3)
         \/ w # <<>> /\ (s = 3 \/ n = <<>>) /\ s >= 2 /\ Served(n, RemoveAt(w, Len(w)), 0)
<1>. DEFINE n == lanes.normal
            w == lanes.wakes
            s == lanes.streak
            N == {i \in DOMAIN n : n[i] \in Order!Entries(lanes)}
            W == {i \in DOMAIN w : w[i] \in Order!Entries(lanes)}
            rest == Order!pop_front(lanes).queue
<1>1. /\ lanes = [normal |-> n, wakes |-> w, streak |-> s]
      /\ n \in Seq(Waiting) /\ w \in Seq(Waiting) /\ s \in 0..3
      /\ Len(n) \in Nat /\ Len(w) \in Nat /\ DOMAIN n = 1..Len(n) /\ DOMAIN w = 1..Len(w)
      /\ (n = <<>> <=> Len(n) = 0) /\ (w = <<>> <=> Len(w) = 0)
  BY LenProperties, EmptySeq DEF OrderTypes
<1>2. Order!Entries(lanes) = ToSet(n) \cup ToSet(w)
  BY OrderLines DEF Order!Entries
<1>3. N = 1..Len(n) /\ W = 1..Len(w)
  BY <1>1, <1>2 DEF ToSet
<1>4. /\ Order!Size(lanes) > 0 /\ rest = Order!pop_matching(lanes, Order!Entries(lanes)).queue
      /\ lanes' = [rest EXCEPT !.normal = Order!Aged(@), !.wakes = Order!Aged(@)]
  BY DEF Order!Select, Order!pop_front
<1>5. n # <<>> \/ w # <<>>
  BY <1>1, <1>4 DEF Order!Size
<1>6. /\ n # <<>> => N # {} /\ Min(N) = 1
      /\ w # <<>> => W # {} /\ Min(W) = 1 /\ Max(W) = Len(w)
      /\ n = <<>> => N = {}
      /\ w = <<>> => W = {}
  <2>1. n # <<>> => Len(n) \in Nat \ {0} /\ 1 \in 1..Len(n)
    BY <1>1
  <2>2. w # <<>> => Len(w) \in Nat \ {0} /\ 1 \in 1..Len(w)
    BY <1>1
  <2>3. n = <<>> => 1..Len(n) = {}
    BY <1>1
  <2>4. w = <<>> => 1..Len(w) = {}
    BY <1>1
  <2>5. n # <<>> => Min(1..Len(n)) = 1 /\ 1..Len(n) # {}
    BY <2>1, EndPlaces
  <2>6. w # <<>> => Min(1..Len(w)) = 1 /\ Max(1..Len(w)) = Len(w) /\ 1..Len(w) # {}
    BY <2>2, EndPlaces
  <2>. HIDE DEF n, w, N, W
  <2>. QED
    BY <1>3, <2>3, <2>4, <2>5, <2>6
<1>7. Order!pop_matching(lanes, Order!Entries(lanes)) =
        CASE W = {} /\ N = {} -> [entry |-> Order!Nothing, queue |-> lanes]
          [] W = {} /\ N # {} -> Order!Taken(lanes, "normal", Min(N), 0)
          [] W # {} /\ s < 2 -> Order!Taken(lanes, "wakes", Min(W), s + 1)
          [] W # {} /\ s = 2 /\ N # {} -> Order!serve_normal(lanes, Min(N))
          [] OTHER -> Order!Taken(lanes, "wakes", Max(W), 0)
  BY OrderLines DEF Order!pop_matching, Order!WAKE_BURST
<1>8. \A i, t : /\ Order!Taken(lanes, "normal", i, t).queue = [normal |-> RemoveAt(n, i), wakes |-> w, streak |-> t]
                /\ Order!Taken(lanes, "wakes", i, t).queue = [normal |-> n, wakes |-> RemoveAt(w, i), streak |-> t]
  BY <1>1, OrderLines DEF Order!Taken
<1>9. \A i : Order!serve_normal(lanes, i).queue = [normal |-> RemoveAt(n, i), wakes |-> w, streak |-> s + 1]
  <2>1. \A i : Order!serve_normal(lanes, i) = Order!Taken(lanes, "normal", i, s + 1)
    BY DEF Order!serve_normal
  <2>. QED
    BY <1>8, <2>1
<1>. HIDE DEF n, w, s, N, W, rest
<1>10. ASSUME NEW a, NEW b, NEW t, rest = [normal |-> a, wakes |-> b, streak |-> t]
       PROVE  Served(a, b, t)
  <2>1. lanes' = [rest EXCEPT !.normal = Order!Aged(rest.normal), !.wakes = Order!Aged(rest.wakes)]
    BY <1>4
  <2>2. rest.normal = a /\ rest.wakes = b
    BY <1>10
  <2>3. lanes' = [[normal |-> a, wakes |-> b, streak |-> t] EXCEPT !.normal = Order!Aged(a), !.wakes = Order!Aged(b)]
    BY <1>10, <2>1, <2>2
  <2>. QED
    BY <2>3 DEF Served
<1>11. CASE w = <<>>
  <2>1. rest = [normal |-> RemoveAt(n, 1), wakes |-> w, streak |-> 0]
    BY <1>4, <1>5, <1>6, <1>7, <1>8, <1>11
  <2>. QED
    BY <1>5, <1>10, <1>11, <2>1 DEF n, w, s
<1>12. CASE w # <<>> /\ s < 2
  <2>1. rest = [normal |-> n, wakes |-> RemoveAt(w, 1), streak |-> s + 1]
    BY <1>4, <1>6, <1>7, <1>8, <1>12
  <2>. QED
    BY <1>10, <1>12, <2>1 DEF n, w, s
<1>13. CASE w # <<>> /\ s = 2 /\ n # <<>>
  <2>1. rest = [normal |-> RemoveAt(n, 1), wakes |-> w, streak |-> 3]
    BY <1>4, <1>6, <1>7, <1>9, <1>13
  <2>. QED
    BY <1>10, <1>13, <2>1 DEF n, w, s
<1>14. CASE w # <<>> /\ s >= 2 /\ (s = 3 \/ n = <<>>)
  <2>1. rest = [normal |-> n, wakes |-> RemoveAt(w, Len(w)), streak |-> 0]
    BY <1>1, <1>4, <1>6, <1>7, <1>8, <1>14
  <2>. QED
    BY <1>10, <1>14, <2>1 DEF n, w, s
<1>. QED
  BY <1>1, <1>11, <1>12, <1>13, <1>14

\* An entry that stays in its lane is one selection nearer to its turn.
LEMMA ServeInOrder ==
  ASSUME OrderInv, Order!Select
  PROVE  OrderInv'
<1>. DEFINE n == lanes.normal
            w == lanes.wakes
            s == lanes.streak
<1>1. /\ n \in Seq(Waiting) /\ w \in Seq(Waiting) /\ s \in 0..3 /\ Len(n) \in Nat /\ Len(w) \in Nat
      /\ (n = <<>> <=> Len(n) = 0) /\ (w = <<>> <=> Len(w) = 0)
      /\ NormalDue(n, s) /\ WakesDue(w, s)
  BY LenProperties, EmptySeq DEF OrderInv, OrderTypes
<1>. HIDE DEF n, w, s
<1>2. /\ \A i \in 1..Len(n) : n[i] \in Waiting /\ Within(n[i], UntilNormal(i, s))
      /\ \A i \in 1..Len(w) : w[i] \in Waiting /\ Within(w[i], UntilWake(Len(w) - i, s))
  BY <1>1, ElementOfSeq DEF NormalDue, WakesDue
\* The lanes a selection leaves, before and after they age.
<1>3. ASSUME NEW a \in Seq(Waiting), NEW b \in Seq(Waiting), NEW t \in 0..3, Served(a, b, t),
             \A i \in 1..Len(a) : Within(a[i], UntilNormal(i, t) + 1),
             \A i \in 1..Len(b) : Within(b[i], UntilWake(Len(b) - i, t) + 1)
      PROVE  OrderInv'
  <2>1. lanes' = [normal |-> Order!Aged(a), wakes |-> Order!Aged(b), streak |-> t]
    BY <1>3 DEF Served
  <2>2. OrderTypes'
    BY <2>1, AgedFacts DEF OrderTypes
  <2>3. ASSUME NEW e \in Waiting, NEW f, NEW u \in Int, Within(e, u + 1), f.waited = e.waited + 1, f.older = e.older
        PROVE  Within(f, u)
    <3>1. e.waited \in Nat /\ e.older \in Nat /\ e.waited + (u + 1) <= 4 * (e.older + 1)
      BY <2>3, WaitingParts DEF Within
    <3>2. (e.waited + 1) + u <= 4 * (e.older + 1)
      BY <3>1
    <3>. QED
      BY <2>3, <3>2 DEF Within
  <2>4. /\ Len(a) \in Nat /\ Len(b) \in Nat
        /\ \A i \in 1..Len(a) : a[i] \in Waiting /\ UntilNormal(i, t) \in Int
        /\ \A i \in 1..Len(b) : b[i] \in Waiting /\ UntilWake(Len(b) - i, t) \in Int
    <3>1. Len(a) \in Nat /\ Len(b) \in Nat
      BY LenProperties
    <3>2. /\ \A i \in 1..Len(a) : UntilNormal(i, t) \in Int
          /\ \A i \in 1..Len(b) : UntilWake(Len(b) - i, t) \in Int
      BY <3>1 DEF UntilNormal, UntilWake
    <3>. QED
      BY <3>1, <3>2, ElementOfSeq
  <2>5. NormalDue(Order!Aged(a), t)
    BY <1>3, <2>3, <2>4, AgedFacts DEF NormalDue
  <2>6. WakesDue(Order!Aged(b), t)
    <3>1. /\ Order!Aged(b) \in Seq(Waiting) /\ Len(Order!Aged(b)) = Len(b)
          /\ \A i \in 1..Len(b) : /\ Order!Aged(b)[i].waited = b[i].waited + 1
                                 /\ Order!Aged(b)[i].older = b[i].older
      BY AgedFacts
    <3>2. ASSUME NEW i \in 1..Len(b) PROVE Within(Order!Aged(b)[i], UntilWake(Len(b) - i, t))
      BY <1>3, <2>3, <2>4, <3>1
    <3>. QED
      BY <3>1, <3>2 DEF WakesDue
  <2>. QED
    BY <2>1, <2>2, <2>5, <2>6 DEF OrderInv
<1>4. ASSUME NEW lane \in Seq(Waiting), NEW i \in 1..Len(lane)
      PROVE  /\ RemoveAt(lane, i) \in Seq(Waiting) /\ Len(RemoveAt(lane, i)) = Len(lane) - 1
             /\ \A j \in 1..(Len(lane) - 1) : RemoveAt(lane, i)[j] = IF j < i THEN lane[j] ELSE lane[j + 1]
  BY <1>4, RemoveAtFacts
\* What is left of a lane when its first entry is served.
<1>5. /\ n # <<>> => /\ RemoveAt(n, 1) \in Seq(Waiting) /\ Len(RemoveAt(n, 1)) = Len(n) - 1
                     /\ \A j \in 1..(Len(n) - 1) : RemoveAt(n, 1)[j] = n[j + 1]
      /\ w # <<>> => /\ RemoveAt(w, 1) \in Seq(Waiting) /\ Len(RemoveAt(w, 1)) = Len(w) - 1
                     /\ \A j \in 1..(Len(w) - 1) : RemoveAt(w, 1)[j] = w[j + 1]
      /\ w # <<>> => /\ RemoveAt(w, Len(w)) \in Seq(Waiting) /\ Len(RemoveAt(w, Len(w))) = Len(w) - 1
                     /\ \A j \in 1..(Len(w) - 1) : RemoveAt(w, Len(w))[j] = w[j]
  <2>1. ASSUME NEW lane \in Seq(Waiting), Len(lane) \in Nat, Len(lane) # 0
        PROVE  1 \in 1..Len(lane) /\ Len(lane) \in 1..Len(lane)
    BY <2>1
  <2>2. \A j \in Nat : j >= 1 => ~(j < 1)
    OBVIOUS
  <2>3. \A j \in 1..(Len(w) - 1) : j < Len(w)
    BY <1>1
  <2>4. ASSUME NEW lane \in Seq(Waiting), Len(lane) \in Nat, Len(lane) # 0
        PROVE  /\ RemoveAt(lane, 1) \in Seq(Waiting) /\ Len(RemoveAt(lane, 1)) = Len(lane) - 1
               /\ \A j \in 1..(Len(lane) - 1) : RemoveAt(lane, 1)[j] = lane[j + 1]
    <3>1. 1 \in 1..Len(lane)
      BY <2>1, <2>4
    <3>2. \A j \in 1..(Len(lane) - 1) : ~(j < 1)
      BY <2>4
    <3>. QED
      BY <1>4, <3>1, <3>2
  <2>5. w # <<>> => Len(w) \in 1..Len(w)
    BY <1>1, <2>1
  <2>. QED
    BY <1>1, <1>4, <2>3, <2>4, <2>5
<1>6. ASSUME NEW j \in Nat, j >= 1
      PROVE  /\ j \in 1..(Len(n) - 1) => j + 1 \in 1..Len(n) /\ j + 1 \in Nat
             /\ j \in 1..(Len(w) - 1) => /\ j + 1 \in 1..Len(w) /\ j \in 1..Len(w)
                                         /\ Len(w) - 1 - j = Len(w) - (j + 1)
                                         /\ Len(w) - 1 - j \in Nat /\ (Len(w) - 1 - j) + 1 = Len(w) - j
             /\ j \in 1..Len(w) => Len(w) - j \in Nat
  BY <1>1, <1>6
<1>7. ASSUME NEW e \in Waiting, NEW u \in Int, NEW v \in Int, Within(e, u), v <= u
      PROVE  Within(e, v)
  BY <1>7, WaitingParts
<1>8. ASSUME NEW e \in Waiting, NEW u \in Int, NEW v \in Int, Within(e, u), v + 1 <= u
      PROVE  Within(e, v + 1)
  BY <1>7, <1>8
<1>9. CASE w = <<>> /\ n # <<>> /\ Served(RemoveAt(n, 1), w, 0)
  <2>1. ASSUME NEW j \in 1..(Len(n) - 1)
        PROVE  Within(n[j + 1], UntilNormal(j, 0) + 1)
    <3>1. j \in Nat /\ j + 1 \in Nat /\ j + 1 \in 1..Len(n)
      BY <1>1, <1>6
    <3>2. n[j + 1] \in Waiting /\ Within(n[j + 1], UntilNormal(j + 1, s))
      BY <1>2, <3>1
    <3>3. /\ UntilNormal(j + 1, s) \in Int /\ UntilNormal(j, 0) \in Int
          /\ UntilNormal(j, 0) + 1 <= UntilNormal(j + 1, s)
      BY <1>1, <3>1 DEF UntilNormal, UntilWake
    <3>. QED
      BY <1>8, <3>2, <3>3
  <2>2. \A j \in 1..Len(w) : FALSE
    BY <1>1, <1>9
  <2>3. \A j \in 1..Len(RemoveAt(n, 1)) : Within(RemoveAt(n, 1)[j], UntilNormal(j, 0) + 1)
    BY <1>5, <1>9, <2>1
  <2>4. \A i \in 1..Len(w) : Within(w[i], UntilWake(Len(w) - i, 0) + 1)
    BY <2>2
  <2>5. RemoveAt(n, 1) \in Seq(Waiting) /\ 0 \in 0..3
    BY <1>5, <1>9
  <2>. QED
    BY <1>1, <1>3, <1>9, <2>3, <2>4, <2>5
<1>10. CASE w # <<>> /\ s < 2 /\ Served(n, RemoveAt(w, 1), s + 1)
  <2>3. s + 1 \in 0..3
    BY <1>1, <1>10
  <2>1. ASSUME NEW i \in 1..Len(n)
        PROVE  Within(n[i], UntilNormal(i, s + 1) + 1)
    <3>1. i \in Nat
      BY <1>1, <1>6
    <3>2. n[i] \in Waiting /\ Within(n[i], UntilNormal(i, s))
      BY <1>2, <3>1
    <3>3. /\ UntilNormal(i, s) \in Int /\ UntilNormal(i, s + 1) \in Int
          /\ UntilNormal(i, s + 1) + 1 <= UntilNormal(i, s)
      BY <1>1, <3>1, <1>10, <2>3 DEF UntilNormal, UntilWake
    <3>. QED
      BY <1>8, <3>2, <3>3
  <2>2. ASSUME NEW j \in 1..(Len(w) - 1)
        PROVE  Within(w[j + 1], UntilWake(Len(w) - (j + 1), s + 1) + 1)
    <3>1. j + 1 \in 1..Len(w) /\ Len(w) - (j + 1) \in Nat
      BY <1>1, <1>6
    <3>2. w[j + 1] \in Waiting /\ Within(w[j + 1], UntilWake(Len(w) - (j + 1), s))
      BY <1>2, <3>1
    <3>3. /\ UntilWake(Len(w) - (j + 1), s) \in Int /\ UntilWake(Len(w) - (j + 1), s + 1) \in Int
          /\ UntilWake(Len(w) - (j + 1), s + 1) + 1 <= UntilWake(Len(w) - (j + 1), s)
      BY <1>1, <3>1, <1>10, <2>3 DEF UntilNormal, UntilWake
    <3>. QED
      BY <1>8, <3>2, <3>3
  <2>4. \A j \in 1..(Len(w) - 1) : (Len(w) - 1) - j = Len(w) - (j + 1)
    BY <1>1
  <2>5. \A j \in 1..Len(RemoveAt(w, 1)) :
          Within(RemoveAt(w, 1)[j], UntilWake(Len(RemoveAt(w, 1)) - j, s + 1) + 1)
    BY <1>5, <1>10, <2>2, <2>4
  <2>6. RemoveAt(w, 1) \in Seq(Waiting)
    BY <1>5, <1>10
  <2>. QED
    BY <1>1, <1>3, <1>10, <2>1, <2>3, <2>5, <2>6
<1>11. CASE w # <<>> /\ s = 2 /\ n # <<>> /\ Served(RemoveAt(n, 1), w, 3)
  <2>1. ASSUME NEW j \in 1..(Len(n) - 1)
        PROVE  Within(n[j + 1], UntilNormal(j, 3) + 1)
    <3>1. j \in Nat /\ j + 1 \in Nat /\ j + 1 \in 1..Len(n)
      BY <1>1, <1>6
    <3>2. n[j + 1] \in Waiting /\ Within(n[j + 1], UntilNormal(j + 1, s))
      BY <1>2, <3>1
    <3>3. /\ UntilNormal(j + 1, s) \in Int /\ UntilNormal(j, 3) \in Int
          /\ UntilNormal(j, 3) + 1 <= UntilNormal(j + 1, s)
      BY <1>1, <3>1, <1>11 DEF UntilNormal, UntilWake
    <3>. QED
      BY <1>8, <3>2, <3>3
  <2>2. ASSUME NEW i \in 1..Len(w)
        PROVE  Within(w[i], UntilWake(Len(w) - i, 3) + 1)
    <3>1. i \in Nat /\ Len(w) - i \in Nat
      BY <1>1, <1>6
    <3>2. w[i] \in Waiting /\ Within(w[i], UntilWake(Len(w) - i, s))
      BY <1>2, <3>1
    <3>3. /\ UntilWake(Len(w) - i, s) \in Int /\ UntilWake(Len(w) - i, 3) \in Int
          /\ UntilWake(Len(w) - i, 3) + 1 <= UntilWake(Len(w) - i, s)
      BY <1>1, <3>1, <1>11 DEF UntilNormal, UntilWake
    <3>. QED
      BY <1>8, <3>2, <3>3
  <2>3. \A j \in 1..Len(RemoveAt(n, 1)) : Within(RemoveAt(n, 1)[j], UntilNormal(j, 3) + 1)
    BY <1>5, <1>11, <2>1
  <2>4. RemoveAt(n, 1) \in Seq(Waiting) /\ 3 \in 0..3
    BY <1>5, <1>11
  <2>. QED
    BY <1>1, <1>3, <1>11, <2>2, <2>3, <2>4
<1>12. CASE w # <<>> /\ (s = 3 \/ n = <<>>) /\ s >= 2 /\ Served(n, RemoveAt(w, Len(w)), 0)
  <2>1. ASSUME NEW i \in 1..Len(n)
        PROVE  Within(n[i], UntilNormal(i, 0) + 1)
    <3>1. i \in Nat /\ s = 3
      BY <1>1, <1>6, <1>12
    <3>2. n[i] \in Waiting /\ Within(n[i], UntilNormal(i, s))
      BY <1>2, <3>1
    <3>3. /\ UntilNormal(i, s) \in Int /\ UntilNormal(i, 0) \in Int
          /\ UntilNormal(i, 0) + 1 <= UntilNormal(i, s)
      BY <1>1, <3>1 DEF UntilNormal, UntilWake
    <3>. QED
      BY <1>8, <3>2, <3>3
  <2>2. ASSUME NEW j \in 1..(Len(w) - 1)
        PROVE  Within(w[j], UntilWake((Len(w) - 1) - j, 0) + 1)
    <3>1. /\ j \in 1..Len(w) /\ (Len(w) - 1) - j \in Nat /\ Len(w) - j \in Nat
          /\ Len(w) - j = ((Len(w) - 1) - j) + 1
      BY <1>1, <1>6
    <3>2. w[j] \in Waiting /\ Within(w[j], UntilWake(Len(w) - j, s))
      BY <1>2, <3>1
    <3>3. /\ UntilWake(Len(w) - j, s) \in Int /\ UntilWake((Len(w) - 1) - j, 0) \in Int
          /\ UntilWake((Len(w) - 1) - j, 0) + 1 <= UntilWake(Len(w) - j, s)
      BY <1>1, <3>1 DEF UntilNormal, UntilWake
    <3>. QED
      BY <1>8, <3>2, <3>3
  <2>. QED
    BY <1>1, <1>3, <1>5, <1>12, <2>1, <2>2
<1>. QED
  BY <1>9, <1>10, <1>11, <1>12, SelectFacts DEF OrderInv, n, w, s

\* Who arrives waits for those that are older in its lane.
LEMMA ArriveInOrder ==
  ASSUME OrderInv, Order!Arrive
  PROVE  OrderInv'
<1>. DEFINE n == lanes.normal
            w == lanes.wakes
            s == lanes.streak
<1>1. /\ lanes = [normal |-> n, wakes |-> w, streak |-> s]
      /\ n \in Seq(Waiting) /\ w \in Seq(Waiting) /\ s \in 0..3 /\ Len(n) \in Nat /\ Len(w) \in Nat
      /\ NormalDue(n, s) /\ WakesDue(w, s)
  BY LenProperties DEF OrderInv, OrderTypes
<1>2. CASE lanes' = Order!push_back(lanes, Order!Arrival(Len(lanes.normal)))
  <2>. DEFINE e == [waited |-> 0, older |-> Len(n)]
              m == Append(n, e)
  <2>1. lanes' = [normal |-> m, wakes |-> w, streak |-> s]
    BY <1>1, <1>2 DEF Order!push_back, Order!Arrival
  <2>2. e \in Waiting
    BY <1>1 DEF Waiting
  <2>3. /\ m \in Seq(Waiting) /\ Len(m) = Len(n) + 1 /\ m[Len(n) + 1] = e
        /\ \A i \in 1..Len(n) : m[i] = n[i]
    <3>. HIDE DEF e
    <3>. QED
      BY <1>1, <2>2, AppendProperties
  <2>. HIDE DEF m, n, w, s
  <2>4. NormalDue(m, s)
    <3>1. m[Len(n) + 1].waited = 0 /\ m[Len(n) + 1].older = Len(n)
      BY <2>3
    <3>2. 0 + UntilNormal(Len(n) + 1, s) <= 4 * (Len(n) + 1)
      BY <1>1 DEF UntilNormal
    <3>3. \A i \in 1..Len(m) : i \in 1..Len(n) \/ i = Len(n) + 1
      BY <1>1, <2>3
    <3>. QED
      BY <1>1, <2>3, <3>1, <3>2, <3>3 DEF NormalDue, Within
  <2>5. OrderTypes'
    BY <1>1, <2>1, <2>3 DEF OrderTypes
  <2>. QED
    BY <1>1, <2>1, <2>4, <2>5 DEF OrderInv
<1>3. CASE lanes' = Order!push_wake(lanes, Order!Arrival(Len(lanes.wakes)))
  <2>. DEFINE e == [waited |-> 0, older |-> Len(w)]
              m == <<e>> \o w
  <2>1. lanes' = [normal |-> n, wakes |-> m, streak |-> s]
    BY <1>1, <1>3 DEF Order!push_wake, Order!Arrival
  <2>2. e \in Waiting
    BY <1>1 DEF Waiting
  <2>3. /\ m \in Seq(Waiting) /\ Len(m) = Len(w) + 1 /\ m[1] = e
        /\ \A i \in 1..Len(w) : m[i + 1] = w[i]
    <3>. HIDE DEF e
    <3>1. <<e>> \in Seq(Waiting) /\ Len(<<e>>) = 1 /\ <<e>>[1] = e
      BY <2>2
    <3>. QED
      BY <1>1, <3>1, ConcatProperties
  <2>. HIDE DEF m, n, w, s
  <2>4. WakesDue(m, s)
    <3>1. m[1].waited = 0 /\ m[1].older = Len(w)
      BY <2>3
    <3>2. 0 + UntilWake(Len(m) - 1, s) <= 4 * (Len(w) + 1)
      BY <1>1, <2>3 DEF UntilWake
    <3>3. ASSUME NEW i \in 1..Len(m), i # 1
          PROVE  Within(m[i], UntilWake(Len(m) - i, s))
      <4>1. i - 1 \in 1..Len(w) /\ (i - 1) + 1 = i /\ Len(m) - i = Len(w) - (i - 1)
        BY <1>1, <2>3, <3>3
      <4>2. m[i] = w[i - 1]
        BY <2>3, <4>1
      <4>. QED
        BY <1>1, <4>1, <4>2 DEF WakesDue
    <3>. QED
      BY <3>1, <3>2, <3>3 DEF WakesDue, Within
  <2>5. OrderTypes'
    BY <1>1, <2>1, <2>3 DEF OrderTypes
  <2>. QED
    BY <1>1, <2>1, <2>4, <2>5 DEF OrderInv
<1>. QED
  BY <1>2, <1>3 DEF Order!Arrive

\* An entry with N older ones in its lane is served within 4 * (N + 1)
\* selections, whatever keeps arriving in either lane (ready_queue.rs:6).
THEOREM HeadsAreServed == Order!Spec => []HeadsServed
<1>1. Order!Init => OrderInv
  <2>1. <<>> \in Seq(Waiting) /\ Len(<<>>) = 0
    OBVIOUS
  <2>. QED
    BY <2>1 DEF Order!Init, Order!EmptyQueue, OrderInv, OrderTypes, NormalDue, WakesDue
<1>2. OrderInv /\ [Order!Next]_lanes => OrderInv'
  BY ServeInOrder, ArriveInOrder DEF Order!Next, OrderInv, OrderTypes
<1>3. OrderInv => HeadsServed
  <2>. SUFFICES ASSUME OrderInv, NEW e \in Order!Entries(lanes)
                PROVE  e.waited < 4 * (e.older + 1)
    BY DEF HeadsServed, Order!HeadsServed
  <2>1. e \in ToSet(lanes.normal) \cup ToSet(lanes.wakes)
    BY OrderLines DEF Order!Entries
  <2>2. /\ lanes.normal \in Seq(Waiting) /\ lanes.wakes \in Seq(Waiting) /\ lanes.streak \in 0..3
        /\ Len(lanes.normal) \in Nat /\ Len(lanes.wakes) \in Nat
    BY LenProperties DEF OrderInv, OrderTypes
  <2>3. CASE e \in ToSet(lanes.normal)
    <3>1. PICK i \in 1..Len(lanes.normal) : e = lanes.normal[i]
      BY <2>2, <2>3 DEF ToSet
    <3>2. e.waited \in Nat /\ e.older \in Nat
      BY <2>2, <3>1, ElementOfSeq, WaitingParts
    <3>3. e.waited + UntilNormal(i, lanes.streak) <= 4 * (e.older + 1)
      BY <3>1 DEF OrderInv, NormalDue, Within
    <3>4. i \in Nat /\ i >= 1 /\ UntilNormal(i, lanes.streak) \in Int /\ UntilNormal(i, lanes.streak) >= 1
      BY <2>2 DEF UntilNormal
    <3>. QED
      BY <3>2, <3>3, <3>4
  <2>4. CASE e \in ToSet(lanes.wakes)
    <3>1. PICK i \in 1..Len(lanes.wakes) : e = lanes.wakes[i]
      BY <2>2, <2>4 DEF ToSet
    <3>2. e.waited \in Nat /\ e.older \in Nat
      BY <2>2, <3>1, ElementOfSeq, WaitingParts
    <3>3. e.waited + UntilWake(Len(lanes.wakes) - i, lanes.streak) <= 4 * (e.older + 1)
      BY <3>1 DEF OrderInv, WakesDue, Within
    <3>4. UntilWake(Len(lanes.wakes) - i, lanes.streak) \in Int /\ UntilWake(Len(lanes.wakes) - i, lanes.streak) >= 1
      BY <2>2 DEF UntilWake
    <3>. QED
      BY <3>2, <3>3, <3>4
  <2>. QED
    BY <2>1, <2>3, <2>4
<1>. QED
  BY <1>1, <1>2, <1>3, PTL DEF Order!Spec
=============================================================================
