----------------------------- MODULE Lifecycle -----------------------------
(***************************************************************************)
(* Runtimes from construction to shutdown (runtime_build.rs,               *)
(* runtime_lifecycle.rs, carrier.rs, control.rs) and the process-wide      *)
(* service that owns their coordinators (lifecycle_owner.rs,               *)
(* lifecycle_reaper.rs).                                                   *)
(*                                                                         *)
(* A runtime has one calling thread, which builds it and shuts it down,    *)
(* one carrier, one readiness driver, one native worker and a coordinator  *)
(* that joins them.  Reading the version of the changed signal clears the  *)
(* reader's flag; a notification sets the flags.  Task bodies, native      *)
(* calls and destructors end.                                              *)
(***************************************************************************)
EXTENDS Naturals, FiniteSets

CONSTANTS
  Runtimes,
  LifecycleCapacity,   \* LIFECYCLE_CAPACITY
  MaxFaults            \* bound on failed starts, panics and failed cleanups

VARIABLES
  occupied, entries, failure,   \* Slots
  owner,           \* the process owner: pc, claimed entry, phase to publish, targets
  caller,          \* per runtime: where its calling thread is
  coordinator,     \* per runtime: where its coordinator is
  thread,          \* per runtime and part: the thread and its JoinSlot
  reclaimed,       \* per runtime: the parts that gave up all they owned
  phase,           \* per runtime: ShutdownPhase
  failures,        \* per runtime: a ThreadFailure was recorded
  told,         \* per runtime: parts that were told to stop
  stopping,        \* per runtime and requester: progress of request_stop
  flag,            \* per runtime: who has a notification to see
  faults

slots == <<occupied, entries, failure>>
shared == <<phase, failures, told, stopping, flag>>
threads == <<coordinator, thread, reclaimed>>
vars == <<slots, owner, caller, shared, threads, faults>>

Parts == {"carrier", "reactor", "native"}
Requesters == {"caller", "owner", "carrier"}
Listeners == {"caller", "coordinator"}
NotRequested == 0
Requested == 1
JoiningCarriers == 2
JoiningReadiness == 3
JoiningNative == 4
Complete == 5
Failed == 6
Greater(a, b) == IF a < b THEN b ELSE a

Init ==
  /\ occupied = 0 /\ entries = {} /\ failure = FALSE
  /\ owner = [pc |-> "reap", claim |-> {}, verdict |-> NotRequested, targets |-> {}]
  /\ caller = [r \in Runtimes |-> "reserve"] /\ coordinator = [r \in Runtimes |-> "none"]
  /\ thread = [r \in Runtimes |-> [p \in Parts |-> "none"]]
  /\ reclaimed = [r \in Runtimes |-> {}]
  /\ phase = [r \in Runtimes |-> NotRequested] /\ failures = [r \in Runtimes |-> FALSE]
  /\ told = [r \in Runtimes |-> {}]
  /\ stopping = [r \in Runtimes |-> [w \in Requesters |-> "idle"]]
  /\ flag = [r \in Runtimes |-> {}] /\ faults = 0

Fault == faults < MaxFaults /\ faults' = faults + 1
Call(r, pc) == caller' = [caller EXCEPT ![r] = pc]
Coordinate(r, pc) == coordinator' = [coordinator EXCEPT ![r] = pc]
Thread(r, p, state) == thread' = [thread EXCEPT ![r][p] = state]
Reclaim(r, p) == reclaimed' = [reclaimed EXCEPT ![r] = @ \cup {p}]
Notify(r) == flag' = [flag EXCEPT ![r] = Listeners]
Begin_stop(r, w) == stopping' = [stopping EXCEPT ![r][w] = "pool"]
Advance(r, p) == phase' = [phase EXCEPT ![r] = Greater(@, p)] /\ Notify(r)

\* The OnceLock of the services is set.
published(r) == thread[r]["reactor"] # "none" /\ caller[r] # "publish"

-----------------------------------------------------------------------------
(* request_stop, by whoever asked: pool, admission and inboxes, reactor *)

stop_pool(r, w) ==
  /\ stopping[r][w] = "pool"
  /\ told' = IF published(r) THEN [told EXCEPT ![r] = @ \cup {"native"}] ELSE told
  /\ stopping' = [stopping EXCEPT ![r][w] = "inboxes"]
  /\ UNCHANGED <<slots, owner, caller, threads, phase, failures, flag, faults>>

stop_inboxes(r, w) ==
  /\ stopping[r][w] = "inboxes"
  /\ phase' = [phase EXCEPT ![r] = Greater(@, Requested)]
  /\ told' = [told EXCEPT ![r] = @ \cup {"carrier"}]
  /\ stopping' = [stopping EXCEPT ![r][w] = "reactor"]
  /\ UNCHANGED <<slots, owner, caller, threads, failures, flag, faults>>

stop_reactor(r, w) ==
  /\ stopping[r][w] = "reactor"
  /\ told' = IF published(r) THEN [told EXCEPT ![r] = @ \cup {"reactor"}] ELSE told
  /\ stopping' = [stopping EXCEPT ![r][w] = "idle"] /\ Notify(r)
  /\ UNCHANGED <<slots, owner, caller, threads, phase, failures, faults>>

request_stop(r, w) == stop_pool(r, w) \/ stop_inboxes(r, w) \/ stop_reactor(r, w)

-----------------------------------------------------------------------------
(* Construction *)

\* Permit::reserve; a coordinator that cannot be spawned returns its permit.
reserve(r) ==
  /\ caller[r] = "reserve"
  /\ \/ /\ failure \/ occupied >= LifecycleCapacity
        /\ Call(r, "refused") /\ UNCHANGED <<occupied, coordinator, faults>>
     \/ /\ ~failure /\ occupied < LifecycleCapacity
        /\ \/ /\ occupied' = occupied + 1 /\ Coordinate(r, "gate") /\ Call(r, "install")
              /\ UNCHANGED faults
           \/ Fault /\ Call(r, "refused") /\ UNCHANGED <<occupied, coordinator>>
  /\ UNCHANGED <<entries, failure, owner, shared, thread, reclaimed>>

\* A failure that raced the spawn keeps the entry and closes the gate.
install(r) ==
  /\ caller[r] = "install"
  /\ entries' = entries \cup {r}
  /\ \/ /\ ~failure /\ Coordinate(r, "version") /\ Call(r, "services")
        /\ UNCHANGED shared
     \/ /\ failure /\ failures' = [failures EXCEPT ![r] = TRUE] /\ Begin_stop(r, "caller")
        /\ Coordinate(r, "dead") /\ Call(r, "refused") /\ Notify(r)
        /\ UNCHANGED <<phase, told>>
  /\ UNCHANGED <<occupied, failure, owner, thread, reclaimed, faults>>

\* Services::new starts both services, or fails and leaves none.
services(r) ==
  /\ caller[r] = "services"
  /\ \/ /\ thread' = [thread EXCEPT ![r]["reactor"] = "live", ![r]["native"] = "live"]
        /\ Call(r, "publish") /\ UNCHANGED faults
     \/ Fault /\ Call(r, "abandon") /\ UNCHANGED thread
  /\ UNCHANGED <<slots, owner, shared, coordinator, reclaimed>>

publish(r) ==
  /\ caller[r] = "publish" /\ Call(r, "carriers")
  /\ UNCHANGED <<slots, owner, shared, threads, faults>>

carriers(r) ==
  /\ caller[r] = "carriers"
  /\ \/ Thread(r, "carrier", "live") /\ Call(r, "check") /\ UNCHANGED faults
     \/ Fault /\ Call(r, "abandon") /\ UNCHANGED thread
  /\ UNCHANGED <<slots, owner, shared, coordinator, reclaimed>>

check_health(r) ==
  /\ caller[r] = "check"
  /\ Call(r, IF failure THEN "abandon" ELSE "ready")
  /\ UNCHANGED <<slots, owner, shared, threads, faults>>

\* The coordinator may go on; a failed construction shuts down at once.
ready(r) ==
  /\ caller[r] \in {"ready", "abandon"} /\ Notify(r)
  /\ \/ caller[r] = "ready" /\ Call(r, "open") /\ UNCHANGED stopping
     \/ caller[r] = "abandon" /\ Call(r, "version") /\ Begin_stop(r, "caller")
  /\ UNCHANGED <<slots, owner, threads, phase, failures, told, faults>>

constructed(r) == caller[r] \in {"open", "version", "look", "health", "asleep", "complete", "failed"}

-----------------------------------------------------------------------------
(* Shutdown by an ordinary thread *)

\* request_shutdown, or a drop on a managed worker: it does not wait.
request_shutdown(r) ==
  /\ caller[r] = "open" /\ stopping[r]["caller"] = "idle" /\ phase[r] = NotRequested
  /\ Begin_stop(r, "caller")
  /\ UNCHANGED <<slots, owner, caller, threads, phase, failures, told, flag, faults>>

shutdown(r) ==
  /\ caller[r] = "open" /\ stopping[r]["caller"] = "idle"
  /\ Begin_stop(r, "caller") /\ Call(r, "version")
  /\ UNCHANGED <<slots, owner, threads, phase, failures, told, flag, faults>>

\* wait_shutdown reads the version, then the phase, then the owner's health.
wait_version(r) ==
  /\ caller[r] = "version" /\ stopping[r]["caller"] = "idle"
  /\ flag' = [flag EXCEPT ![r] = @ \ {"caller"}] /\ Call(r, "look")
  /\ UNCHANGED <<slots, owner, threads, phase, failures, told, stopping, faults>>

wait_look(r) ==
  /\ caller[r] = "look"
  /\ Call(r, CASE phase[r] = Complete -> "complete" [] phase[r] = Failed -> "failed"
               [] OTHER -> "health")
  /\ UNCHANGED <<slots, owner, shared, threads, faults>>

wait_health(r) ==
  /\ caller[r] = "health" /\ Call(r, IF failure THEN "failed" ELSE "asleep")
  /\ UNCHANGED <<slots, owner, shared, threads, faults>>

wait_wake(r) ==
  /\ caller[r] = "asleep" /\ "caller" \in flag[r] /\ Call(r, "version")
  /\ UNCHANGED <<slots, owner, shared, threads, faults>>

\* shutdown_until returns at its deadline; the caller may try again.
time_out(r) ==
  /\ caller[r] = "asleep" /\ Call(r, "open")
  /\ UNCHANGED <<slots, owner, shared, threads, faults>>

-----------------------------------------------------------------------------
(* Owned threads *)

\* carrier::run: a stop, a contained panic, or a cleanup that is not confirmed.
run_carrier(r) ==
  /\ thread[r]["carrier"] = "live"
  /\ \/ /\ "carrier" \in told[r]
        /\ Thread(r, "carrier", "exited") /\ Reclaim(r, "carrier")
        /\ UNCHANGED <<failures, stopping, flag, faults>>
     \/ /\ Fault /\ failures' = [failures EXCEPT ![r] = TRUE] /\ Notify(r)
        /\ \/ Thread(r, "carrier", "exited") /\ Reclaim(r, "carrier") /\ UNCHANGED stopping
           \/ Thread(r, "carrier", "failing") /\ Begin_stop(r, "carrier") /\ UNCHANGED reclaimed
  /\ UNCHANGED <<slots, owner, caller, coordinator, phase, told>>

exit_carrier(r) ==
  /\ thread[r]["carrier"] = "failing" /\ stopping[r]["carrier"] = "idle"
  /\ Thread(r, "carrier", "exited")
  /\ UNCHANGED <<slots, owner, caller, shared, coordinator, reclaimed, faults>>

\* Inner::close with an error, by the driver that failed or a task whose wake
\* failed, and fail of a worker close the service and record the failure.
fail_service(r, p) ==
  /\ Fault
  /\ thread[r][p] = "live" \/ (p = "reactor" /\ published(r) /\ thread[r]["carrier"] = "live")
  /\ told' = [told EXCEPT ![r] = @ \cup {p}]
  /\ failures' = [failures EXCEPT ![r] = TRUE] /\ Notify(r)
  /\ UNCHANGED <<slots, owner, caller, threads, phase, stopping>>

\* A closed service gives up its entries, registrations and jobs and returns;
\* a panic past the containment leaves some of them.
end_service(r, p) ==
  /\ thread[r][p] = "live" /\ p \in told[r]
  /\ \/ Thread(r, p, "exited") /\ Reclaim(r, p) /\ UNCHANGED faults
     \/ Fault /\ Thread(r, p, "unwound") /\ UNCHANGED reclaimed
  /\ UNCHANGED <<slots, owner, caller, shared, coordinator>>

run_reactor(r) == end_service(r, "reactor")
run_native(r) == end_service(r, "native")

-----------------------------------------------------------------------------
(* The coordinator *)

await_version(r) ==
  /\ coordinator[r] = "version" /\ Coordinate(r, "look")
  /\ flag' = [flag EXCEPT ![r] = @ \ {"coordinator"}]
  /\ UNCHANGED <<slots, owner, caller, thread, reclaimed, phase, failures, told, stopping, faults>>

await_look(r) ==
  /\ coordinator[r] = "look"
  /\ IF constructed(r) /\ phase[r] # NotRequested
     THEN Advance(r, JoiningCarriers) /\ Coordinate(r, "carriers")
     ELSE Coordinate(r, "asleep") /\ UNCHANGED <<phase, flag>>
  /\ UNCHANGED <<slots, owner, caller, thread, reclaimed, failures, told, stopping, faults>>

await_wake(r) ==
  /\ coordinator[r] = "asleep" /\ "coordinator" \in flag[r] /\ Coordinate(r, "version")
  /\ UNCHANGED <<slots, owner, caller, shared, thread, reclaimed, faults>>

\* JoinSlot::join returns once the thread is gone and records its panic; a part
\* never started has no slot.
join(r, p) ==
  /\ thread[r][p] \in {"none", "exited", "unwound"}
  /\ thread' = IF thread[r][p] = "none" THEN thread ELSE [thread EXCEPT ![r][p] = "joined"]
  /\ failures' = [failures EXCEPT ![r] = @ \/ thread[r][p] = "unwound"]

join_carriers(r) ==
  /\ coordinator[r] = "carriers" /\ join(r, "carrier") /\ Coordinate(r, "reclaimed")
  /\ UNCHANGED <<slots, owner, caller, phase, told, stopping, flag, reclaimed, faults>>

carriers_reclaimed(r) ==
  thread[r]["carrier"] = "none" \/ (thread[r]["carrier"] = "joined" /\ "carrier" \in reclaimed[r])

\* A kept stack ends the coordinator early; else the services are told again.
drain_services(r) ==
  /\ coordinator[r] = "reclaimed"
  /\ IF carriers_reclaimed(r) /\ published(r)
     THEN /\ told' = [told EXCEPT ![r] = @ \cup {"reactor", "native"}]
          /\ Advance(r, JoiningReadiness) /\ Coordinate(r, "readiness")
     ELSE Coordinate(r, "returned") /\ UNCHANGED <<told, phase, flag>>
  /\ UNCHANGED <<slots, owner, caller, thread, reclaimed, failures, stopping, faults>>

join_readiness(r) ==
  /\ coordinator[r] = "readiness" /\ join(r, "reactor")
  /\ Advance(r, JoiningNative) /\ Coordinate(r, "native")
  /\ UNCHANGED <<slots, owner, caller, reclaimed, told, stopping, faults>>

join_native(r) ==
  /\ coordinator[r] = "native" /\ join(r, "native") /\ Coordinate(r, "returned")
  /\ (thread[r]["native"] = "unwound" /\ Notify(r)) \/ (thread[r]["native"] # "unwound" /\ UNCHANGED flag)
  /\ UNCHANGED <<slots, owner, caller, phase, told, stopping, reclaimed, faults>>

\* The body unwinds before its returned flag is set.
die(r) ==
  /\ coordinator[r] \in {"carriers", "reclaimed", "readiness", "native"} /\ Fault
  /\ Coordinate(r, "dead")
  /\ UNCHANGED <<slots, owner, caller, shared, thread, reclaimed>>

-----------------------------------------------------------------------------
(* The process owner *)

\* Claim::ready takes an entry whose coordinator has finished.
claim_ready(r) ==
  /\ owner.pc = "reap" /\ r \in entries /\ coordinator[r] \in {"returned", "dead"}
  /\ entries' = entries \ {r} /\ owner' = [owner EXCEPT !.pc = "join", !.claim = {r}]
  /\ UNCHANGED <<occupied, failure, caller, shared, threads, faults>>

\* Joining a coordinator that unwound records its failure.
join_coordinator ==
  /\ owner.pc = "join" /\ owner' = [owner EXCEPT !.pc = "drained"]
  /\ \E r \in owner.claim :
     \/ coordinator[r] = "returned" /\ UNCHANGED <<failures, flag>>
     \/ /\ coordinator[r] = "dead" /\ failures' = [failures EXCEPT ![r] = TRUE] /\ Notify(r)
  /\ UNCHANGED <<slots, caller, threads, phase, told, stopping, faults>>

\* Mutant: a coordinator that returned is taken for a finished cleanup.
drained_returned(r) == coordinator[r] = "returned"

\* Every thread is joined, and the services confirm their cleanup.
drained(r) ==
  /\ coordinator[r] = "returned" /\ carriers_reclaimed(r)
  /\ \A p \in {"reactor", "native"} :
       thread[r][p] = "none" \/ (thread[r][p] = "joined" /\ p \in reclaimed[r])

\* Mutant: an interrupted claim loses its entry.
Restored_lost == entries

\* Claim::drop puts an entry it still holds back into the table.
Restored == entries \cup owner.claim

confirm ==
  /\ owner.pc = "drained"
  /\ \/ \E r \in owner.claim :
          /\ drained(r) /\ UNCHANGED entries
          /\ owner' = [owner EXCEPT !.pc = "release",
                                    !.verdict = IF failures[r] THEN Failed ELSE Complete]
     \/ /\ \A r \in owner.claim : ~drained(r)
        /\ entries' = Restored
        /\ owner' = [owner EXCEPT !.pc = "fail", !.claim = {}]
  /\ UNCHANGED <<occupied, failure, caller, shared, threads, faults>>

release ==
  /\ owner.pc = "release" /\ occupied' = occupied - 1
  /\ owner' = [owner EXCEPT !.pc = "advance"]
  /\ UNCHANGED <<entries, failure, caller, shared, threads, faults>>

advance ==
  /\ owner.pc = "advance" /\ \E r \in owner.claim : Advance(r, owner.verdict)
  /\ owner' = [owner EXCEPT !.pc = "reap", !.claim = {}, !.verdict = NotRequested]
  /\ UNCHANGED <<slots, caller, threads, failures, told, stopping, faults>>

\* A panic of the service before the entry is consumed.
unwind ==
  /\ owner.pc \in {"reap", "join", "drained"} /\ Fault
  /\ entries' = Restored
  /\ owner' = [owner EXCEPT !.pc = "fail", !.claim = {}]
  /\ UNCHANGED <<occupied, failure, caller, shared, threads>>

\* State::fail: the failure is permanent and every owned runtime is told.
fail ==
  /\ owner.pc = "fail" /\ failure' = TRUE
  /\ owner' = [owner EXCEPT !.pc = "record", !.targets = entries]
  /\ UNCHANGED <<occupied, entries, caller, shared, threads, faults>>

record_failure ==
  /\ owner.pc = "record"
  /\ \/ /\ owner.targets = {} /\ owner' = [owner EXCEPT !.pc = "dead"]
        /\ UNCHANGED <<failures, stopping, flag>>
     \/ \E r \in owner.targets :
          /\ \A q \in Runtimes : stopping[q]["owner"] = "idle"
          /\ owner' = [owner EXCEPT !.targets = @ \ {r}]
          /\ IF phase[r] = Complete THEN UNCHANGED <<failures, stopping, flag>>
             ELSE failures' = [failures EXCEPT ![r] = TRUE] /\ Begin_stop(r, "owner") /\ Notify(r)
  /\ UNCHANGED <<slots, caller, threads, phase, told, faults>>

-----------------------------------------------------------------------------
Build(r) == reserve(r) \/ install(r) \/ services(r) \/ publish(r) \/ carriers(r)
            \/ check_health(r) \/ ready(r)
Wait(r) == wait_version(r) \/ wait_look(r) \/ wait_health(r) \/ wait_wake(r)
Coordinator(r) == await_version(r) \/ await_look(r) \/ await_wake(r) \/ join_carriers(r)
                  \/ drain_services(r) \/ join_readiness(r) \/ join_native(r)
Carrier(r) == run_carrier(r) \/ exit_carrier(r)
Owner == (\E r \in Runtimes : claim_ready(r)) \/ join_coordinator \/ confirm \/ release
         \/ advance \/ fail \/ record_failure

Next == \/ \E r \in Runtimes :
             \/ Build(r) \/ request_shutdown(r) \/ shutdown(r) \/ Wait(r) \/ time_out(r)
             \/ Coordinator(r) \/ die(r) \/ Carrier(r) \/ run_reactor(r) \/ run_native(r)
             \/ \E p \in {"reactor", "native"} : fail_service(r, p)
             \/ \E w \in Requesters : request_stop(r, w)
        \/ Owner \/ unwind

\* The threads: the calling one, the carrier, the coordinator, the driver, the
\* worker and the process owner.  Each is scheduled; a carrier, a driver and a
\* worker end once told, a worker when the carrier has dropped its leases,
\* which one that kept its stacks never does.
CallerThread(r) == Build(r) \/ Wait(r) \/ request_stop(r, "caller")
CarrierThread(r) == Carrier(r) \/ request_stop(r, "carrier")
NativeThread(r) ==
  (thread[r]["carrier"] = "none" \/ "carrier" \in reclaimed[r]) /\ run_native(r)
OwnerThread == Owner \/ \E r \in Runtimes : request_stop(r, "owner")

Fairness ==
  /\ \A r \in Runtimes :
       /\ WF_vars(CallerThread(r)) /\ WF_vars(CarrierThread(r)) /\ WF_vars(Coordinator(r))
       /\ WF_vars(run_reactor(r)) /\ WF_vars(NativeThread(r))
  /\ WF_vars(OwnerThread)
Spec == Init /\ [][Next]_vars /\ Fairness

-----------------------------------------------------------------------------
(* Properties *)

\* lifecycle_reaper.rs:40, 56-67: a runtime is reported complete or failed
\* only when each of its threads was joined and gave up every stack, entry and
\* job it owned and its slot in the process table was given back, and it is
\* complete exactly when no carrier, service or coordinator failed meanwhile.
CompletionHonest ==
  /\ \A r \in Runtimes : phase[r] \in {Complete, Failed} =>
       /\ r \notin entries /\ r \notin owner.claim
       /\ \A p \in Parts : thread[r][p] = "none" \/ (thread[r][p] = "joined" /\ p \in reclaimed[r])
       /\ (phase[r] = Failed) <=> failures[r]
  /\ occupied = Cardinality({r \in Runtimes :
       /\ coordinator[r] # "none" /\ phase[r] \notin {Complete, Failed}
       /\ ~(r \in owner.claim /\ owner.pc = "advance")})

\* runtime_lifecycle.rs:139: a call of shutdown returns or times out, even if
\* a carrier, the coordinator or the process service itself fails while the
\* caller sleeps.
ShutdownReturns ==
  \A r \in Runtimes :
    (caller[r] \in {"version", "look", "health", "asleep"})
      ~> (caller[r] \in {"open", "complete", "failed"})
=============================================================================
