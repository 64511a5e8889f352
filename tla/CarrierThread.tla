--------------------------- MODULE CarrierThread ---------------------------
\* The thread of a carrier under names of its own, to stand beside the services
\* in ServicesProofs.
CONSTANTS Tasks, Scopes, ScopeOf, Timed, Threads, Capacity, ReadyTarget,
          DispatchBound, MaxParks, All, None
VARIABLES
  epoch, waiters, linked, sleeping, starts, stopLocked, inboxStopped, aborts,
  accepting, failing, tstate, wait, interest, timer, parks, tpc, obj, kpc,
  observed, handled, changed, remote_pending, pressure, deferred, pending_aborts

Sleep == INSTANCE CarrierSleep WITH pc <- tpc, stopped <- inboxStopped

ASSUME CarrierAssumption == Sleep!CarrierSleepAssumption

\* signal.rs:212: no carrier sleeps over work that nobody announces to it.
NoLostWakeup == Sleep!NoLostWakeup
=============================================================================
