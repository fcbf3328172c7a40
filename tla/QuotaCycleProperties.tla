------------------------ MODULE QuotaCycleProperties ------------------------
(* What the background poll and the prime promise.                          *)
EXTENDS QuotaCycle

\* The process is not restarted for ever.
Settled == <>[][~ Restart]_vars

(* No account keeps another from being polled: while the switch stays on,   *)
(* each is asked again and again, however often another comes due.          *)
NobodyStarves ==
  \A s \in Slots : Settled /\ <>[]upstream => []<>(poller = At("reading", s))

(* A window that reset does not stay untouched for ever: while an account   *)
(* may prime it, somebody or the prime starts it (SPEC.md, quota window     *)
(* priming: "such a window never elapses").                                 *)
WindowsStart ==
  \A s \in Slots : Settled /\ <>[](upstream /\ MayPrime(s)) => []<>(~ Untouched(s))

(* No account is primed twice within the interval, however its primes fail  *)
(* and the process restarts, unless it restarted with the earlier prime     *)
(* still unwritten: a failed save does not keep the prime from being sent   *)
(* (prime.rs prime_unanchored_quota_window).                                *)
PrimedOncePerInterval ==
  [][\A s \in Slots :
       poller # poller' /\ poller' = At("priming", s) => charged[s] = 0]_vars

(* A finished poll never leaves its account due at once: its next one is    *)
(* minutes away, or at a reset or at the end of a grace still ahead.        *)
NotDueAtOnce ==
  [][\A s \in Slots :
       poller.slot = s /\ poller'.at = "pausing" => NextAt(plan'[s], s \in used') > 0]_vars
=============================================================================
