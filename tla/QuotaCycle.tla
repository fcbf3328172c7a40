----------------------------- MODULE QuotaCycle -----------------------------
(***************************************************************************)
(* The background quota poll (quota_refresh.rs start_quota_refresher), the *)
(* schedule it follows (quota_schedule.rs) and the prime that starts a     *)
(* window which has reset and counts down for nobody (prime.rs).           *)
(*                                                                         *)
(* Every instant is written as the ticks left until it, so that the poll   *)
(* may run for ever: a tick takes one from each, and an instant long past  *)
(* stays at -Late.  One tick is the pause between two polls; a poll itself *)
(* takes none.  A random span is any member of a small set.                *)
(***************************************************************************)
EXTENDS Integers, FiniteSets

CONSTANTS
  Slots,        \* the Codex device-auth accounts, always listed
  WorkspaceOf,  \* [Slots -> upstream identity], which owns the quota window
  Ord,          \* [Slots -> Nat]: the order of the account ids and the list
  None,
  Gaps,         \* between the polls of an account in use (4 to 6 minutes)
  IdleGaps,     \* of an idle account whose reset is unknown (6 to 8 hours)
  WakeDelays,   \* after an idle account's reset (1 to 10 minutes)
  Graces,       \* the owner's first chance (30 to 120 minutes)
  Interval,     \* QUOTA_PRIME_MIN_INTERVAL_HOURS
  Window,       \* the length of the budget window
  Spread,       \* START_SPREAD
  Late,         \* bound: how long past an instant is still told apart
  Horizon       \* bound: no instant is planned further ahead

ASSUME QuotaAssumption ==
  /\ None \notin Int
  /\ Cardinality({Ord[s] : s \in Slots}) = Cardinality(Slots)
  /\ Gaps \cup IdleGaps \cup Graces \subseteq 1..Horizon
  /\ WakeDelays \subseteq Nat \ {0}
  /\ \A delay \in WakeDelays : Window + delay <= Horizon
  /\ {Interval, Window, Late, Horizon} \subseteq Nat \ {0}
  /\ Spread \in 0..Horizon

VARIABLES
  upstream,  \* the upstream switch
  priming,   \* the Console's "Prime idle accounts"
  enabled,   \* accounts enabled and not awaiting verification
  used,      \* accounts a request went to within ACTIVE_WINDOW
  window,    \* upstream: ticks to each workspace's reset, None if untouched
  plan,      \* the schedule's Plan of each account, None before the first
  grace,     \* PrimeGrace: when each wait ends
  primed,    \* quota_window_primes: what is left of each interval, in memory
  saved,     \* the same in runtime.json
  poller,    \* where the poll is
  charged,   \* observer: what is left of the interval after the last prime made
  unsaved    \* observer: accounts whose last prime no save has written since

vars == <<upstream, priming, enabled, used, window, plan, grace, primed, saved, poller,
          charged, unsaved>>
switches == <<upstream, priming, enabled>>
file     == <<saved, unsaved>>

Workspaces == {WorkspaceOf[s] : s \in Slots}
Instant    == (-Late)..Horizon
Plan       == [active : Instant, idle : Instant, by : Instant \cup {None}]
Poller     == [at : {"choosing", "pausing"}, slot : {None}]
              \cup [at : {"reading", "priming"}, slot : Slots]
At(step, s) == [at |-> step, slot |-> s]

TypeOK ==
  /\ upstream \in BOOLEAN /\ priming \in BOOLEAN
  /\ enabled \subseteq Slots /\ used \subseteq Slots
  /\ window \in [Workspaces -> 1..Window \cup {None}]
  /\ plan \in [Slots -> Plan \cup {None}]
  /\ grace \in [Slots -> Instant \cup {None}]
  /\ {primed, saved, charged} \subseteq [Slots -> 0..Interval]
  /\ unsaved \subseteq Slots
  /\ poller \in Poller

Init ==
  /\ upstream \in BOOLEAN /\ priming \in BOOLEAN
  /\ enabled = Slots /\ used = {}
  /\ window \in [Workspaces -> {None, Window}]
  /\ plan = [s \in Slots |-> None]
  /\ grace = [s \in Slots |-> None]
  /\ primed = [s \in Slots |-> 0] /\ saved = primed /\ charged = primed
  /\ unsaved = {}
  /\ poller = At("choosing", None)

(* --- the schedule ------------------------------------------------------- *)
NoLater(by, next) == IF by = None THEN next ELSE IF by < next THEN by ELSE next

NextAt(p, active) == NoLater(p.by, IF active THEN p.active ELSE p.idle)

\* due: the most overdue account, the first listed of equals.
MutantFirstListed(plans) ==
  LET over == {s \in Slots : NextAt(plans[s], s \in used) <= 0}
  IN  {s \in over : \A t \in over : Ord[s] <= Ord[t]}

Due(plans) ==
  LET at(s) == NextAt(plans[s], s \in used)
      over  == {s \in Slots : at(s) <= 0}
  IN  {s \in over : \A t \in over \ {s} :
         at(s) < at(t) \/ (at(s) = at(t) /\ Ord[s] < Ord[t])}

NewPlan(first) == [active |-> first, idle |-> first, by |-> None]

\* polled, wake_at and poll_by, as the loop calls them after a poll.
\* Without a reset still ahead the idle gap stays.
Replanned(gap, idle, delay, reported, due) ==
  [active |-> gap,
   idle   |-> IF reported # None THEN reported + delay ELSE idle,
   by     |-> IF due = None THEN None ELSE IF due > 0 THEN due ELSE 0]

\* The poll of s is over; the snapshot then stored reports this reset.
Polled(s, reported) ==
  /\ \E gap \in Gaps, idle \in IdleGaps, delay \in WakeDelays :
       plan' = [plan EXCEPT ![s] = Replanned(gap, idle, delay, reported, grace'[s])]
  /\ poller' = At("pausing", None)

\* One turn of the loop: list, plan what is new, take what is due.
Choose ==
  /\ poller.at = "choosing" /\ upstream
  /\ \E first \in [{s \in Slots : plan[s] = None} -> 0..Spread] :
       plan' = [s \in Slots |-> IF plan[s] = None THEN NewPlan(first[s]) ELSE plan[s]]
  /\ poller' \in IF Due(plan') = {} THEN {At("pausing", None)}
                 ELSE {At("reading", s) : s \in Due(plan')}
  /\ UNCHANGED <<switches, used, window, grace, primed, file, charged>>

(* --- one poll: the reading, then the prime ------------------------------ *)
Reported(s) == IF window[WorkspaceOf[s]] = None THEN Window ELSE window[WorkspaceOf[s]]

\* quota_prime_identity_owner: the lowest enabled account of the workspace.
Owner(s) == \A t \in enabled : WorkspaceOf[t] = WorkspaceOf[s] => Ord[s] <= Ord[t]

MayPrime(s)  == priming /\ s \in enabled /\ Owner(s)
Untouched(s) == window[WorkspaceOf[s]] = None

\* prime_grace_elapsed: the wait starts when the window is first seen
\* untouched, and is kept until it is over.
MutantStartsOver(s, g) == g

GraceFrom(s, g) == IF grace[s] = None THEN g ELSE grace[s]

Waited(s) == \A g \in Graces : GraceFrom(s, g) <= 0

\* Whatever is saved saves the attempts too, unless it cannot be written.
Saves == (saved' = primed /\ unsaved' = {}) \/ UNCHANGED file

Read(s) ==
  /\ poller = At("reading", s)
  /\ upstream
  /\ UNCHANGED <<switches, used, window>>

\* A reading stores its snapshot, or its error, and saves.
Only == Saves /\ UNCHANGED <<primed, charged>>

\* Priming is off, or another account's: nothing else is looked at.
ReadNotPrimable(s) ==
  /\ Read(s) /\ ~ MayPrime(s)
  /\ UNCHANGED grace /\ Only /\ Polled(s, Reported(s))

ReadStarted(s) ==
  /\ Read(s) /\ MayPrime(s) /\ ~ Untouched(s)
  /\ grace' = [grace EXCEPT ![s] = None]
  /\ Only /\ Polled(s, Reported(s))

ReadWaits(s) ==
  /\ Read(s) /\ MayPrime(s) /\ Untouched(s) /\ ~ Waited(s)
  /\ \E g \in Graces : grace' = [grace EXCEPT ![s] = GraceFrom(s, g)]
  /\ Only /\ Polled(s, Reported(s))

\* The grace is over, but the model cools down or the interval still runs.
ReadBlocked(s) ==
  /\ Read(s) /\ MayPrime(s) /\ Untouched(s) /\ Waited(s)
  /\ grace' = [grace EXCEPT ![s] = None]
  /\ Only /\ Polled(s, Reported(s))

\* The attempt is recorded before it is made.
MutantRecordsNothing(s) == primed

Recorded(s) == [primed EXCEPT ![s] = Interval]

\* The reading saves, then the attempt is saved; when that cannot be written the
\* prime is sent all the same.
AttemptSaved(s) ==
  \/ saved' = primed' /\ unsaved' = {}
  \/ saved' = primed /\ unsaved' = {s}
  \/ saved' = saved /\ unsaved' = unsaved \cup {s}

PrimeBegins(s) ==
  /\ Read(s) /\ MayPrime(s) /\ Untouched(s) /\ Waited(s)
  /\ primed[s] = 0
  /\ grace' = [grace EXCEPT ![s] = None]
  /\ primed' = Recorded(s) /\ AttemptSaved(s)
  /\ charged' = [charged EXCEPT ![s] = Interval]
  /\ poller' = At("priming", s)
  /\ UNCHANGED plan

\* The reading fails (the switch included): the error hides the snapshot.
ReadFails(s) ==
  /\ poller = At("reading", s)
  /\ UNCHANGED <<switches, used, window, grace>> /\ Only
  /\ Polled(s, None)

\* Upstream refused these tokens for good: nothing is asked, and the
\* snapshot is whatever an earlier refresh stored.
ReadSkipped(s) ==
  /\ poller = At("reading", s)
  /\ UNCHANGED <<switches, used, window, grace, primed, file, charged>>
  /\ \E stored \in 1..Window \cup {None} : Polled(s, stored)

\* A request starts the countdown of a window nobody has spent from.
Spend(i) == window' = [window EXCEPT ![i] = IF @ = None THEN Window ELSE @]

PrimeArrives(s) ==
  /\ poller = At("priming", s)
  /\ upstream
  /\ Spend(WorkspaceOf[s])
  /\ UNCHANGED <<switches, used, grace, primed, file, charged>>
  /\ Polled(s, Window)

PrimeFails(s) ==
  /\ poller = At("priming", s)
  /\ UNCHANGED <<switches, used, window, grace, primed, file, charged>>
  /\ Polled(s, Window)

(* --- time, the owner, the clients --------------------------------------- *)
Nearer(t) == IF t = None THEN None ELSE IF t > -Late THEN t - 1 ELSE t

Elapsed(left) == [s \in Slots |-> IF left[s] = 0 THEN 0 ELSE left[s] - 1]

\* The pause ends, or the loop has slept because the switch is off.
Tick ==
  /\ poller.at = "pausing" \/ (poller.at = "choosing" /\ ~ upstream)
  /\ poller' = At("choosing", None)
  /\ window' = [i \in Workspaces |-> IF window[i] = 1 THEN None ELSE Nearer(window[i])]
  /\ grace' = [s \in Slots |-> Nearer(grace[s])]
  /\ primed' = Elapsed(primed) /\ saved' = Elapsed(saved) /\ charged' = Elapsed(charged)
  /\ plan' = [s \in Slots |->
       IF plan[s] = None THEN None
       ELSE [active |-> Nearer(plan[s].active), idle |-> Nearer(plan[s].idle),
             by |-> Nearer(plan[s].by)]]
  /\ unsaved' = {s \in unsaved : charged'[s] > 0}
  /\ UNCHANGED <<switches, used>>

\* A request the pool routes to s, its outcome saved.
Request(s) ==
  /\ upstream /\ s \in enabled
  /\ used' = used \cup {s}
  /\ Spend(WorkspaceOf[s])
  /\ Only /\ UNCHANGED <<switches, plan, grace, poller>>

\* ACTIVE_WINDOW after the last one.
Quiet(s) ==
  /\ s \in used
  /\ used' = used \ {s}
  /\ UNCHANGED <<switches, window, plan, grace, primed, file, poller, charged>>

Switch ==
  /\ \/ upstream' = ~ upstream /\ UNCHANGED <<priming, enabled>>
     \/ priming' = ~ priming /\ UNCHANGED <<upstream, enabled>>
     \/ \E s \in Slots :
          /\ enabled' = IF s \in enabled THEN enabled \ {s} ELSE enabled \cup {s}
          /\ UNCHANGED <<upstream, priming>>
  /\ Only /\ UNCHANGED <<used, window, plan, grace, poller>>

\* The schedule, the waits and the activity are in memory only, and an attempt
\* that could not be saved: the observer forgives that one.
Restart ==
  /\ plan' = [s \in Slots |-> None]
  /\ grace' = [s \in Slots |-> None]
  /\ used' = {}
  /\ poller' = At("choosing", None)
  /\ primed' = saved
  /\ charged' = [s \in Slots |-> IF s \in unsaved THEN 0 ELSE charged[s]]
  /\ unsaved' = {}
  /\ UNCHANGED <<switches, window, saved>>

ReadEnds(s) ==
  \/ ReadNotPrimable(s) \/ ReadStarted(s) \/ ReadWaits(s)
  \/ ReadBlocked(s) \/ PrimeBegins(s) \/ ReadFails(s) \/ ReadSkipped(s)

PrimeEnds(s) == PrimeArrives(s) \/ PrimeFails(s)

Poll == Choose \/ \E s \in Slots : ReadEnds(s) \/ PrimeEnds(s)

Next ==
  \/ Poll \/ Tick \/ Switch \/ Restart
  \/ \E s \in Slots : Request(s) \/ Quiet(s)

Spec == Init /\ [][Next]_vars

(* The loop runs and time passes.  Upstream answers an account it is asked *)
(* about again and again, and a prime tried again and again goes through.  *)
Fairness ==
  /\ WF_vars(Poll) /\ WF_vars(Tick)
  /\ SF_vars(\E s \in Slots : ReadWaits(s))
  /\ SF_vars(\E s \in Slots : PrimeBegins(s))
  /\ SF_vars(\E s \in Slots : PrimeArrives(s))

FairSpec == Spec /\ Fairness
=============================================================================
