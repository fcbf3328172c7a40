-------------------------- MODULE QuotaCycleProofs --------------------------
(***************************************************************************)
(* The plan of every account, the waits and the intervals keep their       *)
(* bounds, and no account is primed again within the interval: for every   *)
(* set of accounts, every draw of the gaps, every failed save and every    *)
(* restart.                                                                *)
(***************************************************************************)
EXTENDS QuotaCycleProperties, TLAPS

\* Memory knows of every prime that counts, and so does the file unless its save
\* has failed and no other has been made since.
Counted ==
  /\ \A s \in Slots : charged[s] <= primed[s]
  /\ \A s \in Slots \ unsaved : charged[s] <= saved[s]

IInv == TypeOK /\ Counted

LEMMA PollerTypes ==
  /\ At("choosing", None) \in Poller /\ At("pausing", None) \in Poller
  /\ \A s \in Slots : At("reading", s) \in Poller /\ At("priming", s) \in Poller
BY DEF At, Poller

LEMMA InitialInv == Init => IInv
<1> SUFFICES ASSUME Init
             PROVE  IInv
  OBVIOUS
<1>1. window \in [Workspaces -> 1..Window \cup {None}]
  BY QuotaAssumption DEF Init
<1>2. primed \in [Slots -> 0..Interval] /\ saved = primed /\ charged = primed
  BY QuotaAssumption DEF Init
<1>3. TypeOK
  BY <1>1, <1>2, PollerTypes DEF Init, TypeOK
<1>4. Counted
  BY <1>2 DEF Init, Counted
<1>5. QED BY <1>3, <1>4 DEF IInv

-----------------------------------------------------------------------------
(* The operators                                                            *)

LEMMA NearerTypes ==
  \A t \in Instant \cup {None} :
    /\ Nearer(t) \in Instant \cup {None}
    /\ t \in Instant => Nearer(t) \in Instant
BY QuotaAssumption DEF Nearer, Instant

LEMMA GraceTypes ==
  ASSUME TypeOK, NEW s \in Slots, NEW g \in Graces
  PROVE  GraceFrom(s, g) \in Instant \cup {None}
BY QuotaAssumption DEF TypeOK, GraceFrom, Instant

LEMMA ReplannedTypes ==
  ASSUME NEW gap \in Gaps, NEW idle \in IdleGaps, NEW delay \in WakeDelays,
         NEW reported \in 1..Window \cup {None}, NEW due \in Instant \cup {None}
  PROVE  Replanned(gap, idle, delay, reported, due) \in Plan
<1>1. gap \in Instant /\ idle \in Instant /\ 0 \in Instant
  BY QuotaAssumption DEF Instant
<1>2. reported # None => reported + delay \in Instant
  BY QuotaAssumption DEF Instant
<1>3. QED BY <1>1, <1>2 DEF Replanned, Plan

(* What the end of a poll writes is a plan, and the loop pauses.            *)
LEMMA PolledTypes ==
  ASSUME TypeOK, NEW s \in Slots, NEW reported \in 1..Window \cup {None},
         grace' \in [Slots -> Instant \cup {None}], Polled(s, reported)
  PROVE  plan' \in [Slots -> Plan \cup {None}] /\ poller' \in Poller
<1>1. PICK gap \in Gaps, idle \in IdleGaps, delay \in WakeDelays :
        plan' = [plan EXCEPT ![s] = Replanned(gap, idle, delay, reported, grace'[s])]
  BY DEF Polled
<1>2. Replanned(gap, idle, delay, reported, grace'[s]) \in Plan
  BY ReplannedTypes
<1>3. plan' \in [Slots -> Plan \cup {None}]
  BY <1>1, <1>2 DEF TypeOK
<1>4. poller' = At("pausing", None)
  BY DEF Polled
<1>5. QED BY <1>3, <1>4, PollerTypes

LEMMA ReportedTypes ==
  ASSUME TypeOK, NEW s \in Slots
  PROVE  Reported(s) \in 1..Window
BY QuotaAssumption DEF TypeOK, Reported, Workspaces

LEMMA SpendTypes ==
  ASSUME TypeOK, NEW s \in Slots, Spend(WorkspaceOf[s])
  PROVE  window' \in [Workspaces -> 1..Window \cup {None}]
<1>1. 1..Window \subseteq 1..Window \cup {None} /\ Window \in 1..Window
  BY QuotaAssumption
<1>2. QED BY <1>1 DEF TypeOK, Spend

-----------------------------------------------------------------------------
(* The steps                                                                *)

LEMMA StutterKeeps == IInv /\ UNCHANGED vars => IInv'
BY DEF IInv, TypeOK, Counted, vars, file, switches

\* What is in memory, on disk and observed of the attempts.
Attempts ==
  /\ primed \in [Slots -> 0..Interval] /\ saved \in [Slots -> 0..Interval]
  /\ charged \in [Slots -> 0..Interval] /\ unsaved \subseteq Slots

(* A save that succeeds or fails, and a step that saves nothing.            *)
LEMMA SavingKeeps ==
  ASSUME IInv, Only \/ UNCHANGED <<primed, file, charged>>
  PROVE  Attempts' /\ Counted'
BY DEF IInv, TypeOK, Attempts, Counted, Only, Saves, file

LEMMA ChooseKeeps == IInv /\ Choose => IInv'
<1> SUFFICES ASSUME IInv, Choose
             PROVE  IInv'
  OBVIOUS
<1>1. PICK first \in [{s \in Slots : plan[s] = None} -> 0..Spread] :
        plan' = [s \in Slots |-> IF plan[s] = None THEN NewPlan(first[s]) ELSE plan[s]]
  BY DEF Choose
<1>2. plan' \in [Slots -> Plan \cup {None}]
  <2>1. ASSUME NEW s \in Slots, plan[s] = None
        PROVE  NewPlan(first[s]) \in Plan
    <3>1. first[s] \in Instant
      BY <2>1, QuotaAssumption DEF Instant
    <3>2. QED BY <3>1 DEF NewPlan, Plan
  <2>2. QED BY <1>1, <2>1 DEF IInv, TypeOK
<1>3. poller' = At("pausing", None) \/ \E s \in Slots : poller' = At("reading", s)
  BY DEF Choose, Due
<1>4. poller' \in Poller
  BY <1>3, PollerTypes
<1>5. Attempts' /\ Counted'
  BY SavingKeeps DEF Choose
<1>6. QED BY <1>2, <1>4, <1>5 DEF IInv, TypeOK, Attempts, Choose, switches

LEMMA ReadEndsKeeps ==
  ASSUME IInv, NEW s \in Slots, ReadEnds(s)
  PROVE  IInv'
<1>1. Reported(s) \in 1..Window \cup {None}
  BY ReportedTypes DEF IInv
<1>2. CASE ReadNotPrimable(s)
  <2>1. grace' \in [Slots -> Instant \cup {None}]
    BY <1>2 DEF IInv, TypeOK, ReadNotPrimable
  <2>2. Polled(s, Reported(s))
    BY <1>2 DEF ReadNotPrimable
  <2>3. Attempts' /\ Counted'
    BY <1>2, SavingKeeps DEF ReadNotPrimable
  <2>4. QED BY <1>1, <1>2, <2>1, <2>2, <2>3, PolledTypes
             DEF IInv, TypeOK, Attempts, ReadNotPrimable, Read, switches
<1>3. CASE ReadStarted(s)
  <2>1. grace' \in [Slots -> Instant \cup {None}]
    BY <1>3 DEF IInv, TypeOK, ReadStarted
  <2>2. Polled(s, Reported(s))
    BY <1>3 DEF ReadStarted
  <2>3. Attempts' /\ Counted'
    BY <1>3, SavingKeeps DEF ReadStarted
  <2>4. QED BY <1>1, <1>3, <2>1, <2>2, <2>3, PolledTypes
             DEF IInv, TypeOK, Attempts, ReadStarted, Read, switches
<1>4. CASE ReadWaits(s)
  <2>1. PICK g \in Graces : grace' = [grace EXCEPT ![s] = GraceFrom(s, g)]
    BY <1>4 DEF ReadWaits
  <2>2. grace' \in [Slots -> Instant \cup {None}]
    BY <2>1, GraceTypes DEF IInv, TypeOK
  <2>3. Polled(s, Reported(s))
    BY <1>4 DEF ReadWaits
  <2>4. Attempts' /\ Counted'
    BY <1>4, SavingKeeps DEF ReadWaits
  <2>5. QED BY <1>1, <1>4, <2>2, <2>3, <2>4, PolledTypes
             DEF IInv, TypeOK, Attempts, ReadWaits, Read, switches
<1>5. CASE ReadBlocked(s)
  <2>1. grace' \in [Slots -> Instant \cup {None}]
    BY <1>5 DEF IInv, TypeOK, ReadBlocked
  <2>2. Polled(s, Reported(s))
    BY <1>5 DEF ReadBlocked
  <2>3. Attempts' /\ Counted'
    BY <1>5, SavingKeeps DEF ReadBlocked
  <2>4. QED BY <1>1, <1>5, <2>1, <2>2, <2>3, PolledTypes
             DEF IInv, TypeOK, Attempts, ReadBlocked, Read, switches
<1>6. CASE PrimeBegins(s)
  \* The attempt counts from here; its save may fail, and the reading's too.
  <2>1. grace' \in [Slots -> Instant \cup {None}]
    BY <1>6 DEF IInv, TypeOK, PrimeBegins
  <2>2. /\ primed' = [primed EXCEPT ![s] = Interval]
        /\ charged' = [charged EXCEPT ![s] = Interval]
    BY <1>6 DEF PrimeBegins, Recorded
  <2>3. primed' \in [Slots -> 0..Interval] /\ charged' \in [Slots -> 0..Interval]
    BY <2>2, QuotaAssumption DEF IInv, TypeOK
  <2>4. /\ primed'[s] = Interval /\ charged'[s] = Interval /\ Interval <= Interval
        /\ \A t \in Slots \ {s} : primed'[t] = primed[t] /\ charged'[t] = charged[t]
    BY <2>2, QuotaAssumption DEF IInv, TypeOK
  <2>5. \A t \in Slots : charged'[t] <= primed'[t]
    BY <2>4 DEF IInv, Counted
  <2>6. ASSUME saved' = primed', unsaved' = {}
        PROVE  Attempts' /\ Counted'
    <3>1. saved' \in [Slots -> 0..Interval] /\ \A t \in Slots : charged'[t] <= saved'[t]
      BY <2>3, <2>5, <2>6
    <3>2. QED BY <2>3, <2>5, <2>6, <3>1 DEF Attempts, Counted
  <2>7. ASSUME \/ saved' = primed /\ unsaved' = {s}
               \/ saved' = saved /\ unsaved' = unsaved \cup {s}
        PROVE  Attempts' /\ Counted'
    <3>1. saved' \in [Slots -> 0..Interval] /\ unsaved' \subseteq Slots /\ s \in unsaved'
      BY <2>7 DEF IInv, TypeOK
    <3>2. ASSUME NEW t \in Slots \ unsaved'
          PROVE  charged'[t] <= saved'[t]
      <4>1. t # s /\ charged'[t] = charged[t]
        BY <2>4, <3>1
      <4>2. charged[t] <= saved'[t]
        BY <2>7, <3>2, <4>1 DEF IInv, Counted
      <4>3. QED BY <4>1, <4>2
    <3>3. QED BY <2>3, <2>5, <3>1, <3>2 DEF Attempts, Counted
  <2>8. Attempts' /\ Counted'
    <3>1. AttemptSaved(s)
      BY <1>6 DEF PrimeBegins
    <3>2. QED BY <2>6, <2>7, <3>1 DEF AttemptSaved
  <2>9. poller' \in Poller
    BY <1>6, PollerTypes DEF PrimeBegins
  <2>10. QED BY <1>6, <2>1, <2>8, <2>9 DEF IInv, TypeOK, Attempts, PrimeBegins, Read, switches
<1>7. CASE ReadFails(s)
  <2>1. grace' \in [Slots -> Instant \cup {None}]
    BY <1>7 DEF IInv, TypeOK, ReadFails
  <2>2. Polled(s, None)
    BY <1>7 DEF ReadFails
  <2>3. Attempts' /\ Counted'
    BY <1>7, SavingKeeps DEF ReadFails
  <2>4. QED BY <1>7, <2>1, <2>2, <2>3, PolledTypes
             DEF IInv, TypeOK, Attempts, ReadFails, switches
<1>8. CASE ReadSkipped(s)
  <2>1. grace' \in [Slots -> Instant \cup {None}]
    BY <1>8 DEF IInv, TypeOK, ReadSkipped
  <2>2. PICK stored \in 1..Window \cup {None} : Polled(s, stored)
    BY <1>8 DEF ReadSkipped
  <2>3. Attempts' /\ Counted'
    BY <1>8, SavingKeeps DEF ReadSkipped
  <2>4. QED BY <1>8, <2>1, <2>2, <2>3, PolledTypes
             DEF IInv, TypeOK, Attempts, ReadSkipped, switches
<1>9. QED BY <1>2, <1>3, <1>4, <1>5, <1>6, <1>7, <1>8 DEF ReadEnds

LEMMA PrimeEndsKeeps ==
  ASSUME IInv, NEW s \in Slots, PrimeEnds(s)
  PROVE  IInv'
<1>1. Window \in 1..Window \cup {None}
  BY QuotaAssumption
<1>2. grace' \in [Slots -> Instant \cup {None}] /\ Polled(s, Window)
  BY DEF IInv, TypeOK, PrimeEnds, PrimeArrives, PrimeFails
<1>3. plan' \in [Slots -> Plan \cup {None}] /\ poller' \in Poller
  BY <1>1, <1>2, PolledTypes DEF IInv
<1>4. window' \in [Workspaces -> 1..Window \cup {None}]
  <2>1. CASE PrimeArrives(s)
    BY <2>1, SpendTypes DEF IInv, PrimeArrives
  <2>2. CASE PrimeFails(s)
    BY <2>2 DEF IInv, TypeOK, PrimeFails
  <2>3. QED BY <2>1, <2>2 DEF PrimeEnds
<1>5. UNCHANGED <<switches, used, grace, primed, file, charged>>
  BY DEF PrimeEnds, PrimeArrives, PrimeFails
<1>6. Attempts' /\ Counted'
  BY <1>5, SavingKeeps
<1>7. QED BY <1>3, <1>4, <1>5, <1>6 DEF IInv, TypeOK, Attempts, switches

(* Time takes the same from what is in memory, on disk and observed.        *)
LEMMA TickKeeps == IInv /\ Tick => IInv'
<1> SUFFICES ASSUME IInv, Tick
             PROVE  IInv'
  OBVIOUS
<1>1. window' \in [Workspaces -> 1..Window \cup {None}]
  <2>1. ASSUME NEW i \in Workspaces, window[i] # 1
        PROVE  Nearer(window[i]) \in 1..Window \cup {None}
    BY <2>1, QuotaAssumption DEF IInv, TypeOK, Nearer
  <2>2. QED BY <2>1 DEF Tick
<1>2. grace' \in [Slots -> Instant \cup {None}]
  BY NearerTypes DEF IInv, TypeOK, Tick
<1>3. Attempts' /\ Counted'
  <2>1. ASSUME NEW left \in [Slots -> 0..Interval]
        PROVE  /\ Elapsed(left) \in [Slots -> 0..Interval]
               /\ \A s \in Slots : Elapsed(left)[s] = IF left[s] = 0 THEN 0 ELSE left[s] - 1
    BY QuotaAssumption DEF Elapsed
  <2>2. Attempts'
    BY <2>1 DEF IInv, TypeOK, Attempts, Tick
  <2>3. ASSUME NEW s \in Slots
        PROVE  charged'[s] <= primed'[s]
    <3>1. charged[s] <= primed[s] /\ charged[s] \in 0..Interval /\ primed[s] \in 0..Interval
      BY DEF IInv, TypeOK, Counted
    <3>2. /\ charged'[s] = IF charged[s] = 0 THEN 0 ELSE charged[s] - 1
          /\ primed'[s] = IF primed[s] = 0 THEN 0 ELSE primed[s] - 1
      BY <2>1 DEF IInv, TypeOK, Tick
    <3>3. QED BY <3>1, <3>2, QuotaAssumption
  <2>4. ASSUME NEW s \in Slots, s \notin unsaved'
        PROVE  charged'[s] <= saved'[s]
    <3>1. CASE s \in unsaved
      <4>1. ~ (charged'[s] > 0)
        BY <2>4, <3>1 DEF Tick
      <4>2. charged'[s] \in 0..Interval /\ saved'[s] \in 0..Interval
        BY <2>2 DEF Attempts
      <4>3. QED BY <4>1, <4>2, QuotaAssumption
    <3>2. CASE s \notin unsaved
      <4>1. charged[s] <= saved[s] /\ charged[s] \in 0..Interval /\ saved[s] \in 0..Interval
        BY <3>2 DEF IInv, TypeOK, Counted
      <4>2. /\ charged'[s] = IF charged[s] = 0 THEN 0 ELSE charged[s] - 1
            /\ saved'[s] = IF saved[s] = 0 THEN 0 ELSE saved[s] - 1
        BY <2>1 DEF IInv, TypeOK, Tick
      <4>3. QED BY <4>1, <4>2, QuotaAssumption
    <3>3. QED BY <3>1, <3>2
  <2>5. QED BY <2>2, <2>3, <2>4 DEF Counted
<1>4. plan' \in [Slots -> Plan \cup {None}]
  <2>1. ASSUME NEW s \in Slots, plan[s] # None
        PROVE  [active |-> Nearer(plan[s].active), idle |-> Nearer(plan[s].idle),
                by |-> Nearer(plan[s].by)] \in Plan
    <3>1. plan[s] \in Plan
      BY <2>1 DEF IInv, TypeOK
    <3>2. plan[s].active \in Instant /\ plan[s].idle \in Instant
            /\ plan[s].by \in Instant \cup {None}
      BY <3>1 DEF Plan
    <3>3. QED BY <3>2, NearerTypes DEF Plan
  <2>2. QED BY <2>1 DEF Tick
<1>5. poller' \in Poller
  BY PollerTypes DEF Tick
<1>6. QED BY <1>1, <1>2, <1>3, <1>4, <1>5 DEF IInv, TypeOK, Attempts, Tick, switches

LEMMA OthersKeep ==
  ASSUME IInv, Switch \/ Restart \/ \E s \in Slots : Request(s) \/ Quiet(s)
  PROVE  IInv'
<1>1. CASE Switch
  <2>1. Attempts' /\ Counted'
    BY <1>1, SavingKeeps DEF Switch
  <2>2. QED BY <1>1, <2>1 DEF IInv, TypeOK, Attempts, Switch
<1>2. CASE Restart
  \* What the file does not know is forgiven.
  <2>1. primed' = saved /\ saved' = saved /\ unsaved' = {}
    BY <1>2 DEF Restart
  <2>2. charged' \in [Slots -> 0..Interval]
    BY <1>2, QuotaAssumption DEF IInv, TypeOK, Restart
  <2>3. \A s \in Slots : charged'[s] <= saved[s]
    BY <1>2, QuotaAssumption DEF IInv, TypeOK, Counted, Restart
  <2>4. Attempts' /\ Counted'
    BY <2>1, <2>2, <2>3 DEF IInv, TypeOK, Attempts, Counted
  <2>5. QED BY <1>2, <2>4, PollerTypes DEF IInv, TypeOK, Attempts, Restart, switches
<1>3. ASSUME NEW s \in Slots, Request(s)
      PROVE  IInv'
  <2>1. window' \in [Workspaces -> 1..Window \cup {None}]
    BY <1>3, SpendTypes DEF IInv, Request
  <2>2. Attempts' /\ Counted'
    BY <1>3, SavingKeeps DEF Request
  <2>3. QED BY <1>3, <2>1, <2>2 DEF IInv, TypeOK, Attempts, Request, switches
<1>4. ASSUME NEW s \in Slots, Quiet(s)
      PROVE  IInv'
  <2>1. Attempts' /\ Counted'
    BY <1>4, SavingKeeps DEF Quiet
  <2>2. QED BY <1>4, <2>1 DEF IInv, TypeOK, Attempts, Quiet, switches
<1>5. QED BY <1>1, <1>2, <1>3, <1>4

LEMMA StepKeeps == IInv /\ [Next]_vars => IInv'
<1> SUFFICES ASSUME IInv, [Next]_vars
             PROVE  IInv'
  OBVIOUS
<1>1. CASE Poll
  BY <1>1, ChooseKeeps, ReadEndsKeeps, PrimeEndsKeeps DEF Poll
<1>2. QED BY <1>1, StutterKeeps, TickKeeps, OthersKeep DEF Next

-----------------------------------------------------------------------------
(* Every plan, wait and interval is within its bounds.                      *)
THEOREM TypeCorrect == Spec => []TypeOK
<1>1. IInv => TypeOK
  BY DEF IInv
<1>2. QED BY <1>1, InitialInv, StepKeeps, PTL DEF Spec

(* No account is primed again within the interval, unless the process      *)
(* restarted with the earlier attempt unwritten (prime.rs                   *)
(* prime_unanchored_quota_window): a prime begins only when memory counts   *)
(* none, memory counts all that the observer does, and so does the file a   *)
(* restart loads, but for what no save has written.                         *)
THEOREM PrimesAreSpaced == Spec => PrimedOncePerInterval
<1>1. ASSUME IInv, [Next]_vars, NEW s \in Slots, poller # poller', poller' = At("priming", s)
      PROVE  charged[s] = 0
  <2>1. PICK t \in Slots : PrimeBegins(t)
    <3>1. poller' # At("pausing", None) /\ poller' # At("choosing", None)
            /\ \A t \in Slots : poller' # At("reading", t)
      BY <1>1 DEF At
    <3>2. poller' # poller /\ ~ Choose /\ ~ Tick /\ ~ Restart /\ ~ Switch
      BY <1>1, <3>1 DEF Choose, Due, Tick, Restart, Switch
    <3>3. \A t \in Slots : ~ Request(t) /\ ~ Quiet(t) /\ ~ PrimeEnds(t)
      BY <3>1, <3>2 DEF Request, Quiet, PrimeEnds, PrimeArrives, PrimeFails, Polled
    <3>4. PICK t \in Slots : ReadEnds(t)
      BY <1>1, <3>2, <3>3 DEF Next, Poll, vars
    <3>5. QED BY <3>1, <3>4
              DEF ReadEnds, ReadNotPrimable, ReadStarted, ReadWaits, ReadBlocked, ReadFails,
                  ReadSkipped, Polled
  <2>2. t = s
    BY <1>1, <2>1 DEF PrimeBegins, At
  <2>3. primed[s] = 0
    BY <2>1, <2>2 DEF PrimeBegins
  <2>4. charged[s] \in 0..Interval /\ charged[s] <= primed[s]
    BY <1>1 DEF IInv, TypeOK, Counted
  <2>5. QED BY <2>3, <2>4, QuotaAssumption
<1>2. IInv /\ [Next]_vars =>
        [\A s \in Slots : poller # poller' /\ poller' = At("priming", s) => charged[s] = 0]_vars
  BY <1>1
<1>3. QED BY <1>2, InitialInv, StepKeeps, PTL DEF Spec, PrimedOncePerInterval
=============================================================================
