------------------------- MODULE TokenRefreshProofs -------------------------
(***************************************************************************)
(* Theorems about TokenRefresh, for any number of callers, of exchanges    *)
(* and of tokens.                                                          *)
(***************************************************************************)
EXTENDS TokenRefreshProperties, TLAPS

-----------------------------------------------------------------------------
(* Types                                                                    *)

LEMMA TokenType == 0 \in Token /\ Empty \in Pair
BY TokenAssumption DEF Token, Empty, Pair

LEMMA IdleType == Idle \in Caller /\ NoTask \in Task
BY TokenType DEF Idle, Caller, Kind, NoTask, Task

LEMMA InitType == Init => TypeOK
<1>1. Init => auth \in Pair \cup {None} /\ issued \in Token /\ expiring \in BOOLEAN
  BY TokenType DEF Init
<1>2. Init => refused \in [tokens : Pair, reason : Reason] \cup {None}
  BY DEF Init
<1>3. Init => caller \in [Callers -> Caller] /\ task \in [Tasks -> Task]
  BY IdleType DEF Init
<1>4. Init => server \in Server /\ rejected \subseteq Token /\ replaced \subseteq Token
  BY DEF Init, Server
<1>5. QED BY <1>1, <1>2, <1>3, <1>4 DEF TypeOK

LEMMA DoneType ==
  ASSUME TypeOK, NEW c \in Callers, Done(c)
  PROVE  caller' \in [Callers -> Caller]
BY IdleType DEF Done, TypeOK

LEMMA ContinueType ==
  ASSUME TypeOK, NEW c \in Callers, Continue(c)
  PROVE  caller' \in [Callers -> Caller]
<1>1. CASE Done(c)
  BY <1>1, DoneType
<1>2. CASE /\ auth # None
           /\ caller' = [caller EXCEPT ![c] = [caller[c] EXCEPT !.at = "use", !.access = auth.access]]
  <2>1. caller[c] \in Caller /\ auth.access \in Token
    BY <1>2 DEF TypeOK, Pair
  <2>2. [caller[c] EXCEPT !.at = "use", !.access = auth.access] \in Caller
    BY <2>1 DEF Caller
  <2>3. QED BY <1>2, <2>2 DEF TypeOK
<1>3. QED BY <1>1, <1>2 DEF Continue

LEMMA SettleType ==
  ASSUME TypeOK, NEW x \in Tasks, NEW ok \in BOOLEAN, Settle(x, ok)
  PROVE  caller' \in [Callers -> Caller] /\ task' \in [Tasks -> Task]
<1>1. task' \in [Tasks -> Task]
  BY IdleType DEF Settle, TypeOK
<1> DEFINE c == task[x].by
<1>2. CASE caller' = caller
  BY <1>1, <1>2 DEF TypeOK
<1>3. CASE caller' # caller
  <2>1. caller' = [caller EXCEPT ![c] = IF ok THEN [caller[c] EXCEPT !.at = "read"] ELSE Idle]
    BY <1>3 DEF Settle
  <2>2. c \in Callers
    BY <2>1, <1>3 DEF TypeOK
  <2>3. caller[c] \in Caller
    BY <2>2 DEF TypeOK
  <2>4. [caller[c] EXCEPT !.at = "read"] \in Caller
    BY <2>3 DEF Caller
  <2>5. QED BY <1>1, <2>1, <2>4, IdleType DEF TypeOK
<1>4. QED BY <1>2, <1>3

\* What the actions leave alone keeps its type.
Others == /\ auth \in Pair \cup {None} /\ issued \in Token /\ expiring \in BOOLEAN
          /\ refused \in [tokens : Pair, reason : Reason] \cup {None}
          /\ server \in Server /\ rejected \subseteq Token /\ replaced \subseteq Token

LEMMA Parts == TypeOK <=> Others /\ caller \in [Callers -> Caller] /\ task \in [Tasks -> Task]
BY DEF TypeOK, Others

LEMMA RecordType ==
  ASSUME NEW tokens \in Pair, NEW reason \in Reason, Record(tokens, reason)
  PROVE  refused' \in [tokens : Pair, reason : Reason] \cup {None}
BY DEF Record

LEMMA ConsultType ==
  ASSUME TypeOK, Consult
  PROVE  refused' \in [tokens : Pair, reason : Reason] \cup {None}
BY DEF Consult, TypeOK

LEMMA BeginType ==
  ASSUME TypeOK, NEW c \in Callers, NEW kind \in Kind, Begin(c, kind),
         refused' \in [tokens : Pair, reason : Reason] \cup {None}
  PROVE  TypeOK'
<1>1. [Idle EXCEPT !.at = "lock", !.kind = kind] \in Caller
  BY IdleType DEF Caller
<1>2. caller' \in [Callers -> Caller]
  BY <1>1 DEF Begin, TypeOK
<1>3. QED BY <1>2 DEF Begin, TypeOK

LEMMA SpawnType ==
  ASSUME TypeOK, NEW c \in Callers, NEW x \in Tasks, Spawn(c, x), auth # None
  PROVE  caller' \in [Callers -> Caller] /\ task' \in [Tasks -> Task]
<1>1. caller[c] \in Caller /\ auth \in Pair /\ server \in Server
  BY DEF TypeOK
<1>2. (server = "leaving") \in BOOLEAN
  OBVIOUS
<1>3. [NoTask EXCEPT !.at = "sent", !.by = c, !.tokens = auth,
                     !.forced = caller[c].forced, !.late = server = "leaving"] \in Task
  BY <1>1, <1>2, IdleType DEF Task, Caller
<1>4. [caller[c] EXCEPT !.at = "exchange"] \in Caller
  BY <1>1 DEF Caller
<1>5. QED BY <1>3, <1>4 DEF Spawn, TypeOK

LEMMA EnterType ==
  ASSUME TypeOK, NEW c \in Callers, Enter(c)
  PROVE  TypeOK'
<1>1. UNCHANGED <<auth, issued, expiring, server, rejected, replaced>>
  BY DEF Enter
<1>2. CASE NoRefresh(c) /\ Continue(c) /\ UNCHANGED <<refused, task>>
  BY <1>1, <1>2, ContinueType DEF TypeOK
<1>3. CASE ~ NoRefresh(c) /\ Consult
  <2>1. auth # None
    BY <1>3 DEF NoRefresh
  <2>2. caller' \in [Callers -> Caller] /\ task' \in [Tasks -> Task]
    <3>1. CASE Done(c) /\ UNCHANGED task
      BY <3>1, DoneType DEF TypeOK
    <3>2. CASE Continue(c) /\ UNCHANGED task
      BY <3>2, ContinueType DEF TypeOK
    <3>3. CASE \E x \in Tasks : Spawn(c, x)
      BY <3>3, <2>1, SpawnType
    <3>4. QED BY <1>3, <3>1, <3>2, <3>3 DEF Enter
  <2>3. QED BY <1>1, <1>3, <2>2, ConsultType DEF TypeOK
<1>4. QED BY <1>2, <1>3 DEF Enter

LEMMA GrantType ==
  ASSUME TypeOK, NEW x \in Tasks, Grant(x)
  PROVE  TypeOK'
<1>1. PICK access \in {0, issued + 1} \cap Token, refresh \in {0, issued + 1} \cap Token :
        /\ issued' = IF access = 0 /\ refresh = 0 THEN issued ELSE issued + 1
        /\ task' = [task EXCEPT ![x].at = "answered",
                                ![x].reply = [access |-> access, refresh |-> refresh]]
  BY DEF Grant
<1>2. issued' \in Token
  <2>1. CASE access = 0 /\ refresh = 0
    BY <1>1, <2>1 DEF TypeOK
  <2>2. CASE access # 0 \/ refresh # 0
    <3>1. issued + 1 \in Token
      BY <2>2
    <3>2. QED BY <1>1, <2>2, <3>1
  <2>3. QED BY <2>1, <2>2
<1>3. task[x] \in Task /\ [access |-> access, refresh |-> refresh] \in Pair
  BY DEF TypeOK, Pair
<1>4. task' \in [Tasks -> Task]
  BY <1>1, <1>3 DEF TypeOK, Task
<1>5. QED BY <1>2, <1>4 DEF Grant, TypeOK

LEMMA MergedType ==
  ASSUME NEW pair \in Pair, NEW reply \in Pair
  PROVE  Merged(pair, reply) \in Pair
BY DEF Merged, Pair

LEMMA EndsType ==
  ASSUME TypeOK, Ends
  PROVE  TypeOK'
BY IdleType DEF Ends, Kept, TypeOK, Server

LEMMA TypeStep == TypeOK /\ [Next]_vars => TypeOK'
<1> SUFFICES ASSUME TypeOK, [Next]_vars PROVE TypeOK'
  OBVIOUS
<1>1. ASSUME NEW c \in Callers, BeginPoll(c) PROVE TypeOK'
  <2>1. refused' \in [tokens : Pair, reason : Reason] \cup {None}
    BY <1>1, ConsultType DEF BeginPoll, TypeOK
  <2>2. QED BY <1>1, <2>1, BeginType DEF BeginPoll, Kind
<1>2. ASSUME NEW c \in Callers, NEW kind \in Kind, BeginAsked(c, kind) PROVE TypeOK'
  BY <1>2, BeginType DEF BeginAsked, TypeOK
<1>3. ASSUME NEW c \in Callers, Enter(c) PROVE TypeOK'
  BY <1>3, EnterType
<1>4. ASSUME NEW c \in Callers, Read(c) PROVE TypeOK'
  BY <1>4, ContinueType DEF Read, TypeOK
<1>5. ASSUME NEW c \in Callers, Accepted(c) PROVE TypeOK'
  BY <1>5, DoneType DEF Accepted, TypeOK
<1>6. ASSUME NEW c \in Callers, Rejected(c) PROVE TypeOK'
  <2>1. caller[c] \in Caller
    BY DEF TypeOK
  <2>2. [caller[c] EXCEPT !.at = "lock", !.forced = TRUE] \in Caller /\ caller[c].access \in Token
    BY <2>1 DEF Caller
  <2>3. caller' \in [Callers -> Caller]
    BY <1>6, <2>2, DoneType DEF Rejected, TypeOK
  <2>4. QED BY <1>6, <2>2, <2>3 DEF Rejected, TypeOK
<1>7. ASSUME NEW c \in Callers, Revoked(c) PROVE TypeOK'
  <2>1. refused' \in [tokens : Pair, reason : Reason] \cup {None}
    BY <1>7, RecordType DEF Revoked, TypeOK, Reason
  <2>2. caller[c].access \in Token
    BY DEF TypeOK, Caller
  <2>3. QED BY <1>7, <2>1, <2>2, DoneType DEF Revoked, TypeOK
<1>8. ASSUME NEW c \in Callers, Drop(c) PROVE TypeOK'
  BY <1>8, DoneType DEF Drop, TypeOK
<1>9. ASSUME NEW x \in Tasks, Grant(x) PROVE TypeOK'
  BY <1>9, GrantType
<1>10. ASSUME NEW x \in Tasks, Fail(x) PROVE TypeOK'
  <2>1. task[x].tokens \in Pair
    BY DEF TypeOK, Task
  <2>2. refused' \in [tokens : Pair, reason : Reason] \cup {None}
    BY <1>10, <2>1, RecordType DEF Fail, NoteRefused, TypeOK, Reason
  <2>3. QED BY <1>10, <2>2, SettleType DEF Fail, TypeOK
<1>11. ASSUME NEW x \in Tasks, TimeOut(x) PROVE TypeOK'
  BY <1>11, SettleType DEF TimeOut, TypeOK
<1>12. ASSUME NEW x \in Tasks, Compare(x) PROVE TypeOK'
  <2>1. [task[x] EXCEPT !.at = "write"] \in Task
    BY DEF TypeOK, Task
  <2>2. caller' \in [Callers -> Caller] /\ task' \in [Tasks -> Task]
    <3>1. CASE Unchanged(x)
      BY <1>12, <3>1, <2>1 DEF Compare, TypeOK
    <3>2. CASE ~ Unchanged(x)
      <4>1. Settle(x, auth # None) /\ (auth # None) \in BOOLEAN
        BY <1>12, <3>2 DEF Compare
      <4>2. QED BY <4>1, SettleType
    <3>3. QED BY <3>1, <3>2
  <2>3. QED BY <1>12, <2>2 DEF Compare, TypeOK
<1>13. ASSUME NEW x \in Tasks, Write(x) PROVE TypeOK'
  <2>1. task[x].tokens \in Pair /\ task[x].reply \in Pair
    BY DEF TypeOK, Task
  <2>2. auth' \in Pair \cup {None} /\ expiring' \in BOOLEAN
    BY <1>13, <2>1, MergedType DEF Write, TypeOK
  <2>3. replaced' \subseteq Token
    BY <1>13, <2>1 DEF Write, TypeOK, Pair
  <2>4. caller' \in [Callers -> Caller] /\ task' \in [Tasks -> Task]
    BY <1>13, SettleType DEF Write
  <2>5. QED BY <1>13, <2>2, <2>3, <2>4 DEF Write, TypeOK
<1>14. ASSUME SignIn PROVE TypeOK'
  <2>1. issued' \in Token /\ auth' \in Pair
    BY <1>14, TokenAssumption DEF SignIn, TypeOK, Token, Pair
  <2>2. QED BY <1>14, <2>1 DEF SignIn, TypeOK
<1>15. ASSUME SignOut PROVE TypeOK'
  BY <1>15 DEF SignOut, TypeOK
<1>16. ASSUME Expire PROVE TypeOK'
  BY <1>16 DEF Expire, TypeOK
<1>17. ASSUME Stop \/ DrainEnds \/ Restart PROVE TypeOK'
  BY <1>17 DEF Stop, DrainEnds, Restart, Kept, TypeOK, Server
<1>18. ASSUME GraceExpires \/ Exit \/ Crash PROVE TypeOK'
  BY <1>18, EndsType DEF GraceExpires, Exit, Crash
<1>19. CASE UNCHANGED vars
  BY <1>19 DEF vars, TypeOK
<1>20. QED
  BY <1>1, <1>2, <1>3, <1>4, <1>5, <1>6, <1>7, <1>8, <1>9, <1>10, <1>11, <1>12, <1>13,
     <1>14, <1>15, <1>16, <1>17, <1>18, <1>19 DEF Next, TaskStep

\* TypeOK holds in every reachable state.
THEOREM TypeCorrect == Spec => []TypeOK
<1>1. Init => TypeOK
  BY InitType
<1>2. TypeOK /\ [Next]_vars => TypeOK'
  BY TypeStep
<1>3. QED BY <1>1, <1>2, PTL DEF Spec

-----------------------------------------------------------------------------
(* The lock                                                                 *)

\* What a running exchange was started with stays.
Same(x) == /\ task'[x].tokens = task[x].tokens /\ task'[x].forced = task[x].forced
           /\ task'[x].late = task[x].late
Carried == \A x \in Tasks : Active(x)' => Active(x) /\ Same(x)

\* An exchange starts under the lock, with the tokens of auth.json.
Started(c, x) ==
  /\ Enter(c) /\ LockFree /\ auth # None /\ auth.refresh # 0 /\ ~ Superseded(c)
  /\ Spawn(c, x)

LEMMA SettleCarries ==
  ASSUME TypeOK, NEW x \in Tasks, NEW ok \in BOOLEAN, Settle(x, ok)
  PROVE  Carried /\ ~ Active(x)'
BY DEF Settle, TypeOK, Carried, Same, Active, NoTask

LEMMA EndsCarries ==
  ASSUME Ends
  PROVE  Carried
BY DEF Ends, Carried, Active, NoTask

LEMMA TaskSteps ==
  ASSUME TypeOK, [Next]_vars
  PROVE  Carried \/ \E c \in Callers, x \in Tasks : Started(c, x)
<1>1. UNCHANGED task => Carried
  BY DEF Carried, Same, Active
<1>2. ASSUME NEW c \in Callers, Enter(c) PROVE Carried \/ \E x \in Tasks : Started(c, x)
  <2>1. CASE UNCHANGED task
    BY <1>1, <2>1
  <2>2. CASE ~ NoRefresh(c) /\ \E x \in Tasks : Spawn(c, x)
    <3>1. auth # None /\ auth.refresh # 0 /\ ~ Superseded(c)
      BY <2>2 DEF NoRefresh
    <3>2. QED BY <1>2, <2>2, <3>1 DEF Started, Enter
  <2>3. QED BY <1>2, <2>1, <2>2 DEF Enter
<1>3. ASSUME NEW x \in Tasks, Grant(x) PROVE Carried
  <2>1. PICK access, refresh \in {0, issued + 1} \cap Token :
          task' = [task EXCEPT ![x].at = "answered",
                               ![x].reply = [access |-> access, refresh |-> refresh]]
    BY <1>3 DEF Grant
  <2>2. \A y \in Tasks : Same(y) /\ (Active(y)' => Active(y))
    BY <1>3, <2>1 DEF TypeOK, Task, Same, Active, Grant
  <2>3. QED BY <2>2 DEF Carried
<1>4. ASSUME NEW x \in Tasks, Fail(x) \/ TimeOut(x) PROVE Carried
  BY <1>4, SettleCarries DEF Fail, TimeOut
<1>5. ASSUME NEW x \in Tasks, Compare(x) PROVE Carried
  <2>1. CASE Unchanged(x)
    <3>1. task' = [task EXCEPT ![x].at = "write"] /\ task[x].at = "answered"
      BY <1>5, <2>1 DEF Compare
    <3>2. QED BY <3>1 DEF TypeOK, Task, Carried, Same, Active
  <2>2. CASE ~ Unchanged(x)
    <3>1. Settle(x, auth # None) /\ (auth # None) \in BOOLEAN
      BY <1>5, <2>2 DEF Compare
    <3>2. QED BY <3>1, SettleCarries
  <2>3. QED BY <2>1, <2>2
<1>6. ASSUME NEW x \in Tasks, Write(x) PROVE Carried
  BY <1>6, SettleCarries DEF Write
<1>7. ASSUME Ends PROVE Carried
  BY <1>7, EndsCarries
<1>8. QED
  BY <1>1, <1>2, <1>3, <1>4, <1>5, <1>6, <1>7
  DEF Next, TaskStep, BeginPoll, BeginAsked, Begin, Read, Accepted, Rejected, Revoked, Drop,
      SignIn, SignOut, Expire, Stop, DrainEnds, GraceExpires, Exit, Crash, Restart, vars

LEMMA StartedTask ==
  ASSUME TypeOK, NEW c \in Callers, NEW x \in Tasks, Started(c, x)
  PROVE  /\ \A y \in Tasks : Active(y)' => y = x
         /\ task'[x].tokens = auth /\ task'[x].forced = caller[c].forced
         /\ task'[x].late = (server = "leaving")
         /\ UNCHANGED <<auth, issued, server, rejected, replaced>>
<1>1. task' = [task EXCEPT ![x] = [NoTask EXCEPT !.at = "sent", !.by = c, !.tokens = auth,
                                     !.forced = caller[c].forced, !.late = server = "leaving"]]
  BY DEF Started, Spawn
<1>2. \A y \in Tasks : ~ Active(y)
  BY DEF Started, LockFree, Settling
<1>3. QED BY <1>1, <1>2 DEF TypeOK, Active, NoTask, Started, Enter

LEMMA OneStep == TypeOK /\ OneExchange /\ [Next]_vars => OneExchange'
<1> SUFFICES ASSUME TypeOK, OneExchange, [Next]_vars PROVE OneExchange'
  OBVIOUS
<1>1. CASE Carried
  BY <1>1 DEF Carried, OneExchange, Settling
<1>2. ASSUME NEW c \in Callers, NEW x \in Tasks, Started(c, x) PROVE OneExchange'
  BY <1>2, StartedTask DEF OneExchange, Settling
<1>3. QED BY <1>1, <1>2, TaskSteps

\* The lock outlives the caller: at most one exchange of the account is out.
THEOREM ExchangesAlone == Spec => []OneExchange
<1>1. Init => TypeOK /\ OneExchange
  BY InitType DEF Init, OneExchange, Settling, Active, NoTask
<1>2. TypeOK /\ OneExchange /\ [Next]_vars => (TypeOK /\ OneExchange)'
  BY TypeStep, OneStep
<1>3. QED BY <1>1, <1>2, PTL DEF Spec

-----------------------------------------------------------------------------
(* The drain                                                                *)

LEMMA DrainStep == TypeOK /\ DrainWaits /\ [Next]_vars => DrainWaits'
<1> SUFFICES ASSUME TypeOK, DrainWaits, [Next]_vars, server' = "leaving",
                    NEW y \in Tasks, Active(y)'
             PROVE  task'[y].late
  BY DEF DrainWaits, Settling
<1>1. ASSUME NEW c \in Callers, NEW x \in Tasks, Started(c, x) PROVE task'[y].late
  BY <1>1, StartedTask
<1>2. CASE Carried
  <2>1. Active(y) /\ task'[y].late = task[y].late
    BY <1>2 DEF Carried, Same
  <2>2. server = "leaving"
    <3>1. ~ DrainEnds
      BY <2>1 DEF DrainEnds, Drained, Settling
    <3>2. QED
      BY <3>1
      DEF Next, TaskStep, BeginPoll, BeginAsked, Begin, Enter, Read, Accepted, Rejected, Revoked,
          Drop, Grant, Fail, TimeOut, Compare, Write, SignIn, SignOut, Expire, Stop,
          GraceExpires, Exit, Crash, Ends, Restart, vars
  <2>3. QED BY <2>1, <2>2 DEF DrainWaits, Settling
<1>3. QED BY <1>1, <1>2, TaskSteps

\* When a drained process leaves, an exchange that still runs began after the
\* drain's last look.
THEOREM DrainSettles == Spec => []DrainWaits
<1>1. Init => TypeOK /\ DrainWaits
  BY InitType DEF Init, DrainWaits
<1>2. TypeOK /\ DrainWaits /\ [Next]_vars => (TypeOK /\ DrainWaits)'
  BY TypeStep, DrainStep
<1>3. QED BY <1>1, <1>2, PTL DEF Spec

-----------------------------------------------------------------------------
(* What a 401 and a refusal are about                                       *)

\* A caller that will force a refresh holds a token upstream rejected.
ForcedRejected ==
  \A c \in Callers : caller[c].at = "lock" /\ caller[c].forced => caller[c].access \in rejected

LEMMA RejectedGrows == [Next]_vars => rejected \subseteq rejected'
BY DEF Next, TaskStep, BeginPoll, BeginAsked, Begin, Enter, Read, Accepted, Rejected, Revoked,
       Drop, Grant, Fail, TimeOut, Compare, Write, SignIn, SignOut, Expire, Stop, DrainEnds,
       GraceExpires, Exit, Crash, Ends, Kept, Restart, vars

LEMMA SettleLeavesLock ==
  ASSUME TypeOK, NEW x \in Tasks, NEW ok \in BOOLEAN, Settle(x, ok),
         NEW d \in Callers, caller'[d].at = "lock"
  PROVE  caller'[d] = caller[d]
BY DEF Settle, TypeOK, Idle, Caller

LEMMA ContinueLeavesLock ==
  ASSUME TypeOK, NEW c \in Callers, Continue(c), NEW d \in Callers, caller'[d].at = "lock"
  PROVE  caller'[d] = caller[d]
BY DEF Continue, Done, TypeOK, Idle, Caller

\* Only a rejection sends a caller to the lock to force a refresh.
LEMMA ForcedFrom ==
  ASSUME TypeOK, [Next]_vars, NEW d \in Callers, caller'[d].at = "lock", caller'[d].forced
  PROVE  caller'[d] = caller[d] \/ caller'[d].access \in rejected'
<1>1. ASSUME NEW c \in Callers, NEW kind \in Kind, Begin(c, kind) PROVE caller'[d] = caller[d]
  BY <1>1 DEF Begin, TypeOK, Idle, Caller
<1>2. ASSUME NEW c \in Callers, Enter(c) PROVE caller'[d] = caller[d]
  <2>1. CASE Continue(c)
    BY <2>1, ContinueLeavesLock
  <2>2. CASE Done(c)
    BY <2>2 DEF Done, TypeOK, Idle, Caller
  <2>3. ASSUME NEW x \in Tasks, Spawn(c, x) PROVE caller'[d] = caller[d]
    BY <2>3 DEF Spawn, TypeOK, Caller
  <2>4. QED BY <1>2, <2>1, <2>2, <2>3 DEF Enter
<1>3. ASSUME NEW c \in Callers, Read(c) PROVE caller'[d] = caller[d]
  BY <1>3, ContinueLeavesLock DEF Read
<1>4. ASSUME NEW c \in Callers, Accepted(c) \/ Revoked(c) \/ Drop(c) PROVE caller'[d] = caller[d]
  BY <1>4 DEF Accepted, Revoked, Drop, Done, TypeOK, Idle, Caller
<1>5. ASSUME NEW c \in Callers, Rejected(c)
      PROVE  caller'[d] = caller[d] \/ caller'[d].access \in rejected'
  BY <1>5 DEF Rejected, Done, TypeOK, Idle, Caller
<1>6. ASSUME NEW x \in Tasks, Fail(x) \/ TimeOut(x) \/ Write(x) PROVE caller'[d] = caller[d]
  BY <1>6, SettleLeavesLock DEF Fail, TimeOut, Write
<1>7. ASSUME NEW x \in Tasks, Compare(x) PROVE caller'[d] = caller[d]
  <2>1. (auth # None) \in BOOLEAN
    OBVIOUS
  <2>2. QED BY <1>7, <2>1, SettleLeavesLock DEF Compare
<1>8. ASSUME Ends PROVE caller'[d] = caller[d]
  BY <1>8 DEF Ends, Idle
<1>9. ASSUME UNCHANGED caller PROVE caller'[d] = caller[d]
  BY <1>9
<1>10. ASSUME NEW c \in Callers, BeginPoll(c) PROVE caller'[d] = caller[d]
  BY <1>10, <1>1 DEF BeginPoll, Kind
<1>11. QED
  BY <1>1, <1>2, <1>3, <1>4, <1>5, <1>6, <1>7, <1>8, <1>9, <1>10
  DEF Next, TaskStep, BeginAsked, Grant, SignIn, SignOut, Expire, Stop, DrainEnds,
      GraceExpires, Exit, Crash, Restart, vars

LEMMA ForcedStep ==
  TypeOK /\ ForcedRejected /\ ForcedOnlyIfRejected /\ [Next]_vars
    => ForcedRejected' /\ ForcedOnlyIfRejected'
<1> SUFFICES ASSUME TypeOK, ForcedRejected, ForcedOnlyIfRejected, [Next]_vars
             PROVE  ForcedRejected' /\ ForcedOnlyIfRejected'
  OBVIOUS
<1>1. ForcedRejected'
  BY ForcedFrom, RejectedGrows DEF ForcedRejected
<1>2. ASSUME NEW c \in Callers, NEW x \in Tasks, Started(c, x) PROVE ForcedOnlyIfRejected'
  <2>1. task'[x].forced => task'[x].tokens.access \in rejected
    <3>1. caller[c].forced => auth.access = caller[c].access
      BY <1>2 DEF Started, Superseded
    <3>2. caller[c].at = "lock"
      BY <1>2 DEF Started, Enter
    <3>3. QED BY <1>2, <3>1, <3>2, StartedTask DEF ForcedRejected
  <2>2. QED BY <1>2, <2>1, StartedTask, RejectedGrows DEF ForcedOnlyIfRejected, Settling
<1>3. ASSUME Carried PROVE ForcedOnlyIfRejected'
  BY <1>3, RejectedGrows DEF Carried, Same, ForcedOnlyIfRejected, Settling
<1>4. QED BY <1>1, <1>2, <1>3, TaskSteps

\* A refresh forced by a 401 spends the credential the 401 was about.
THEOREM ForcedIsDeserved == Spec => []ForcedOnlyIfRejected
<1>1. Init => TypeOK /\ ForcedRejected /\ ForcedOnlyIfRejected
  BY InitType DEF Init, ForcedRejected, ForcedOnlyIfRejected, Settling, Active, NoTask, Idle
<1>2. TypeOK /\ ForcedRejected /\ ForcedOnlyIfRejected /\ [Next]_vars
        => (TypeOK /\ ForcedRejected /\ ForcedOnlyIfRejected)'
  BY TypeStep, ForcedStep
<1>3. QED BY <1>1, <1>2, PTL DEF Spec

\* The refusal of a refresh is remembered against the tokens presented.
THEOREM RefusalsAreExact == Spec => RefusalsExact
<1> DEFINE Noted == refused' \notin {None, refused} /\ refused'.reason = "refresh"
<1>1. ASSUME TypeOK, [Next]_vars, Noted
      PROVE  \E x \in Settling : ~ Active(x)' /\ refused'.tokens = task[x].tokens
  <2>1. ASSUME NEW x \in Tasks, Fail(x)
        PROVE  \E y \in Settling : ~ Active(y)' /\ refused'.tokens = task[y].tokens
    <3>1. x \in Settling /\ ~ Active(x)'
      BY <1>1, <2>1, SettleCarries DEF Fail, Settling, Active
    <3>2. refused'.tokens = task[x].tokens
      BY <1>1, <2>1 DEF Fail, NoteRefused, Record
    <3>3. QED BY <3>1, <3>2
  <2>2. ASSUME NEW c \in Callers, Revoked(c) PROVE FALSE
    BY <1>1, <2>2 DEF Revoked, Record
  <2>3. ASSUME Consult \/ refused' = None \/ UNCHANGED refused PROVE FALSE
    BY <1>1, <2>3 DEF Consult
  <2>4. QED
    BY <1>1, <2>1, <2>2, <2>3
    DEF Next, TaskStep, BeginPoll, BeginAsked, Begin, Enter, Read, Accepted, Rejected, Drop,
        Grant, TimeOut, Compare, Write, SignIn, SignOut, Expire, Stop, DrainEnds, GraceExpires,
        Exit, Crash, Ends, Restart, vars
<1>2. TypeOK /\ [Next]_vars
        => [Noted => \E x \in Settling : ~ Active(x)' /\ refused'.tokens = task[x].tokens]_vars
  BY <1>1
<1>3. QED BY <1>2, TypeCorrect, PTL DEF Spec, RefusalsExact

-----------------------------------------------------------------------------
(* What becomes of refresh tokens                                           *)

LEMMA WriteEnds ==
  ASSUME TypeOK, OneExchange, NEW x \in Tasks, Write(x), NEW y \in Tasks
  PROVE  /\ ~ Active(y)'
         /\ task'[y] \in {NoTask, task[y]}
         /\ task'[y].at = "none"
<1>1. task' = [task EXCEPT ![x] = NoTask] /\ task[x].at = "write"
  BY DEF Write, Settle
<1>2. y # x => task[y].at = "none"
  BY <1>1 DEF OneExchange, Settling, Active
<1>3. QED BY <1>1, <1>2 DEF TypeOK, NoTask, Active

\* Tokens are spent in the order they were issued.
Known == \A t \in replaced : t # 0 /\ t <= issued

\* auth.json never holds a token a refresh has replaced.
HeldFresh == auth # None => auth.refresh <= issued /\ auth.refresh \notin replaced

\* Nor does an exchange present one, and what it is given is new.
OutFresh(x) ==
  /\ task[x].tokens # None
  /\ task[x].tokens.refresh # 0 /\ task[x].tokens.refresh <= issued
  /\ task[x].tokens.refresh \notin replaced
ReplyFresh(x) ==
  task[x].at # "sent" /\ task[x].reply.refresh # 0 =>
    /\ task[x].reply.refresh <= issued
    /\ task[x].reply.refresh \notin replaced \cup {task[x].tokens.refresh}

SpentInv ==
  /\ TypeOK /\ OneExchange
  /\ Known /\ HeldFresh
  /\ \A x \in Settling : OutFresh(x) /\ ReplyFresh(x)

\* The parts of a step that exchanges, files and tasks see.
Quiet == UNCHANGED <<auth, issued, replaced>>

\* A task ends or stays as it is.
EndsOrStays == \A y \in Tasks : Active(y)' => Active(y) /\ task'[y] = task[y]

LEMMA SettleEndsOrStays ==
  ASSUME TypeOK, NEW x \in Tasks, NEW ok \in BOOLEAN, Settle(x, ok)
  PROVE  EndsOrStays
BY DEF Settle, TypeOK, EndsOrStays, Active, NoTask

LEMMA QuietFresh ==
  ASSUME SpentInv, EndsOrStays, Quiet, TypeOK', OneExchange'
  PROVE  SpentInv'
<1>1. Known' /\ HeldFresh'
  BY DEF SpentInv, Quiet, Known, HeldFresh
<1>2. ASSUME NEW x \in Tasks, Active(x)' PROVE OutFresh(x)' /\ ReplyFresh(x)'
  BY <1>2 DEF SpentInv, Quiet, EndsOrStays, Settling, OutFresh, ReplyFresh
<1>3. QED BY <1>1, <1>2 DEF SpentInv, Settling

LEMMA StartFresh ==
  ASSUME SpentInv, NEW c \in Callers, NEW x \in Tasks, Started(c, x),
         TypeOK', OneExchange'
  PROVE  SpentInv'
<1>1. \A y \in Tasks : Active(y)' => y = x
  BY StartedTask DEF SpentInv
<1>2. task'[x].tokens = auth /\ Quiet /\ auth # None /\ auth.refresh # 0
  BY StartedTask DEF SpentInv, Quiet, Started
<1>3. task'[x].at = "sent"
  BY DEF Started, Spawn, SpentInv, TypeOK, NoTask
<1>4. Known' /\ HeldFresh'
  BY <1>2 DEF SpentInv, Quiet, Known, HeldFresh
<1>5. OutFresh(x)' /\ ReplyFresh(x)'
  BY <1>2, <1>3 DEF SpentInv, Quiet, HeldFresh, OutFresh, ReplyFresh
<1>6. QED BY <1>1, <1>4, <1>5 DEF SpentInv, Settling

LEMMA GrantFresh ==
  ASSUME SpentInv, NEW x \in Tasks, Grant(x), TypeOK', OneExchange'
  PROVE  SpentInv'
<1>1. PICK access, refresh \in {0, issued + 1} \cap Token :
        /\ issued' = IF access = 0 /\ refresh = 0 THEN issued ELSE issued + 1
        /\ task' = [task EXCEPT ![x].at = "answered",
                                ![x].reply = [access |-> access, refresh |-> refresh]]
  BY DEF Grant
<1>2. /\ UNCHANGED <<auth, replaced>>
      /\ issued \in Int /\ issued' \in Int /\ issued <= issued'
      /\ refresh # 0 => refresh = issued' /\ issued < issued'
  BY <1>1, TokenAssumption DEF Grant, SpentInv, TypeOK, Token
<1>3. task'[x].tokens = task[x].tokens /\ task'[x].reply.refresh = refresh
  BY <1>1 DEF SpentInv, TypeOK, Task
<1>4. x \in Settling /\ Settling' = {x}
  BY DEF Grant, SpentInv, OneExchange, Settling, Active, TypeOK
<1>5. replaced \subseteq Int /\ task[x].tokens.refresh \in Int
      /\ (auth # None => auth.refresh \in Int)
  BY TokenAssumption DEF SpentInv, TypeOK, Token, Task, Pair
<1>6. Known' /\ HeldFresh'
  <2>1. Known /\ HeldFresh
    BY DEF SpentInv
  <2>2. Known'
    <3>1. \A t \in replaced : t # 0 /\ t <= issued'
      BY <1>2, <1>5, <2>1 DEF Known
    <3>2. QED BY <1>2, <3>1 DEF Known
  <2>3. HeldFresh'
    <3>1. auth # None => auth.refresh <= issued' /\ auth.refresh \notin replaced
      BY <1>2, <1>5, <2>1 DEF HeldFresh
    <3>2. QED BY <1>2, <3>1 DEF HeldFresh
  <2>4. QED BY <2>2, <2>3
<1>7. OutFresh(x)'
  <2>1. OutFresh(x)
    BY <1>4 DEF SpentInv
  <2>2. QED BY <1>2, <1>3, <1>5, <2>1 DEF OutFresh
<1>8. ReplyFresh(x)'
  <2>1. Known /\ OutFresh(x)
    BY <1>4 DEF SpentInv
  <2>2. refresh # 0 => refresh \notin replaced \cup {task[x].tokens.refresh}
    BY <1>2, <1>5, <2>1 DEF Known, OutFresh
  <2>3. QED BY <1>2, <1>3, <2>2 DEF ReplyFresh
<1>9. QED BY <1>4, <1>6, <1>7, <1>8 DEF SpentInv

LEMMA CompareFresh ==
  ASSUME SpentInv, NEW x \in Tasks, Compare(x), TypeOK', OneExchange'
  PROVE  SpentInv'
<1>1. CASE ~ Unchanged(x)
  <2>1. Settle(x, auth # None) /\ (auth # None) \in BOOLEAN /\ Quiet
    BY <1>1 DEF Compare, Quiet
  <2>2. QED BY <2>1, SettleEndsOrStays, QuietFresh DEF SpentInv
<1>2. CASE Unchanged(x)
  <2>1. task' = [task EXCEPT ![x].at = "write"] /\ task[x].at = "answered" /\ Quiet
    BY <1>2 DEF Compare, Quiet
  <2>2. \A y \in Tasks : /\ Active(y)' => Active(y)
                         /\ task'[y].tokens = task[y].tokens /\ task'[y].reply = task[y].reply
                         /\ task[y].at = "sent" => task'[y].at = "sent"
                         /\ task[y].at = "answered" => task'[y].at # "sent"
    BY <2>1 DEF SpentInv, TypeOK, Task, Active
  <2>3. Known' /\ HeldFresh'
    BY <2>1 DEF SpentInv, Quiet, Known, HeldFresh
  <2>4. ASSUME NEW y \in Tasks, Active(y)' PROVE OutFresh(y)' /\ ReplyFresh(y)'
    <3>1. y = x
      BY <2>1, <2>2, <2>4 DEF SpentInv, OneExchange, Settling, Active
    <3>2. OutFresh(x) /\ ReplyFresh(x)
      BY <2>1 DEF SpentInv, Settling, Active
    <3>3. QED BY <2>1, <2>2, <3>1, <3>2 DEF Quiet, OutFresh, ReplyFresh
  <2>5. QED BY <2>3, <2>4 DEF SpentInv, Settling
<1>3. QED BY <1>1, <1>2

LEMMA WriteFresh ==
  ASSUME SpentInv, NEW x \in Tasks, Write(x), TypeOK', OneExchange'
  PROVE  SpentInv'
<1>1. Settling' = {}
  BY WriteEnds DEF SpentInv, Settling, Active
<1>2. x \in Settling /\ OutFresh(x) /\ ReplyFresh(x) /\ task[x].at = "write"
  BY DEF Write, SpentInv, Settling, Active
<1>3. issued' = issued
  BY DEF Write
<1>4. CASE UNCHANGED <<auth, replaced>>
  BY <1>1, <1>3, <1>4 DEF SpentInv, Known, HeldFresh
<1>5. CASE /\ auth' = Merged(task[x].tokens, task[x].reply)
           /\ replaced' = IF task[x].reply.refresh = 0 THEN replaced
                          ELSE replaced \cup {task[x].tokens.refresh}
  <2>1. CASE task[x].reply.refresh = 0
    <3>1. auth'.refresh = task[x].tokens.refresh /\ replaced' = replaced
      BY <1>5, <2>1 DEF Merged
    <3>2. QED BY <1>1, <1>2, <1>3, <3>1 DEF SpentInv, Known, HeldFresh, OutFresh
  <2>2. CASE task[x].reply.refresh # 0
    <3>1. auth'.refresh = task[x].reply.refresh /\ replaced' = replaced \cup {task[x].tokens.refresh}
      BY <1>5, <2>2 DEF Merged
    <3>2. HeldFresh'
      BY <1>2, <1>3, <2>2, <3>1 DEF HeldFresh, ReplyFresh
    <3>3. Known'
      BY <1>2, <1>3, <3>1 DEF Known, SpentInv, OutFresh
    <3>4. QED BY <1>1, <3>2, <3>3 DEF SpentInv
  <2>3. QED BY <2>1, <2>2
<1>6. QED BY <1>4, <1>5 DEF Write

LEMMA SignInFresh ==
  ASSUME SpentInv, SignIn \/ SignOut, TypeOK', OneExchange'
  PROVE  SpentInv'
<1>1. /\ UNCHANGED <<task, replaced>> /\ issued \in Int /\ issued' \in Int /\ issued <= issued'
      /\ auth' # None => auth'.refresh = 0 \/ (auth'.refresh = issued' /\ issued < issued')
      /\ 0 <= issued'
  BY TokenAssumption DEF SignIn, SignOut, SpentInv, TypeOK, Token
<1>2. replaced \subseteq Int
  BY TokenAssumption DEF SpentInv, TypeOK, Token
<1>3. Known' /\ HeldFresh'
  <2>1. Known
    BY DEF SpentInv
  <2>2. Known'
    <3>1. \A t \in replaced : t # 0 /\ t <= issued'
      BY <1>1, <1>2, <2>1 DEF Known
    <3>2. QED BY <1>1, <3>1 DEF Known
  <2>3. HeldFresh'
    BY <1>1, <1>2, <2>1 DEF Known, HeldFresh
  <2>4. QED BY <2>2, <2>3
<1>4. ASSUME NEW x \in Settling PROVE OutFresh(x)' /\ ReplyFresh(x)'
  <2>1. task[x].tokens.refresh \in Int /\ task[x].reply.refresh \in Int
    BY <1>4, TokenAssumption DEF SpentInv, TypeOK, Token, Task, Pair, Settling
  <2>2. OutFresh(x) /\ ReplyFresh(x)
    BY <1>4 DEF SpentInv
  <2>3. QED BY <1>1, <2>1, <2>2 DEF OutFresh, ReplyFresh
<1>5. QED BY <1>1, <1>3, <1>4 DEF SpentInv, Settling, Active

LEMMA SpentStep ==
  ASSUME SpentInv, [Next]_vars
  PROVE  SpentInv'
<1>1. TypeOK' /\ OneExchange'
  BY TypeStep, OneStep DEF SpentInv
<1>2. ASSUME UNCHANGED task, Quiet PROVE SpentInv'
  BY <1>1, <1>2, QuietFresh DEF EndsOrStays, Active
<1>3. ASSUME NEW c \in Callers, Enter(c) PROVE SpentInv'
  <2>1. ASSUME NEW x \in Tasks, ~ NoRefresh(c), Spawn(c, x) PROVE SpentInv'
    BY <1>1, <1>3, <2>1, StartFresh DEF Started, Enter, NoRefresh
  <2>2. QED BY <1>2, <1>3, <2>1 DEF Enter, Quiet
<1>4. ASSUME NEW x \in Tasks, Fail(x) \/ TimeOut(x) PROVE SpentInv'
  BY <1>1, <1>4, SettleEndsOrStays, QuietFresh DEF Fail, TimeOut, Quiet, SpentInv
<1>5. ASSUME Ends PROVE SpentInv'
  <2>1. EndsOrStays /\ Quiet
    BY <1>5 DEF Ends, Kept, EndsOrStays, Quiet, Active, NoTask
  <2>2. QED BY <1>1, <2>1, QuietFresh
<1>6. ASSUME NEW x \in Tasks, Grant(x) \/ Compare(x) \/ Write(x) PROVE SpentInv'
  BY <1>1, <1>6, GrantFresh, CompareFresh, WriteFresh
<1>7. ASSUME SignIn \/ SignOut PROVE SpentInv'
  BY <1>1, <1>7, SignInFresh
<1>8. QED
  BY <1>2, <1>3, <1>4, <1>5, <1>6, <1>7
  DEF Next, TaskStep, BeginPoll, BeginAsked, Begin, Read, Accepted, Rejected, Revoked, Drop,
      Expire, Stop, DrainEnds, GraceExpires, Exit, Crash, Restart, Kept, Quiet, vars

LEMMA NoneOut == Settling = {} => Out = 0
BY DEF Out

LEMMA OutIs == ASSUME OneExchange, NEW x \in Settling PROVE Out = task[x].tokens.refresh
<1>1. (CHOOSE y \in Settling : TRUE) \in Settling
  OBVIOUS
<1>2. (CHOOSE y \in Settling : TRUE) = x
  BY <1>1 DEF OneExchange
<1>3. QED BY <1>2 DEF Out

LEMMA NoneOutNext == Settling' = {} => Out' = 0
BY DEF Out

LEMMA OutWillBe == ASSUME OneExchange', NEW x \in Settling' PROVE Out' = task'[x].tokens.refresh
<1>1. (CHOOSE y \in Settling' : TRUE) \in Settling'
  OBVIOUS
<1>2. (CHOOSE y \in Settling' : TRUE) = x
  BY <1>1 DEF OneExchange
<1>3. QED BY <1>2 DEF Out

\* A step that leaves auth.json alone and lets tasks end at most gives up the
\* token that was out, if any was.
LEMMA QuietPromise ==
  ASSUME SpentInv, OneExchange', EndsOrStays, UNCHANGED <<auth, replaced>>
  PROVE  [Promise!Next]_(Promise!vars)
<1>1. UNCHANGED <<Held, replaced>>
  BY DEF Held
<1>2. Out' = Out \/ (Out # 0 /\ Out' = 0)
  <2>1. CASE Settling = {}
    <3>1. Settling' = {}
      BY <2>1 DEF EndsOrStays, Settling
    <3>2. QED BY <2>1, <3>1, NoneOut, NoneOutNext
  <2>2. ASSUME NEW x \in Settling PROVE Out' = Out \/ (Out # 0 /\ Out' = 0)
    <3>1. Out = task[x].tokens.refresh /\ Out # 0
      BY <2>2, OutIs DEF SpentInv, OutFresh
    <3>2. CASE x \in Settling'
      <4>1. Out' = task'[x].tokens.refresh /\ task'[x] = task[x]
        BY <3>2, OutWillBe DEF EndsOrStays, Settling
      <4>2. QED BY <3>1, <4>1
    <3>3. CASE x \notin Settling'
      <4>1. Settling' = {}
        BY <2>2, <3>3 DEF SpentInv, OneExchange, EndsOrStays, Settling
      <4>2. QED BY <3>1, <4>1, NoneOutNext
    <3>4. QED BY <3>2, <3>3
  <2>3. QED BY <2>1, <2>2
<1>3. QED BY <1>1, <1>2 DEF Promise!Next, Promise!Abandon, Promise!vars

\* A step after which the same exchange is out, with the same token.
LEMMA SameOut ==
  ASSUME OneExchange, OneExchange', NEW x \in Settling, x \in Settling',
         task'[x].tokens = task[x].tokens
  PROVE  Out' = Out
<1>1. Out = task[x].tokens.refresh
  BY OutIs
<1>2. Out' = task'[x].tokens.refresh
  BY OutWillBe
<1>3. QED BY <1>1, <1>2

LEMMA StartPromise ==
  ASSUME SpentInv, OneExchange', NEW c \in Callers, NEW x \in Tasks, Started(c, x)
  PROVE  Promise!Next
<1>1. Settling = {} /\ auth # None /\ auth.refresh # 0
  BY DEF Started, LockFree
<1>2. task'[x].tokens = auth /\ UNCHANGED <<auth, replaced>>
  BY StartedTask DEF SpentInv
<1>3. x \in Settling'
  BY DEF Started, Spawn, SpentInv, TypeOK, NoTask, Settling, Active
<1>4. Out = 0 /\ Out' = auth.refresh
  BY <1>1, <1>2, <1>3, NoneOut, OutWillBe
<1>5. QED
  BY <1>1, <1>2, <1>4 DEF Held, HeldFresh, SpentInv, Promise!Next, Promise!Present

LEMMA WritePromise ==
  ASSUME SpentInv, TypeOK', HeldFresh', NEW x \in Tasks, Write(x)
  PROVE  [Promise!Next]_(Promise!vars)
<1>1. Settling' = {} /\ Out' = 0
  BY WriteEnds, NoneOutNext DEF SpentInv, Settling, Active
<1>2. x \in Settling /\ OutFresh(x)
  BY DEF Write, SpentInv, Settling, Active
<1>3. Out = task[x].tokens.refresh /\ Out # 0 /\ Out \notin replaced
  BY <1>2, OutIs DEF SpentInv, OutFresh
<1>4. CASE UNCHANGED <<auth, replaced>>
  BY <1>1, <1>3, <1>4 DEF Held, Promise!Next, Promise!Abandon
<1>5. CASE /\ auth' = Merged(task[x].tokens, task[x].reply)
           /\ replaced' = IF task[x].reply.refresh = 0 THEN replaced
                          ELSE replaced \cup {task[x].tokens.refresh}
  <2>1. auth' \in Pair /\ auth' # None
    <3>1. auth' \in Pair
      BY <1>5, MergedType DEF SpentInv, TypeOK, Task
    <3>2. QED BY <3>1, TokenAssumption DEF Pair, Token
  <2>2. Held' = auth'.refresh /\ Held' \in Token \ replaced'
    BY <2>1 DEF Held, HeldFresh, Pair
  <2>3. CASE task[x].reply.refresh # 0
    BY <1>1, <1>3, <1>5, <2>2, <2>3 DEF Promise!Next, Promise!Replace
  <2>4. CASE task[x].reply.refresh = 0
    <3>1. Held' = Out /\ replaced' = replaced
      BY <1>3, <1>5, <2>2, <2>4 DEF Merged
    <3>2. QED BY <1>1, <1>3, <3>1 DEF Promise!Next, Promise!Renew
  <2>5. QED BY <2>3, <2>4
<1>6. QED BY <1>4, <1>5 DEF Write

LEMMA PromiseStep ==
  ASSUME SpentInv, SpentInv', [Next]_vars
  PROVE  [Promise!Next]_(Promise!vars)
<1>1. OneExchange /\ OneExchange' /\ TypeOK /\ TypeOK'
  BY DEF SpentInv
<1>2. ASSUME UNCHANGED <<task, auth, replaced>> PROVE [Promise!Next]_(Promise!vars)
  BY <1>1, <1>2, QuietPromise DEF EndsOrStays, Active
<1>3. ASSUME NEW c \in Callers, Enter(c) PROVE [Promise!Next]_(Promise!vars)
  <2>1. ASSUME NEW x \in Tasks, ~ NoRefresh(c), Spawn(c, x) PROVE Promise!Next
    BY <1>1, <1>3, <2>1, StartPromise DEF Started, Enter, NoRefresh
  <2>2. QED BY <1>2, <1>3, <2>1 DEF Enter
<1>4. ASSUME NEW x \in Tasks, Fail(x) \/ TimeOut(x) PROVE [Promise!Next]_(Promise!vars)
  BY <1>1, <1>4, SettleEndsOrStays, QuietPromise DEF Fail, TimeOut
<1>5. ASSUME Ends PROVE [Promise!Next]_(Promise!vars)
  <2>1. EndsOrStays /\ UNCHANGED <<auth, replaced>>
    BY <1>5 DEF Ends, Kept, EndsOrStays, Active, NoTask
  <2>2. QED BY <1>1, <2>1, QuietPromise
<1>6. ASSUME NEW x \in Tasks, Grant(x) PROVE [Promise!Next]_(Promise!vars)
  <2>1. PICK access, refresh \in {0, issued + 1} \cap Token :
          task' = [task EXCEPT ![x].at = "answered",
                               ![x].reply = [access |-> access, refresh |-> refresh]]
    BY <1>6 DEF Grant
  <2>2. task'[x].tokens = task[x].tokens /\ x \in Settling /\ x \in Settling'
    BY <1>1, <1>6, <2>1 DEF Grant, TypeOK, Task, Settling, Active
  <2>3. Out' = Out /\ UNCHANGED <<Held, replaced>>
    BY <1>1, <1>6, <2>2, SameOut DEF Grant, Held
  <2>4. QED BY <2>3 DEF Promise!vars
<1>7. ASSUME NEW x \in Tasks, Compare(x) PROVE [Promise!Next]_(Promise!vars)
  <2>1. CASE ~ Unchanged(x)
    <3>1. Settle(x, auth # None) /\ (auth # None) \in BOOLEAN /\ UNCHANGED <<auth, replaced>>
      BY <1>7, <2>1 DEF Compare
    <3>2. QED BY <1>1, <3>1, SettleEndsOrStays, QuietPromise
  <2>2. CASE Unchanged(x)
    <3>1. task'[x].tokens = task[x].tokens /\ x \in Settling /\ x \in Settling'
      BY <1>1, <1>7, <2>2 DEF Compare, TypeOK, Task, Settling, Active
    <3>2. Out' = Out /\ UNCHANGED <<Held, replaced>>
      BY <1>1, <1>7, <3>1, SameOut DEF Compare, Held
    <3>3. QED BY <3>2 DEF Promise!vars
  <2>3. QED BY <2>1, <2>2
<1>8. ASSUME NEW x \in Tasks, Write(x) PROVE [Promise!Next]_(Promise!vars)
  BY <1>1, <1>8, WritePromise DEF SpentInv
<1>9. ASSUME SignIn \/ SignOut PROVE [Promise!Next]_(Promise!vars)
  <2>1. UNCHANGED <<task, replaced>>
    BY <1>9 DEF SignIn, SignOut
  <2>2. Out' = Out
    BY <2>1 DEF Out, Settling, Active
  <2>3. auth' # None => auth'.refresh \in Token \ replaced
    BY <2>1 DEF SpentInv, TypeOK, Pair, HeldFresh
  <2>4. 0 \in Token \ replaced
    BY TokenType DEF SpentInv, Known
  <2>5. Held' \in Token \ replaced
    BY <2>3, <2>4 DEF Held
  <2>6. QED BY <2>1, <2>2, <2>5 DEF Promise!Next, Promise!SignIn
<1>10. QED
  BY <1>2, <1>3, <1>4, <1>5, <1>6, <1>7, <1>8, <1>9
  DEF Next, TaskStep, BeginPoll, BeginAsked, Begin, Read, Accepted, Rejected, Revoked, Drop,
      Expire, Stop, DrainEnds, GraceExpires, Exit, Crash, Restart, Kept, vars

\* One refresh token is presented at a time, and one whose replacement has been
\* stored is never held or presented again, whatever sign-ins do in between:
\* the code implements RefreshPromise.
THEOREM TokensSpentInTurn == Spec => SpentInTurn
<1>1. Init => SpentInv
  BY InitType
  DEF Init, SpentInv, OneExchange, Known, HeldFresh, Settling, Active, NoTask
<1>2. Init => Promise!Init
  <2>1. Init => Settling = {}
    BY DEF Init, Settling, Active, NoTask
  <2>2. QED BY <2>1, NoneOut DEF Init, Held, Promise!Init
<1>3. SpentInv /\ [Next]_vars => SpentInv'
  BY SpentStep
<1>4. SpentInv /\ SpentInv' /\ [Next]_vars => [Promise!Next]_(Promise!vars)
  BY PromiseStep
<1>5. QED BY <1>1, <1>2, <1>3, <1>4, PTL DEF Spec, SpentInTurn, Promise!Spec
=============================================================================
