--------------------------- MODULE Conversations ----------------------------
(***************************************************************************)
(* The identifiers an app's conversation presents upstream                 *)
(* (codex_request.rs Conversations): one thread, a turn that changes when  *)
(* the user speaks, and an id for every item, kept while the app resends   *)
(* its history.                                                            *)
(*                                                                         *)
(* Every attempt of a request asks for them again.  A conversation unused  *)
(* for a day, or the least recently used when there are too many, goes     *)
(* when one that is not kept arrives, and all go when the pool restarts:   *)
(* the table is in memory.  A new UUID is one that neither the pool nor    *)
(* what upstream was last shown holds of the conversation.                 *)
(*                                                                         *)
(* A conversation here is what the pool takes for one, a key               *)
(* (conversation_key): the session an app names or, when it names none,    *)
(* the start of its history, so two unnamed ones that begin alike are one  *)
(* here, and a request may hold any history.                               *)
(***************************************************************************)
EXTENDS Integers, FiniteSets, SequencesExt

CONSTANTS
  Apps,    \* the keys of the apps' conversations
  Spoken,  \* items of the user's: the others are tool results
  Says,    \* [Apps -> the items a request may hold]
  Limit,   \* CONVERSATION_LIMIT
  MaxItems \* [Apps -> Nat]; bound: items of a history

ASSUME ConversationAssumption ==
  Limit \in Nat \ {0} /\ MaxItems \in [Apps -> Nat] /\ DOMAIN Says = Apps

VARIABLES
  entries,  \* the conversations kept
  older,    \* their keys by Conversation.used: pairs of one and a later one
  stale,    \* those unused for CONVERSATION_TTL
  shown,    \* [Apps -> what upstream was last shown of it]
  since     \* [Apps -> those shown after it; itself after a day or a restart]

threadVars == <<entries, older, stale, shown, since>>

Nothing == [thread |-> 0, turn |-> 0, said |-> <<>>, items |-> <<>>, ids |-> <<>>]

ThreadInit ==
  /\ entries = <<>> /\ older = {} /\ stale = {}
  /\ shown = [a \in Apps |-> Nothing]
  /\ since = [a \in Apps |-> {}]

-----------------------------------------------------------------------------
\* The app, the clock and the process.

\* What a request of the conversation holds: its history as it was, gone on or
\* taken up from an earlier point, or another that begins alike.
Histories(a) == BoundedSeq(Says[a], MaxItems[a])

\* A day passes without a request of any conversation but those.
DayPasses(used) ==
  /\ used \subseteq DOMAIN entries /\ stale # DOMAIN entries \ used
  /\ stale' = stale \cup (DOMAIN entries \ used)
  /\ since' = [a \in Apps |-> IF a \in stale' THEN since[a] \cup {a} ELSE since[a]]
  /\ UNCHANGED <<entries, older, shown>>

\* The pool restarts: its conversations were in memory only.
Restart ==
  /\ entries' = <<>> /\ older' = {} /\ stale' = {}
  /\ since' = [a \in Apps |-> since[a] \cup {a}]
  /\ UNCHANGED shown

-----------------------------------------------------------------------------
\* Conversations::turn.

\* The conversations used after this one.
Newer(fresh, k) == {l \in fresh : <<k, l>> \in older}

MutantEvictsLatest(fresh) ==
  {k \in fresh : Cardinality({l \in fresh : k \in Newer(fresh, l)}) >= Limit - 1}

\* What goes when a conversation that is not kept arrives: those after which
\* enough others were used to fill the table.
Evicted(fresh) == {k \in fresh : Cardinality(Newer(fresh, k)) >= Limit - 1}

Kept(a) ==
  LET fresh == DOMAIN entries \ stale
  IN  IF a \in DOMAIN entries THEN DOMAIN entries ELSE fresh \ Evicted(fresh)

\* The last message of the user, by its place and its text.
LastUser(items) ==
  LET said == {i \in DOMAIN items : items[i] \in Spoken}
  IN  IF said = {} THEN <<>> ELSE <<Max(said), items[Max(said)]>>

\* The n-th UUID drawn: one nobody holds.
Fresh(used, n) ==
  CHOOSE id \in 1..Cardinality(used) + n :
    id \notin used /\ Cardinality(1..id \ used) = n

Held(a) == IF a \in DOMAIN entries THEN {entries[a]} ELSE {}
Threads(a) == {e.thread : e \in Held(a)} \cup {shown[a].thread}
Turns(a)   == {e.turn : e \in Held(a)} \cup {shown[a].turn}
ItemIds(a) == (UNION {Range(e.ids) : e \in Held(a)}) \cup Range(shown[a].ids)

\* An id for each item at its place, drawn in order for those without one.
Identified(a, ids, items) ==
  LET new == {i \in DOMAIN items : <<i, items[i]>> \notin DOMAIN ids}
  IN  [p \in DOMAIN ids \cup {<<i, items[i]>> : i \in new} |->
         IF p \in DOMAIN ids THEN ids[p]
         ELSE Fresh(ItemIds(a), Cardinality({j \in new : j <= p[1]}))]

\* A turn starts when the user speaks; tool results continue it.
Turn(a, entry, items) ==
  LET user == LastUser(items)
      new  == entry.turn = 0 \/ user # entry.user
  IN  [entry EXCEPT !.turn = IF new THEN Fresh(Turns(a), 1) ELSE @,
                    !.user = user,
                    !.ids  = Identified(a, @, items)]

\* One attempt of a request of app a.
Sends(a, items) ==
  /\ LET entry == IF a \in DOMAIN entries THEN entries[a]
                  ELSE [thread |-> Fresh(Threads(a), 1), turn |-> 0, user |-> <<>>, ids |-> <<>>]
         now   == Turn(a, entry, items)
         kept  == Kept(a)
     IN  /\ entries' = [k \in kept \cup {a} |-> IF k = a THEN now ELSE entries[k]]
         /\ older' = {p \in older : {p[1], p[2]} \subseteq kept \ {a}} \cup (kept \ {a}) \X {a}
         /\ shown' = [shown EXCEPT ![a] =
              [thread |-> now.thread, turn |-> now.turn, said |-> LastUser(items),
               items |-> items, ids |-> [i \in DOMAIN items |-> now.ids[<<i, items[i]>>]]]]
  /\ stale' = (stale \cap DOMAIN entries') \ {a}
  /\ since' = [b \in Apps |-> IF b = a THEN {} ELSE since[b] \cup {a}]

ThreadNext ==
  \/ \E a \in Apps : \E items \in Histories(a) : Sends(a, items)
  \/ \E used \in SUBSET Apps : DayPasses(used)
  \/ Restart

ThreadSpec == ThreadInit /\ [][ThreadNext]_threadVars

-----------------------------------------------------------------------------
\* Upstream sees one Codex thread: a conversation's thread changes only after a
\* day without it, a restart, or as many others as the pool keeps; in one
\* thread the turn changes exactly when the last thing the user said does,
\* an item resent at its place keeps its id, and no two items share one
\* (codex_request.rs, the promise made by Conversations).
OneThread ==
  [][\A a \in Apps : LET was == shown[a]  now == shown'[a]
     IN  was.thread # 0 /\ now # was =>
           IF now.thread # was.thread
           THEN a \in since[a] \/ Cardinality(since[a]) >= Limit
           ELSE /\ now.turn = was.turn <=> now.said = was.said
                /\ \A i \in DOMAIN now.items :
                     /\ i \in DOMAIN was.items /\ was.items[i] = now.items[i] =>
                          now.ids[i] = was.ids[i]
                     /\ \A j \in DOMAIN now.items : now.ids[i] = now.ids[j] => i = j
    ]_threadVars
=============================================================================
