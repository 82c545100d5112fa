------------------------- MODULE GameSessionsProofs -------------------------
(***************************************************************************)
(* Proofs about GameSessions for any number of rounds, values, keys and      *)
(* concurrent expiries: the invariants of the session and its journal, the   *)
(* winner that never changes, the refinement of GameLifecycle, and the duel   *)
(* that stays fair and playable.                                             *)
(***************************************************************************)
EXTENDS GameSessions, TLAPS

\* What the handlers in flight and the seats tell of the row.
HandlersInv ==
  /\ \A w \in Workers : expirer[w].phase = "close" => expirer[w].seen.status \in Open
  /\ \A w \in Workers : expirer[w].phase \in {"leave", "record"} => session.status \notin {"NONE"} \cup Open
  /\ \A w \in Workers : expirer[w].phase # "idle" => session.status # "NONE"
  /\ \A c \in Closers : closer[c].phase # "idle" => session.status # "NONE"
  /\ \A p \in Positions : leaver[p].phase # "idle" => session.status # "NONE" /\ seat[p] # "DELETED"

SeatsInv ==
  /\ session.status = "NONE" => seat = [p \in Positions |-> "NONE"]
  /\ session.status = "ERASED" => \A p \in Positions : seat[p] = "DELETED"
  /\ session.status \in Open => \A p \in Positions : seat[p] # "DELETED"
  /\ session.status # "NONE" => \A p \in Positions : seat[p] # "NONE"

RowInv ==
  /\ session.status \in {"NONE", "ERASED"} \cup Open => session.winner = Nobody
  /\ session.status \in Open => ~session.duel.over /\ session.duel.winner = Nobody
  /\ session.status \in {"NONE", "WAITING"} => actions = <<>> /\ session.duel = createInitialState /\ session.sequence = 0
  /\ session.status = "NONE" => replay = NoReplay

GameInv ==
  /\ TypeOK
  /\ ActiveIsFullySeated
  /\ SeedStaysHidden
  /\ PlayedOutHasReplay
  /\ JournalReplays
  /\ HandlersInv
  /\ SeatsInv
  /\ RowInv

-----------------------------------------------------------------------------
\* A new duel is a duel that nobody has won.
LEMMA NewDuel == createInitialState \in Duels /\ ~createInitialState.over
                 /\ createInitialState.winner = Nobody
BY DuelAssumption DEF createInitialState, Duels, Pulses, NoPulse, Positions

\* An action of the engine keeps a duel a duel, and only its end has a winner.
LEMMA PulseKeepsDuel ==
  ASSUME NEW duel \in Duels, NEW p \in Positions, NEW value \in Values, NEW target \in Values,
         CanPulse(duel, p), duel.winner = Nobody
  PROVE  /\ Pulse(duel, p, value, target) \in Duels
         /\ ~Pulse(duel, p, value, target).over => Pulse(duel, p, value, target).winner = Nobody
<1>1. CASE duel.pending = NoPulse
  <2>1. Pulse(duel, p, value, target) = ChooseFirst(duel, p, value)
    BY <1>1 DEF Pulse
  <2>2. [position |-> p, value |-> value] \in Pulses /\ Other(p) \in Positions
    BY DuelAssumption DEF Pulses, Positions, Values, Other
  <2>3. ChooseFirst(duel, p, value) \in Duels /\ ChooseFirst(duel, p, value).winner = Nobody
    BY <2>2 DEF ChooseFirst, Duels
  <2> QED BY <2>1, <2>3
<1>2. CASE duel.pending # NoPulse
  <2> DEFINE scores == Scores(duel, p, value, target)
  <2>1. Pulse(duel, p, value, target) = EndRound(duel, scores)
    BY <1>2 DEF Pulse
  <2>2. scores \in [Positions -> Nat]
    BY DEF Scores, Duels, Positions
  <2>3. Leader(scores) \in Positions \cup {Nobody}
    BY DEF Leader, Least, Positions
  <2>4. NoPulse \in Pulses /\ Other(duel.starter) \in Positions
    BY DuelAssumption DEF Pulses, NoPulse, Positions, Other, Duels
  <2> HIDE DEF scores
  <2>5. EndRound(duel, scores) \in Duels
    <3>1. CASE duel.round >= Rounds
      BY <3>1, <2>2, <2>3, <2>4 DEF EndRound, Duels
    <3>2. CASE ~(duel.round >= Rounds)
      <4>1. duel.round + 1 \in 1..Rounds
        BY <3>2, DuelAssumption DEF Duels
      <4> QED BY <4>1, <3>2, <2>2, <2>4 DEF EndRound, Duels
    <3> QED BY <3>1, <3>2
  <2>6. ~EndRound(duel, scores).over => EndRound(duel, scores).winner = Nobody
    BY DEF EndRound, Duels, CanPulse
  <2> QED BY <2>1, <2>5, <2>6
<1> QED BY <1>1, <1>2

\* A snapshot is a replay, and it is one.
LEMMA SnapshotIsReplay ==
  ASSUME NEW outcome \in Ended, NEW row \in Sessions, replay \in Replays
  PROVE  Snapshot(outcome, row) \in Replays /\ Snapshot(outcome, row) # NoReplay
BY DEF Snapshot, Replays, NoReplay, Sessions, Ended

\* Leaving the open seats keeps them seats, deletes none and brings none back.
LEMMA VacatedSeats ==
  ASSUME seat \in [Positions -> SeatStatus]
  PROVE  /\ Vacated \in [Positions -> SeatStatus]
         /\ \A p \in Positions : (Vacated[p] = "DELETED" <=> seat[p] = "DELETED") /\ (Vacated[p] = "NONE" <=> seat[p] = "NONE")
BY DEF Vacated, SeatStatus

LEMMA NextVersion == ASSUME NEW row \in Sessions PROVE row.version + 1 \in Nat /\ row.sequence + 1 \in Nat
BY DEF Sessions

-----------------------------------------------------------------------------
\* GameInv holds initially.
LEMMA GameInit == Init => GameInv
<1> SUFFICES ASSUME Init PROVE GameInv
  OBVIOUS
<1> USE DEF Init
<1>1. NoSession \in Sessions
  BY NewDuel DEF NoSession, Sessions
<1>2. Idle \in Task
  BY <1>1 DEF Idle, Task
<1>3. NoReplay \in Replays
  BY NewDuel DEF NoReplay, Replays
<1>4. TypeOK
  BY <1>1, <1>2, <1>3 DEF TypeOK, SeatStatus
<1>5. JournalReplays
  BY DEF JournalReplays, StateBefore, NoSession
<1>6. ActiveIsFullySeated /\ SeedStaysHidden /\ PlayedOutHasReplay
  BY DEF ActiveIsFullySeated, SeedStaysHidden, PlayedOutHasReplay, NoSession, Open
<1>7. HandlersInv
  BY DEF HandlersInv, Idle
<1>8. SeatsInv
  BY DEF SeatsInv, NoSession, Open
<1>9. RowInv
  BY DEF RowInv, NoSession, Open
<1> QED BY <1>4, <1>5, <1>6, <1>7, <1>8, <1>9 DEF GameInv

\* The journal still replays when neither it nor the duel changes.
LEMMA JournalKept ==
  ASSUME JournalReplays, UNCHANGED <<seed, actions>>,
         session'.status # "ERASED" => session.status # "ERASED",
         session'.sequence = session.sequence, session'.duel = session.duel
  PROVE  JournalReplays'
BY DEF JournalReplays, Plays, StateBefore

LEMMA createKeeps == GameInv /\ create => GameInv'
<1> SUFFICES ASSUME GameInv, create PROVE GameInv'
  OBVIOUS
<1> USE DEF create
<1>0. TypeOK /\ session.status = "NONE" /\ actions = <<>> /\ replay = NoReplay
  BY DEF GameInv, RowInv
<1>a. /\ session'.status = "WAITING" /\ session'.sequence = 0 /\ session'.duel = createInitialState
      /\ session'.winner = Nobody /\ session' \in Sessions
  BY NewDuel DEF NoSession, Sessions, Open
<1>4. TypeOK'
  BY <1>0, <1>a DEF TypeOK, SeatStatus
<1>5. JournalReplays'
  BY <1>0, <1>a DEF JournalReplays, StateBefore
<1>6. ActiveIsFullySeated' /\ SeedStaysHidden' /\ PlayedOutHasReplay'
  BY <1>0, <1>a DEF ActiveIsFullySeated, SeedStaysHidden, PlayedOutHasReplay, Open
<1>7. HandlersInv'
  BY <1>0, <1>a DEF GameInv, HandlersInv, Open
<1>8. SeatsInv'
  BY <1>a DEF SeatsInv, Open
<1>9. RowInv'
  BY <1>0, <1>a, NewDuel DEF RowInv, Open
<1> QED BY <1>4, <1>5, <1>6, <1>7, <1>8, <1>9 DEF GameInv

LEMMA joinKeeps == ASSUME NEW p \in Positions PROVE GameInv /\ join(p) => GameInv'
<1> SUFFICES ASSUME GameInv, join(p) PROVE GameInv'
  OBVIOUS
<1> USE DEF join
<1>0. TypeOK /\ session \in Sessions
  BY DEF GameInv, TypeOK
<1>b. /\ session.status = "WAITING"
      /\ actions = <<>> /\ session.duel = createInitialState /\ session.sequence = 0 /\ session.winner = Nobody
      /\ replay = NoReplay
      /\ \A q \in Positions : seat[q] # "DELETED" /\ seat[q] # "NONE"
  BY DEF GameInv, RowInv, SeatsInv, SeedStaysHidden, Open
<1>a. /\ session'.status \in {"WAITING", "ACTIVE"} /\ session'.sequence = 0 /\ session'.duel = createInitialState
      /\ session'.winner = Nobody /\ session' \in Sessions
  <2>1. session' = [session EXCEPT !.status = "ACTIVE", !.version = session.version + 1, !.due = FALSE]
        \/ session' = session
    OBVIOUS
  <2>2. PICK v \in Nat : session' = [session EXCEPT !.status = "ACTIVE", !.version = v, !.due = FALSE]
                         \/ session' = session
    BY <2>1, <1>0, NextVersion
  <2> QED BY <2>2, <1>0, <1>b DEF Sessions, Open
<1>c. session'.status = "ACTIVE" => \A q \in Positions : seat'[q] = "JOINED"
  BY <1>0, <1>b DEF TypeOK, Seated
<1>d. \A q \in Positions : seat'[q] # "DELETED" /\ seat'[q] # "NONE"
  BY <1>0, <1>b DEF TypeOK
<1>4. TypeOK'
  BY <1>0, <1>a DEF TypeOK, SeatStatus
<1>5. JournalReplays'
  BY <1>b, <1>a DEF JournalReplays, StateBefore
<1>6. ActiveIsFullySeated' /\ SeedStaysHidden' /\ PlayedOutHasReplay'
  BY <1>b, <1>a, <1>c DEF ActiveIsFullySeated, SeedStaysHidden, PlayedOutHasReplay, Open
<1>7. HandlersInv'
  BY <1>b, <1>a, <1>d DEF GameInv, HandlersInv, Open
<1>8. SeatsInv'
  BY <1>a, <1>d DEF SeatsInv, Open
<1>9. RowInv'
  BY <1>b, <1>a, NewDuel DEF RowInv, Open
<1> QED BY <1>4, <1>5, <1>6, <1>7, <1>8, <1>9 DEF GameInv

LEMMA submitActionKeeps ==
  ASSUME NEW p \in Positions, NEW k \in Keys, NEW value \in Values
  PROVE  GameInv /\ submitAction(p, k, value) => GameInv'
<1> SUFFICES ASSUME GameInv, submitAction(p, k, value) PROVE GameInv'
  OBVIOUS
<1> DEFINE duel == Pulse(session.duel, p, value, seed[session.duel.round])
           act == [position |-> p, key |-> k, value |-> value, before |-> session.duel, after |-> duel]
<1>0. TypeOK /\ session \in Sessions /\ session.status = "ACTIVE" /\ CanPulse(session.duel, p)
  BY DEF GameInv, TypeOK, submitAction
<1>1. /\ session.duel \in Duels /\ session.duel.winner = Nobody /\ session.winner = Nobody
      /\ replay = NoReplay /\ \A q \in Positions : seat[q] = "JOINED"
  BY <1>0 DEF GameInv, RowInv, SeedStaysHidden, ActiveIsFullySeated, Sessions, Open
<1>2. seed[session.duel.round] \in Values
  BY <1>0, <1>1 DEF TypeOK, Duels
<1>3. duel \in Duels /\ (~duel.over => duel.winner = Nobody)
  BY <1>0, <1>1, <1>2, PulseKeepsDuel
<1>4. /\ session' = Advanced(duel) /\ actions' = Append(actions, act)
      /\ receipts' = receipts \cup {<<p, k>>} /\ UNCHANGED <<seed, expirer, closer, leaver>>
      /\ IF duel.over
         THEN /\ seat' = [q \in Positions |-> IF seat[q] = "JOINED" THEN "COMPLETED" ELSE seat[q]]
              /\ replay' = Snapshot("COMPLETED", session')
         ELSE UNCHANGED <<seat, replay>>
  BY DEF submitAction
<1>5. act \in Actions /\ act.before = session.duel /\ act.after = duel /\ act.position = p /\ act.value = value
  BY <1>1, <1>3 DEF Actions
<1>6. actions \in Seq(Actions)
  BY <1>0 DEF TypeOK
<1>p. act.after = Pulse(act.before, act.position, act.value, seed[act.before.round])
  BY <1>5
<1> HIDE DEF duel, act
<1>7. Advanced(duel) \in Sessions
  <2>1. PICK v \in Nat, n \in Nat :
          Advanced(duel) = [session EXCEPT !.duel = duel, !.sequence = n, !.version = v, !.winner = duel.winner,
                                           !.status = IF duel.over THEN "COMPLETED" ELSE "ACTIVE"]
    BY <1>0, NextVersion DEF Advanced
  <2>2. duel.winner \in Positions \cup {Nobody}
    BY <1>3 DEF Duels
  <2>3. (IF duel.over THEN "COMPLETED" ELSE "ACTIVE") \in {"COMPLETED", "ACTIVE"}
    OBVIOUS
  <2> QED BY <2>1, <2>2, <2>3, <1>0, <1>3 DEF Sessions, Open, Ended
<1>8. /\ session'.duel = duel /\ session'.sequence = session.sequence + 1 /\ session'.winner = duel.winner
      /\ session'.status = (IF duel.over THEN "COMPLETED" ELSE "ACTIVE")
  BY <1>0, <1>4 DEF Advanced, Sessions
<1>9. duel.over => replay' \in Replays /\ replay' # NoReplay
  BY <1>0, <1>4, <1>7, SnapshotIsReplay DEF TypeOK, Ended
<1>10. ~duel.over => replay' = NoReplay /\ seat' = seat
  BY <1>1, <1>4
<1>11. /\ seat' \in [Positions -> SeatStatus] /\ \A q \in Positions : seat'[q] \in {"JOINED", "COMPLETED"}
  BY <1>0, <1>1, <1>4 DEF TypeOK, SeatStatus
<1>12. TypeOK'
  <2>1. session' \in Sessions /\ actions' \in Seq(Actions) /\ replay' \in Replays
    BY <1>0, <1>4, <1>5, <1>6, <1>7, <1>9, <1>10, <1>1 DEF TypeOK
  <2> QED BY <2>1, <1>0, <1>4, <1>11 DEF TypeOK
<1>13. JournalReplays'
  <2>1. /\ session.sequence = Len(actions) /\ session.duel = StateBefore(actions, Len(actions) + 1)
        /\ \A i \in 1..Len(actions) : Plays(actions, i)
    BY <1>0 DEF GameInv, JournalReplays
  <2>2. /\ Len(actions') = Len(actions) + 1 /\ Len(actions) \in Nat
        /\ \A i \in 1..Len(actions) : actions'[i] = actions[i]
        /\ actions'[Len(actions) + 1] = act
    BY <1>4, <1>5, <1>6
  <2>3. \A i \in 1..Len(actions) + 1 : StateBefore(actions', i) = StateBefore(actions, i)
    BY <2>2 DEF StateBefore
  <2>4. \A i \in 1..Len(actions) : Plays(actions, i)'
    BY <2>1, <2>2, <2>3, <1>4 DEF Plays
  <2>6. Plays(actions', Len(actions) + 1)
    <3>1. Len(actions) + 1 \in 1..Len(actions) + 1
      BY <2>2
    <3>2. act.before = StateBefore(actions', Len(actions) + 1)
      BY <3>1, <2>1, <2>3, <1>5
    <3> QED BY <3>2, <2>2, <1>0, <1>5, <1>p DEF Plays
  <2>7. session'.duel = StateBefore(actions', Len(actions') + 1)
    BY <2>2, <1>8, <1>5 DEF StateBefore
  <2>8. \A i \in 1..Len(actions') : Plays(actions, i)'
    <3> SUFFICES ASSUME NEW i \in 1..Len(actions') PROVE Plays(actions', i)
      BY <1>4 DEF Plays, StateBefore
    <3>1. CASE i \in 1..Len(actions)
      BY <3>1, <2>4, <1>4 DEF Plays, StateBefore
    <3>2. CASE i = Len(actions) + 1
      BY <3>2, <2>6
    <3> QED BY <3>1, <3>2, <2>2
  <2> QED BY <2>1, <2>2, <2>7, <2>8, <1>8 DEF JournalReplays
<1>14. ActiveIsFullySeated' /\ SeedStaysHidden' /\ PlayedOutHasReplay'
  BY <1>1, <1>8, <1>9, <1>10 DEF ActiveIsFullySeated, SeedStaysHidden, PlayedOutHasReplay, Open
<1>15. HandlersInv'
  <2>1. HandlersInv /\ session.status \in Open /\ session'.status # "NONE"
    BY <1>0, <1>8 DEF GameInv, Open
  <2> QED BY <2>1, <1>4, <1>11, <1>1 DEF HandlersInv
<1>16. SeatsInv'
  BY <1>8, <1>11 DEF SeatsInv, Open
<1>17. RowInv'
  BY <1>8, <1>3, <1>10 DEF RowInv, Open
<1> QED BY <1>12, <1>13, <1>14, <1>15, <1>16, <1>17 DEF GameInv

\* A step that ends the game, or changes how it ended, and leaves the journal.
LEMMA EndKeeps ==
  ASSUME GameInv, TypeOK', UNCHANGED <<seed, actions>>,
         session.status \in Open \cup Ended, session'.status \in Ended,
         session'.sequence = session.sequence, session'.duel = session.duel,
         session'.status \in {"COMPLETED", "ABANDONED"} => replay' # NoReplay,
         \A p \in Positions : seat'[p] # "NONE",
         \A w \in Workers : expirer'[w].phase # "close" \/ expirer'[w] = expirer[w],
         \A p \in Positions : leaver'[p].phase # "idle" => seat'[p] # "DELETED"
  PROVE  GameInv'
<1>1. JournalReplays'
  BY JournalKept DEF GameInv, Open, Ended
<1>2. ActiveIsFullySeated' /\ SeedStaysHidden' /\ PlayedOutHasReplay'
  BY DEF ActiveIsFullySeated, SeedStaysHidden, PlayedOutHasReplay, Open, Ended
<1>3. HandlersInv'
  BY DEF GameInv, HandlersInv, Open, Ended
<1>4. SeatsInv'
  BY DEF SeatsInv, Open, Ended
<1>5. RowInv'
  BY DEF RowInv, Open, Ended
<1> QED BY <1>1, <1>2, <1>3, <1>4, <1>5 DEF GameInv

\* cancelSession is such a step.
LEMMA CancelEnds ==
  ASSUME GameInv, NEW row \in Sessions, CancelWith(row), UNCHANGED <<seed, actions, receipts>>,
         session.status \in Open \cup Ended,
         UNCHANGED expirer, closer' \in [Closers -> Task], UNCHANGED leaver
  PROVE  GameInv'
<1> USE DEF CancelWith
<1>0. TypeOK /\ session \in Sessions
  BY DEF GameInv, TypeOK
<1>1. session' \in Sessions /\ session'.status = "CANCELLED" /\ session'.sequence = session.sequence
      /\ session'.duel = session.duel
  <2>1. PICK v \in Nat : session' = [session EXCEPT !.status = "CANCELLED", !.version = v]
    BY <1>0, NextVersion
  <2> QED BY <2>1, <1>0 DEF Sessions, Ended
<1>2. replay' \in Replays
  BY <1>0, SnapshotIsReplay DEF TypeOK, Ended
<1>3. \A p \in Positions : seat[p] # "NONE"
  BY DEF GameInv, SeatsInv, Open, Ended
<1>4. /\ seat' \in [Positions -> SeatStatus] /\ \A p \in Positions : seat'[p] # "NONE"
      /\ \A p \in Positions : seat'[p] = "DELETED" <=> seat[p] = "DELETED"
  BY <1>0, <1>3, VacatedSeats DEF TypeOK
<1>5. TypeOK'
  BY <1>0, <1>1, <1>2, <1>4 DEF TypeOK
<1>6. \A p \in Positions : leaver'[p].phase # "idle" => seat'[p] # "DELETED"
  BY <1>4 DEF GameInv, HandlersInv
<1> QED BY <1>1, <1>4, <1>5, <1>6, EndKeeps DEF Ended

LEMMA DeclineKeeps == ASSUME NEW p \in Positions PROVE GameInv /\ Decline(p) => GameInv'
<1> SUFFICES ASSUME GameInv, Decline(p) PROVE GameInv'
  OBVIOUS
<1>1. session \in Sessions /\ expirer \in [Workers -> Task] /\ closer \in [Closers -> Task]
  BY DEF GameInv, TypeOK
<1> QED BY <1>1, CancelEnds DEF Decline, Open

LEMMA AbandonKeeps == ASSUME NEW p \in Positions PROVE GameInv /\ Abandon(p) => GameInv'
<1> SUFFICES ASSUME GameInv, Abandon(p) PROVE GameInv'
  OBVIOUS
<1> USE DEF Abandon
<1>0. TypeOK /\ session \in Sessions
  BY DEF GameInv, TypeOK
<1>1. \A q \in Positions : seat[q] = "JOINED"
  BY DEF GameInv, ActiveIsFullySeated
<1>2. Other(p) \in Positions
  BY DEF Other, Positions
<1>3. session' \in Sessions /\ session'.status = "ABANDONED" /\ session'.sequence = session.sequence
      /\ session'.duel = session.duel
  <2>1. PICK v \in Nat, w \in Positions \cup {Nobody} :
          session' = [session EXCEPT !.status = "ABANDONED", !.version = v, !.winner = w]
    BY <1>0, <1>2, NextVersion
  <2> QED BY <2>1, <1>0 DEF Sessions, Ended
<1>4. replay' \in Replays /\ replay' # NoReplay
  BY <1>0, SnapshotIsReplay DEF TypeOK, Ended
<1>5. seat' \in [Positions -> SeatStatus] /\ \A q \in Positions : seat'[q] \in {"ABANDONED", "COMPLETED"}
  BY <1>0, <1>1 DEF TypeOK, SeatStatus
<1>6. TypeOK'
  BY <1>0, <1>3, <1>4, <1>5 DEF TypeOK
<1> QED BY <1>3, <1>4, <1>5, <1>6, EndKeeps DEF Open, Ended

LEMMA TournamentCancelsKeeps == GameInv /\ TournamentCancels => GameInv'
<1> SUFFICES ASSUME GameInv, TournamentCancels PROVE GameInv'
  OBVIOUS
<1> USE DEF TournamentCancels
<1>0. TypeOK /\ session \in Sessions
  BY DEF GameInv, TypeOK
<1>1. session' \in Sessions /\ session'.status = "CANCELLED" /\ session'.sequence = session.sequence
      /\ session'.duel = session.duel
  <2>1. PICK v \in Nat : session' = [session EXCEPT !.status = "CANCELLED", !.version = v]
    BY <1>0, NextVersion
  <2> QED BY <2>1, <1>0 DEF Sessions, Ended
<1>2. \A p \in Positions : seat[p] # "NONE" /\ seat[p] # "DELETED"
  BY DEF GameInv, SeatsInv, Open
<1>3. seat' \in [Positions -> SeatStatus] /\ \A p \in Positions : seat'[p] # "NONE" /\ seat'[p] # "DELETED"
  BY <1>0, <1>2, VacatedSeats DEF TypeOK
<1>4. TypeOK'
  BY <1>0, <1>1, <1>3 DEF TypeOK
<1> QED BY <1>1, <1>3, <1>4, EndKeeps DEF Ended

-----------------------------------------------------------------------------
\* A step of a handler that leaves all of the row the invariants speak of.
LEMMA QuietKeeps ==
  ASSUME GameInv, TypeOK', HandlersInv', UNCHANGED <<seed, seat, actions, replay>>,
         session'.status = session.status, session'.sequence = session.sequence,
         session'.duel = session.duel, session'.winner = session.winner
  PROVE  GameInv'
<1>1. JournalReplays'
  BY JournalKept DEF GameInv
<1>2. ActiveIsFullySeated' /\ SeedStaysHidden' /\ PlayedOutHasReplay'
  BY DEF GameInv, ActiveIsFullySeated, SeedStaysHidden, PlayedOutHasReplay
<1>3. SeatsInv'
  BY DEF GameInv, SeatsInv
<1>4. RowInv'
  BY DEF GameInv, RowInv
<1> QED BY <1>1, <1>2, <1>3, <1>4 DEF GameInv

\* A step after which a run of an expiry, a cancellation and a deletion are in flight.
LEMMA TaskKept ==
  ASSUME TypeOK, NEW phase \in {"idle", "look", "close", "leave", "record", "write"}
  PROVE  /\ [phase |-> phase, seen |-> session] \in Task /\ Idle \in Task
         /\ \A w \in Workers : [expirer EXCEPT ![w].phase = phase] \in [Workers -> Task]
         /\ \A c \in Closers : [closer EXCEPT ![c].phase = phase] \in [Closers -> Task]
<1>1. NoSession \in Sessions
  BY NewDuel DEF NoSession, Sessions
<1>2. [phase |-> phase, seen |-> session] \in Task /\ Idle \in Task
  BY <1>1 DEF TypeOK, Task, Idle
<1>3. \A t \in Task : [t EXCEPT !.phase = phase] \in Task
  BY DEF Task
<1> HIDE DEF TypeOK
<1>4. expirer \in [Workers -> Task] /\ closer \in [Closers -> Task]
  BY DEF TypeOK
<1> QED BY <1>2, <1>3, <1>4

LEMMA OverdueKeeps == GameInv /\ Overdue => GameInv'
<1> SUFFICES ASSUME GameInv, Overdue PROVE GameInv'
  OBVIOUS
<1> USE DEF Overdue
<1>1. TypeOK'
  BY DEF GameInv, TypeOK, Sessions
<1>2. session'.status = session.status /\ session'.sequence = session.sequence
      /\ session'.duel = session.duel /\ session'.winner = session.winner
  BY DEF GameInv, TypeOK, Sessions
<1>3. HandlersInv'
  BY <1>2 DEF GameInv, HandlersInv
<1> QED BY <1>1, <1>2, <1>3, QuietKeeps

LEMMA LookDueKeeps == ASSUME NEW w \in Workers PROVE GameInv /\ LookDue(w) => GameInv'
<1> SUFFICES ASSUME GameInv, LookDue(w) PROVE GameInv'
  OBVIOUS
<1> USE DEF LookDue
<1>0. TypeOK /\ UNCHANGED rows
  BY DEF GameInv
<1>1. [phase |-> "close", seen |-> session] \in Task
  BY <1>0, TaskKept
<1>2. TypeOK'
  BY <1>0, <1>1 DEF TypeOK, rows
<1>3. HandlersInv'
  <2>1. \A v \in Workers : expirer'[v] = (IF v = w THEN [phase |-> "close", seen |-> session] ELSE expirer[v])
    BY <1>0 DEF TypeOK
  <2> QED BY <1>0, <2>1 DEF GameInv, HandlersInv, rows, Open
<1> QED BY <1>0, <1>2, <1>3, QuietKeeps DEF rows

LEMMA CrashKeeps == ASSUME NEW w \in Workers PROVE GameInv /\ Crash(w) => GameInv'
<1> SUFFICES ASSUME GameInv, Crash(w) PROVE GameInv'
  OBVIOUS
<1> USE DEF Crash
<1>0. TypeOK /\ UNCHANGED rows
  BY DEF GameInv
<1>1. Idle \in Task
  BY <1>0, TaskKept
<1>2. TypeOK'
  BY <1>0, <1>1 DEF TypeOK, rows
<1>3. HandlersInv'
  <2>1. \A v \in Workers : expirer'[v] = (IF v = w THEN Idle ELSE expirer[v])
    BY <1>0 DEF TypeOK
  <2> QED BY <1>0, <2>1 DEF GameInv, HandlersInv, rows, Idle
<1> QED BY <1>0, <1>2, <1>3, QuietKeeps DEF rows

LEMMA CloseDueKeeps == ASSUME NEW w \in Workers PROVE GameInv /\ CloseDue(w) => GameInv'
<1> SUFFICES ASSUME GameInv, CloseDue(w) PROVE GameInv'
  OBVIOUS
<1> USE DEF CloseDue
<1>0. TypeOK /\ session \in Sessions /\ HandlersInv
  BY DEF GameInv, TypeOK
<1>1. CASE StillDue(w)
  <2>1. session' = [session EXCEPT !.status = "EXPIRED", !.version = session.version + 1]
        /\ expirer' = [expirer EXCEPT ![w].phase = "leave"]
    BY <1>1
  <2>2. session' \in Sessions /\ session'.status = "EXPIRED" /\ session'.sequence = session.sequence
        /\ session'.duel = session.duel
    <3>1. PICK v \in Nat : session' = [session EXCEPT !.status = "EXPIRED", !.version = v]
      BY <1>0, <2>1, NextVersion
    <3> QED BY <3>1, <1>0 DEF Sessions, Ended
  <2>3. expirer' \in [Workers -> Task]
    BY <2>1, <1>0, TaskKept
  <2>4. TypeOK'
    BY <1>0, <2>2, <2>3 DEF TypeOK
  <2>5. session.status \in Open
    BY <1>0, <1>1 DEF StillDue, HandlersInv
  <2>6. \A p \in Positions : seat[p] # "NONE"
    BY <2>5 DEF GameInv, SeatsInv, Open
  <2>7. \A p \in Positions : leaver'[p].phase # "idle" => seat'[p] # "DELETED"
    BY <1>0 DEF HandlersInv
  <2>8. \A v \in Workers : expirer'[v].phase # "close" \/ expirer'[v] = expirer[v]
    BY <1>0, <2>1 DEF TypeOK, Task
  <2> QED BY <2>2, <2>4, <2>5, <2>6, <2>7, <2>8, EndKeeps DEF Ended
<1>2. CASE ~StillDue(w)
  <2>1. session' = session /\ expirer' = [expirer EXCEPT ![w] = Idle]
    BY <1>2
  <2>2. TypeOK'
    BY <1>0, <2>1, TaskKept DEF TypeOK
  <2>3. \A v \in Workers : expirer'[v] = (IF v = w THEN Idle ELSE expirer[v])
    BY <1>0, <2>1 DEF TypeOK
  <2>4. HandlersInv'
    BY <1>0, <2>1, <2>3 DEF HandlersInv, Idle
  <2> QED BY <2>1, <2>2, <2>4, QuietKeeps
<1> QED BY <1>1, <1>2

LEMMA LeaveDueKeeps == ASSUME NEW w \in Workers PROVE GameInv /\ LeaveDue(w) => GameInv'
<1> SUFFICES ASSUME GameInv, LeaveDue(w) PROVE GameInv'
  OBVIOUS
<1> USE DEF LeaveDue
<1>0. TypeOK /\ session \in Sessions /\ session.status \notin {"NONE"} \cup Open
  BY DEF GameInv, TypeOK, HandlersInv
<1>1. \A v \in Workers : expirer'[v].phase # "close" \/ expirer'[v] = expirer[v]
  BY <1>0 DEF TypeOK, Task
<1>2. expirer' \in [Workers -> Task]
  BY <1>0, TaskKept
<1>3. seat' \in [Positions -> SeatStatus] /\ \A p \in Positions :
        (seat'[p] = "DELETED" <=> seat[p] = "DELETED") /\ (seat'[p] = "NONE" <=> seat[p] = "NONE")
  BY <1>0, VacatedSeats DEF TypeOK
<1>4. TypeOK'
  BY <1>0, <1>2, <1>3 DEF TypeOK
<1>5. \A p \in Positions : leaver'[p].phase # "idle" => seat'[p] # "DELETED"
  BY <1>3 DEF GameInv, HandlersInv
<1>6. CASE session.status \in Ended
  <2>1. \A p \in Positions : seat'[p] # "NONE"
    BY <1>0, <1>3 DEF GameInv, SeatsInv
  <2>2. session'.status \in {"COMPLETED", "ABANDONED"} => replay' # NoReplay
    BY DEF GameInv, PlayedOutHasReplay
  <2> QED BY <1>1, <1>4, <1>5, <1>6, <2>1, <2>2, EndKeeps
<1>7. CASE session.status = "ERASED"
  <2>1. \A p \in Positions : seat[p] = "DELETED"
    BY <1>7 DEF GameInv, SeatsInv
  <2>2. seat' = seat
    BY <2>1, <1>0 DEF TypeOK, Vacated
  <2>3. HandlersInv'
    BY <1>1, <1>5, <1>0 DEF GameInv, HandlersInv
  <2> QED BY <1>4, <2>2, <2>3, QuietKeeps
<1> QED BY <1>0, <1>6, <1>7 DEF Sessions

LEMMA RecordDueKeeps == ASSUME NEW w \in Workers PROVE GameInv /\ RecordDue(w) => GameInv'
<1> SUFFICES ASSUME GameInv, RecordDue(w) PROVE GameInv'
  OBVIOUS
<1> USE DEF RecordDue
<1>0. TypeOK /\ session \in Sessions /\ session.status \notin {"NONE"} \cup Open /\ expirer[w].seen \in Sessions
  BY DEF GameInv, TypeOK, HandlersInv, Task
<1>1. \A v \in Workers : expirer'[v].phase # "close" \/ expirer'[v] = expirer[v]
  BY <1>0 DEF TypeOK, Idle
<1>2. expirer' \in [Workers -> Task]
  BY <1>0, TaskKept DEF TypeOK
<1>3. replay' \in Replays /\ replay' # NoReplay
  BY <1>0, SnapshotIsReplay DEF TypeOK, Ended
<1>4. TypeOK'
  BY <1>0, <1>2, <1>3 DEF TypeOK
<1>5. \A p \in Positions : leaver'[p].phase # "idle" => seat'[p] # "DELETED"
  BY DEF GameInv, HandlersInv
<1>6. CASE session.status \in Ended
  <2>1. \A p \in Positions : seat'[p] # "NONE"
    BY <1>0 DEF GameInv, SeatsInv
  <2> QED BY <1>1, <1>3, <1>4, <1>5, <1>6, <2>1, EndKeeps
<1>7. CASE session.status = "ERASED"
  <2>1. JournalReplays'
    BY <1>7 DEF JournalReplays
  <2>2. ActiveIsFullySeated' /\ SeedStaysHidden' /\ PlayedOutHasReplay'
    BY <1>7 DEF ActiveIsFullySeated, SeedStaysHidden, PlayedOutHasReplay, Open
  <2>3. HandlersInv'
    BY <1>0, <1>1, <1>5 DEF GameInv, HandlersInv
  <2>4. SeatsInv'
    BY DEF GameInv, SeatsInv
  <2>5. RowInv'
    BY <1>7 DEF GameInv, RowInv, Open
  <2> QED BY <1>4, <2>1, <2>2, <2>3, <2>4, <2>5 DEF GameInv
<1> QED BY <1>0, <1>6, <1>7 DEF Sessions

LEMMA CheckCancelKeeps == ASSUME NEW c \in Closers PROVE GameInv /\ CheckCancel(c) => GameInv'
<1> SUFFICES ASSUME GameInv, CheckCancel(c) PROVE GameInv'
  OBVIOUS
<1>0. TypeOK /\ UNCHANGED <<rows, expirer, leaver>> /\ closer' = [closer EXCEPT ![c].phase = "look"]
  BY DEF GameInv, CheckCancel
<1>1. session.status \in Open
  BY DEF CheckCancel, MayClose, Open
<1>2. TypeOK'
  BY <1>0, TaskKept DEF TypeOK, rows
<1>3. HandlersInv'
  BY <1>0, <1>1 DEF GameInv, HandlersInv, rows, Open
<1> QED BY <1>0, <1>2, <1>3, QuietKeeps DEF rows

LEMMA ReadCancelKeeps == ASSUME NEW c \in Closers PROVE GameInv /\ ReadCancel(c) => GameInv'
<1> SUFFICES ASSUME GameInv, ReadCancel(c) PROVE GameInv'
  OBVIOUS
<1>0. TypeOK /\ UNCHANGED <<rows, expirer, leaver>> /\ closer[c].phase = "look"
  BY DEF GameInv, ReadCancel
<1>1. session.status # "NONE"
  BY <1>0 DEF GameInv, HandlersInv
<1>2. PICK t \in Task : closer' = [closer EXCEPT ![c] = t]
  BY <1>0, TaskKept DEF ReadCancel
<1>3. TypeOK'
  BY <1>0, <1>2 DEF TypeOK, rows
<1>4. HandlersInv'
  BY <1>0, <1>1 DEF GameInv, HandlersInv, rows
<1> QED BY <1>0, <1>3, <1>4, QuietKeeps DEF rows

LEMMA WriteCancelKeeps == ASSUME NEW c \in Closers PROVE GameInv /\ WriteCancel(c) => GameInv'
<1> SUFFICES ASSUME GameInv, WriteCancel(c) PROVE GameInv'
  OBVIOUS
<1>0. TypeOK /\ UNCHANGED <<expirer, leaver>> /\ closer[c].phase = "write" /\ closer[c].seen \in Sessions
      /\ closer' = [closer EXCEPT ![c] = Idle]
  BY DEF GameInv, WriteCancel, TypeOK, Task
<1>1. session.status # "NONE" /\ session \in Sessions
  BY <1>0 DEF GameInv, HandlersInv, TypeOK
<1>2. closer' \in [Closers -> Task]
  BY <1>0, TaskKept DEF TypeOK
<1>3. CASE session.status = "ERASED"
  <2>1. UNCHANGED rows
    BY <1>3 DEF WriteCancel
  <2>2. TypeOK'
    BY <1>0, <1>2, <2>1 DEF TypeOK, rows
  <2>3. HandlersInv'
    BY <1>0, <1>1, <2>1 DEF GameInv, HandlersInv, rows
  <2> QED BY <2>1, <2>2, <2>3, QuietKeeps DEF rows
<1>4. CASE session.status # "ERASED"
  <2>1. session.status \in Open \cup Ended
    BY <1>1, <1>4 DEF Sessions
  <2>2. CancelWith(closer[c].seen) /\ UNCHANGED <<seed, actions, receipts>>
    BY <1>4 DEF WriteCancel
  <2> QED BY <1>0, <1>2, <2>1, <2>2, CancelEnds
<1> QED BY <1>3, <1>4

LEMMA ReadDeletionKeeps == ASSUME NEW p \in Positions PROVE GameInv /\ ReadDeletion(p) => GameInv'
<1> SUFFICES ASSUME GameInv, ReadDeletion(p) PROVE GameInv'
  OBVIOUS
<1>0. /\ TypeOK /\ UNCHANGED <<rows, expirer, closer>> /\ seat[p] \notin {"NONE", "DELETED"}
      /\ leaver' = [leaver EXCEPT ![p] = [phase |-> "write", seen |-> session]]
  BY DEF GameInv, ReadDeletion
<1>1. session.status # "NONE"
  BY <1>0 DEF GameInv, SeatsInv
<1>2. TypeOK'
  BY <1>0, TaskKept DEF TypeOK, rows
<1>3. \A q \in Positions : q # p => leaver'[q] = leaver[q]
  BY <1>0 DEF TypeOK
<1>4. HandlersInv'
  BY <1>0, <1>1, <1>3 DEF GameInv, HandlersInv, rows
<1> QED BY <1>0, <1>2, <1>4, QuietKeeps DEF rows

LEMMA WriteDeletionKeeps == ASSUME NEW p \in Positions PROVE GameInv /\ WriteDeletion(p) => GameInv'
<1> SUFFICES ASSUME GameInv, WriteDeletion(p) PROVE GameInv'
  OBVIOUS
<1>0. /\ TypeOK /\ session \in Sessions /\ leaver[p].phase = "write" /\ leaver[p].seen \in Sessions
      /\ seat' = [seat EXCEPT ![p] = "DELETED"] /\ leaver' = [leaver EXCEPT ![p] = Idle]
      /\ UNCHANGED <<seed, expirer, closer>>
  BY DEF GameInv, WriteDeletion, TypeOK, Task
<1>1. session.status # "NONE" /\ seat[p] # "DELETED" /\ session.status # "ERASED"
  BY <1>0 DEF GameInv, HandlersInv, SeatsInv
<1>2. leaver' \in [Positions -> Task] /\ seat' \in [Positions -> SeatStatus]
  BY <1>0, TaskKept DEF TypeOK, SeatStatus
<1>3. \A q \in Positions : leaver'[q] = (IF q = p THEN Idle ELSE leaver[q])
                             /\ seat'[q] = (IF q = p THEN "DELETED" ELSE seat[q])
  BY <1>0 DEF TypeOK
<1>4. \A q \in Positions : leaver'[q].phase # "idle" => seat'[q] # "DELETED"
  BY <1>3 DEF GameInv, HandlersInv, Idle
<1>5. \A q \in Positions : seat'[q] # "NONE"
  BY <1>1, <1>3 DEF GameInv, SeatsInv
<1>6. CASE Seated = {p}
  <2>1. /\ session' = [NoSession EXCEPT !.status = "ERASED", !.version = session.version]
        /\ actions' = <<>> /\ receipts' = {} /\ replay' = NoReplay
    BY <1>6 DEF WriteDeletion
  <2>2. session' \in Sessions /\ session'.status = "ERASED" /\ session'.winner = Nobody
    BY <1>0, <2>1, NewDuel DEF Sessions, NoSession
  <2>3. replay' \in Replays
    BY <2>1, NewDuel DEF Replays, NoReplay
  <2>4. TypeOK'
    BY <1>0, <1>2, <2>1, <2>2, <2>3 DEF TypeOK
  <2>5. \A q \in Positions : seat'[q] = "DELETED"
    BY <1>3, <1>6 DEF Seated
  <2>6. JournalReplays' /\ ActiveIsFullySeated' /\ SeedStaysHidden' /\ PlayedOutHasReplay'
    BY <2>2 DEF JournalReplays, ActiveIsFullySeated, SeedStaysHidden, PlayedOutHasReplay, Open
  <2>7. HandlersInv'
    BY <1>0, <1>4, <2>2 DEF GameInv, HandlersInv, Open
  <2>8. SeatsInv' /\ RowInv'
    BY <2>2, <2>5 DEF SeatsInv, RowInv, Open
  <2> QED BY <2>4, <2>6, <2>7, <2>8 DEF GameInv
<1>7. CASE Seated # {p}
  <2>1. /\ session' = Bereft(p) /\ receipts' = {r \in receipts : r[1] # p} /\ UNCHANGED actions
        /\ replay' = IF leaver[p].seen.status \in Open
                     THEN [outcome |-> "CANCELLED", count |-> leaver[p].seen.sequence,
                           final |-> leaver[p].seen.duel]
                     ELSE replay
    BY <1>7 DEF WriteDeletion
  <2>2. /\ session' \in Sessions /\ session'.sequence = session.sequence /\ session'.duel = session.duel
        /\ session'.status = (IF session.status \in Open THEN "CANCELLED" ELSE session.status)
    <3>1. PICK v \in Nat, w \in Positions \cup {Nobody}, st \in Open \cup Ended :
            /\ session' = [session EXCEPT !.status = st, !.version = v, !.winner = w]
            /\ st = IF session.status \in Open THEN "CANCELLED" ELSE session.status
      <4>1. (IF session.status \in Open THEN session.version + 1 ELSE session.version) \in Nat
        BY <1>0 DEF Sessions
      <4>2. (IF session.winner = p THEN Nobody ELSE session.winner) \in Positions \cup {Nobody}
        BY <1>0 DEF Sessions
      <4>3. (IF session.status \in Open THEN "CANCELLED" ELSE session.status) \in Open \cup Ended
        BY <1>0, <1>1 DEF Sessions, Ended
      <4> QED BY <2>1, <4>1, <4>2, <4>3, Zenon DEF Bereft
    <3> QED BY <3>1, <1>0 DEF Sessions
  <2>3. session.status \in Open \cup Ended /\ session'.status \in Ended
    BY <1>0, <1>1, <2>2 DEF Sessions, Ended
  <2>4. replay' \in Replays
    BY <1>0, <2>1 DEF TypeOK, Replays, Sessions, Ended
  <2>5. session'.status \in {"COMPLETED", "ABANDONED"} => replay' # NoReplay
    BY <2>1, <2>2 DEF GameInv, PlayedOutHasReplay, NoReplay
  <2>6. TypeOK'
    BY <1>0, <1>2, <2>1, <2>2, <2>4 DEF TypeOK
  <2> QED BY <1>0, <1>4, <1>5, <2>1, <2>2, <2>3, <2>5, <2>6, EndKeeps
<1> QED BY <1>6, <1>7

LEMMA NextKeeps == GameInv /\ [Next]_vars => GameInv'
<1> SUFFICES ASSUME GameInv, [Next]_vars PROVE GameInv'
  OBVIOUS
<1>1. CASE create
  BY <1>1, createKeeps
<1>2. CASE TournamentCancels
  BY <1>2, TournamentCancelsKeeps
<1>3. CASE Overdue
  BY <1>3, OverdueKeeps
<1>4. ASSUME NEW p \in Positions, Player(p) PROVE GameInv'
  BY <1>4, joinKeeps, submitActionKeeps, DeclineKeeps, AbandonKeeps, ReadDeletionKeeps,
     WriteDeletionKeeps DEF Player
<1>5. ASSUME NEW w \in Workers, Expirer(w) PROVE GameInv'
  BY <1>5, LookDueKeeps, CloseDueKeeps, LeaveDueKeeps, RecordDueKeeps, CrashKeeps DEF Expirer
<1>6. ASSUME NEW c \in Closers, Closer(c) PROVE GameInv'
  BY <1>6, CheckCancelKeeps, ReadCancelKeeps, WriteCancelKeeps DEF Closer
<1>7. CASE UNCHANGED vars
  <2>1. TypeOK' /\ HandlersInv'
    BY <1>7 DEF vars, rows, GameInv, TypeOK, HandlersInv
  <2> QED BY <1>7, <2>1, QuietKeeps DEF vars, rows
<1> QED BY <1>1, <1>2, <1>3, <1>4, <1>5, <1>6, <1>7 DEF Next

\* GameInv is an invariant: of whatever interleaving of players, expiries,
\* cancellations and account deletions.
THEOREM GameInvHolds == Spec => []GameInv
BY GameInit, NextKeeps, PTL DEF Spec

\* The types of the session's rows and of the handlers in flight.
THEOREM TypesHold == Spec => []TypeOK
<1>1. GameInv => TypeOK
  BY DEF GameInv
<1> QED BY <1>1, GameInvHolds, PTL

\* A game is under way only while both seats are taken.
THEOREM ActiveGameIsSeated == Spec => []ActiveIsFullySeated
<1>1. GameInv => ActiveIsFullySeated
  BY DEF GameInv
<1> QED BY <1>1, GameInvHolds, PTL

\* The seed is not shown while the game may still be played.
THEOREM SeedIsHidden == Spec => []SeedStaysHidden
<1>1. GameInv => SeedStaysHidden
  BY DEF GameInv
<1> QED BY <1>1, GameInvHolds, PTL

\* A game played out or abandoned can be replayed.
THEOREM PlayedGameHasReplay == Spec => []PlayedOutHasReplay
<1>1. GameInv => PlayedOutHasReplay
  BY DEF GameInv
<1> QED BY <1>1, GameInvHolds, PTL

\* The journal gives the state of the session again, action by action.
THEOREM JournalIsExact == Spec => []JournalReplays
<1>1. GameInv => JournalReplays
  BY DEF GameInv
<1> QED BY <1>1, GameInvHolds, PTL

-----------------------------------------------------------------------------
\* What a step may do to how the game stands.
Begins == session.status = "NONE" /\ session'.status = "WAITING" /\ session'.winner = session.winner
Starts == session.status = "WAITING" /\ session'.status = "ACTIVE" /\ session'.winner = session.winner
PlaysOut ==
  /\ session.status = "ACTIVE"
  /\ \/ session'.status = "COMPLETED" /\ session'.winner \in Positions \cup {Nobody}
     \/ session'.status = "ABANDONED" /\ session'.winner \in Positions
Closes ==
  session.status \in Open /\ session'.status \in {"CANCELLED", "EXPIRED"} /\ session'.winner = session.winner
ClosesLate ==
  session.status \in Ended /\ session'.status = "CANCELLED" /\ session'.winner = session.winner
Forgets ==
  session.status \in Ended /\ session'.status \in {session.status, "ERASED"} /\ session'.winner = Nobody
Stays == session'.status = session.status /\ session'.winner = session.winner
Outcome == Begins \/ Starts \/ PlaysOut \/ Closes \/ ClosesLate \/ Forgets \/ Stays

\* Every step of every handler is one of these.
LEMMA StepOutcome == GameInv /\ [Next]_vars => Outcome
<1> SUFFICES ASSUME GameInv, [Next]_vars PROVE Outcome
  OBVIOUS
<1>0. session \in Sessions /\ TypeOK /\ RowInv
  BY DEF GameInv, TypeOK
<1>c. ASSUME NEW row, CancelWith(row), session.status \in Open \cup Ended PROVE Outcome
  <2>1. session'.status = "CANCELLED" /\ session'.winner = session.winner
    BY <1>0, <1>c DEF CancelWith, Sessions
  <2> QED BY <2>1, <1>c DEF Outcome, Closes, ClosesLate
<1>1. CASE create
  BY <1>0, <1>1 DEF create, Outcome, Begins, NoSession, RowInv
<1>2. CASE TournamentCancels
  <2>1. session'.status = "CANCELLED" /\ session'.winner = session.winner
    BY <1>0, <1>2 DEF TournamentCancels, Sessions
  <2> QED BY <2>1, <1>2 DEF TournamentCancels, Outcome, Closes
<1>3. CASE Overdue
  BY <1>0, <1>3 DEF Overdue, Outcome, Stays, Sessions
<1>4. ASSUME NEW p \in Positions, Player(p) PROVE Outcome
  <2>1. CASE join(p)
    BY <1>0, <2>1 DEF join, Outcome, Starts, Stays, Sessions
  <2>2. ASSUME NEW k \in Keys, NEW value \in Values, submitAction(p, k, value) PROVE Outcome
    <3> DEFINE duel == Pulse(session.duel, p, value, seed[session.duel.round])
    <3>1. session.status = "ACTIVE" /\ session' = Advanced(duel) /\ CanPulse(session.duel, p)
      BY <2>2 DEF submitAction
    <3>2. session.duel \in Duels /\ session.duel.winner = Nobody /\ session.winner = Nobody
          /\ seed[session.duel.round] \in Values
      BY <1>0, <3>1 DEF RowInv, Sessions, Open, TypeOK, Duels
    <3>3. duel \in Duels /\ (~duel.over => duel.winner = Nobody)
      BY <3>1, <3>2, PulseKeepsDuel
    <3> HIDE DEF duel
    <3>4. session'.winner = duel.winner /\ session'.status = (IF duel.over THEN "COMPLETED" ELSE "ACTIVE")
      BY <1>0, <3>1 DEF Advanced, Sessions
    <3>5. duel.winner \in Positions \cup {Nobody}
      BY <3>3 DEF Duels
    <3> QED BY <3>1, <3>2, <3>3, <3>4, <3>5 DEF Outcome, PlaysOut, Stays
  <2>3. CASE Decline(p)
    BY <1>c, <2>3 DEF Decline, Open
  <2>4. CASE Abandon(p)
    <3>1. session.status = "ACTIVE" /\ Other(p) \in Positions /\ Other(p) # p
      BY <2>4 DEF Abandon, Other, Positions
    <3>2. Joined(p) # {}
      BY <3>1 DEF GameInv, ActiveIsFullySeated, Joined
    <3>3. session'.status = "ABANDONED" /\ session'.winner = Other(p)
      BY <1>0, <2>4, <3>2 DEF Abandon, Sessions
    <3> QED BY <3>1, <3>3 DEF Outcome, PlaysOut
  <2>5. CASE ReadDeletion(p)
    BY <2>5 DEF ReadDeletion, rows, Outcome, Stays
  <2>6. CASE WriteDeletion(p)
    <3>1. /\ session.status \in Open \cup Ended /\ leaver[p].phase = "write" /\ seat[p] # "DELETED"
          /\ session.status \in Open => session.winner = Nobody
      BY <1>0, <2>6 DEF WriteDeletion, GameInv, HandlersInv, SeatsInv, Sessions, RowInv
    <3>2. CASE Seated = {p}
      <4>1. session'.status = "ERASED" /\ session'.winner = Nobody
        BY <2>6, <3>2 DEF WriteDeletion, NoSession
      <4>2. Other(p) \in Positions /\ Other(p) # p /\ Other(p) \notin Seated
        BY <3>2 DEF Other, Positions
      <4>3. session.status \notin Open
        BY <4>2 DEF GameInv, SeatsInv, Seated
      <4> QED BY <3>1, <4>1, <4>3 DEF Outcome, Forgets
    <3>3. CASE Seated # {p}
      <4>1. session' = Bereft(p)
        BY <2>6, <3>3 DEF WriteDeletion
      <4>2. /\ session'.status = (IF session.status \in Open THEN "CANCELLED" ELSE session.status)
            /\ session'.winner = (IF session.winner = p THEN Nobody ELSE session.winner)
        BY <1>0, <4>1 DEF Bereft, Sessions
      <4> QED BY <3>1, <4>2 DEF Outcome, Forgets, Closes, Stays
    <3> QED BY <3>2, <3>3
  <2> QED BY <1>4, <2>1, <2>2, <2>3, <2>4, <2>5, <2>6 DEF Player
<1>5. ASSUME NEW w \in Workers, Expirer(w) PROVE Outcome
  <2>1. CASE CloseDue(w)
    <3>1. CASE StillDue(w)
      <4>1. session'.status = "EXPIRED" /\ session'.winner = session.winner
        BY <1>0, <2>1, <3>1 DEF CloseDue, Sessions
      <4>2. session.status \in Open
        BY <2>1, <3>1 DEF CloseDue, StillDue, GameInv, HandlersInv
      <4> QED BY <4>1, <4>2 DEF Outcome, Closes
    <3>2. CASE ~StillDue(w)
      BY <2>1, <3>2 DEF CloseDue, Outcome, Stays
    <3> QED BY <3>1, <3>2
  <2> QED BY <1>5, <2>1 DEF Expirer, LookDue, LeaveDue, RecordDue, Crash, rows, Outcome, Stays
<1>6. ASSUME NEW c \in Closers, Closer(c) PROVE Outcome
  <2>1. CASE WriteCancel(c)
    <3>1. CASE session.status = "ERASED"
      BY <2>1, <3>1 DEF WriteCancel, rows, Outcome, Stays
    <3>2. CASE session.status # "ERASED"
      <4>1. session.status \in Open \cup Ended
        BY <1>0, <2>1, <3>2 DEF WriteCancel, GameInv, HandlersInv, Sessions
      <4> QED BY <1>c, <2>1, <3>2, <4>1 DEF WriteCancel
    <3> QED BY <3>1, <3>2
  <2> QED BY <1>6, <2>1 DEF Closer, CheckCancel, ReadCancel, rows, Outcome, Stays
<1>7. CASE UNCHANGED vars
  BY <1>7 DEF vars, rows, Outcome, Stays
<1> QED BY <1>1, <1>2, <1>3, <1>4, <1>5, <1>6, <1>7 DEF Next

\* A winner is never replaced, whatever ends or closes the game again.
THEOREM WinnerNeverChanges == Spec => WinnerIsKept
<1>1. GameInv /\ [Next]_vars => [session.winner # Nobody => session'.winner \in {session.winner, Nobody}]_vars
  <2> SUFFICES ASSUME GameInv, [Next]_vars, session.winner # Nobody
               PROVE  session'.winner \in {session.winner, Nobody}
    OBVIOUS
  <2>1. session.status \notin Open /\ session.status # "NONE"
    BY DEF GameInv, RowInv
  <2> QED BY <2>1, StepOutcome DEF Outcome, Begins, Starts, PlaysOut, Closes, ClosesLate, Forgets, Stays, Open
<1> QED BY <1>1, GameInvHolds, PTL DEF Spec, WinnerIsKept

-----------------------------------------------------------------------------
\* A game of GameLifecycle, and the games a step makes of it.
LEMMA GameMoves ==
  ASSUME NEW s, NEW w, NEW t, NEW v
  PROVE  LET g == [status |-> s, winner |-> w]
             h == [status |-> t, winner |-> v]
         IN /\ s = "NONE" /\ t = "WAITING" /\ v = w => h \in Lifecycle!After(g)
            /\ s = "WAITING" /\ t = "ACTIVE" /\ v = w => h \in Lifecycle!After(g)
            /\ s = "ACTIVE" /\ t = "COMPLETED" /\ v \in Positions \cup {Nobody} => h \in Lifecycle!After(g)
            /\ s = "ACTIVE" /\ t = "ABANDONED" /\ v \in Positions => h \in Lifecycle!After(g)
            /\ s \in Open /\ t \in {"CANCELLED", "EXPIRED"} /\ v = w => h \in Lifecycle!After(g)
            /\ s \in Ended /\ t = "CANCELLED" /\ v = w => h \in Lifecycle!After(g)
            /\ s \in Ended /\ t \in {s, "ERASED"} /\ v = Nobody => h \in Lifecycle!After(g)
<1> DEFINE g == [status |-> s, winner |-> w]
           h == [status |-> t, winner |-> v]
<1>0. g.status = s /\ \A u : [g EXCEPT !.status = u] = [status |-> u, winner |-> w]
  OBVIOUS
<1>1. s = "NONE" /\ t = "WAITING" /\ v = w => h \in Lifecycle!Offered(g)
  BY <1>0 DEF Lifecycle!Offered
<1>2. s = "WAITING" /\ t = "ACTIVE" /\ v = w => h \in Lifecycle!Begun(g)
  BY <1>0 DEF Lifecycle!Begun
<1>3. s = "ACTIVE" /\ t = "COMPLETED" /\ v \in Positions \cup {Nobody} => h \in Lifecycle!PlayedOut(g)
  BY <1>0 DEF Lifecycle!PlayedOut
<1>4. s = "ACTIVE" /\ t = "ABANDONED" /\ v \in Positions => h \in Lifecycle!PlayedOut(g)
  BY <1>0 DEF Lifecycle!PlayedOut
<1>5. s \in Open /\ t \in {"CANCELLED", "EXPIRED"} /\ v = w => h \in Lifecycle!Closed(g)
  BY <1>0 DEF Lifecycle!Closed, Lifecycle!Open, Open
<1>6. s \in Ended /\ t = "CANCELLED" /\ v = w => h \in Lifecycle!LateCancelled(g)
  BY <1>0 DEF Lifecycle!LateCancelled, Lifecycle!Ended, Ended
<1>7. s \in Ended /\ t \in {s, "ERASED"} /\ v = Nobody => h \in Lifecycle!Forgotten(g)
  BY <1>0 DEF Lifecycle!Forgotten, Lifecycle!Ended, Ended
<1> HIDE DEF g, h
<1>8. /\ s = "NONE" /\ t = "WAITING" /\ v = w => h \in Lifecycle!After(g)
      /\ s = "WAITING" /\ t = "ACTIVE" /\ v = w => h \in Lifecycle!After(g)
      /\ s = "ACTIVE" /\ t = "COMPLETED" /\ v \in Positions \cup {Nobody} => h \in Lifecycle!After(g)
      /\ s = "ACTIVE" /\ t = "ABANDONED" /\ v \in Positions => h \in Lifecycle!After(g)
      /\ s \in Open /\ t \in {"CANCELLED", "EXPIRED"} /\ v = w => h \in Lifecycle!After(g)
      /\ s \in Ended /\ t = "CANCELLED" /\ v = w => h \in Lifecycle!After(g)
      /\ s \in Ended /\ t \in {s, "ERASED"} /\ v = Nobody => h \in Lifecycle!After(g)
  BY <1>1, <1>2, <1>3, <1>4, <1>5, <1>6, <1>7 DEF Lifecycle!After
<1> QED BY <1>8 DEF g, h

\* The session implements the life of a game.
THEOREM GameRefinesLifecycle == Spec => ImplementsGameLifecycle
<1>1. Init => Lifecycle!Init
  BY DEF Init, NoSession, Lifecycle!Init, Lifecycle!NoGame
<1>2. GameInv /\ [Next]_vars => [Lifecycle!Next]_[status |-> session.status, winner |-> session.winner]
  <2> SUFFICES ASSUME GameInv, [Next]_vars
               PROVE  [Lifecycle!Next]_[status |-> session.status, winner |-> session.winner]
    OBVIOUS
  <2>1. Outcome
    BY StepOutcome
  <2>2. CASE Stays
    BY <2>2 DEF Stays
  <2>3. CASE Begins \/ Starts \/ PlaysOut \/ Closes \/ ClosesLate \/ Forgets
    <3>1. [status |-> session'.status, winner |-> session'.winner]
            \in Lifecycle!After([status |-> session.status, winner |-> session.winner])
      BY <2>3, GameMoves DEF Begins, Starts, PlaysOut, Closes, ClosesLate, Forgets
    <3> QED BY <3>1 DEF Lifecycle!Next
  <2> QED BY <2>1, <2>2, <2>3 DEF Outcome
<1> QED BY <1>1, <1>2, GameInvHolds, PTL DEF Spec, ImplementsGameLifecycle, Lifecycle!Spec

-----------------------------------------------------------------------------
\* The rounds of a duel that both players have chosen in, and the actions it
\* took to get where it stands.
RoundsPlayed(duel) == IF duel.over THEN Rounds ELSE duel.round - 1
Moves(duel) == 2 * RoundsPlayed(duel) + (IF duel.pending = NoPulse THEN 0 ELSE 1)

\* A duel is fair: the first of the round chooses, then the other; a round is
\* worth one point at most; and the duel ends, with the leader as its winner,
\* when every round is played.
FairDuel(duel) ==
  /\ IF duel.pending = NoPulse
     THEN ~duel.over => duel.turn = duel.starter
     ELSE ~duel.over /\ duel.pending.position = duel.starter /\ duel.turn = Other(duel.starter)
  /\ duel.scores[0] + duel.scores[1] <= RoundsPlayed(duel)
  /\ duel.winner = IF duel.over THEN Leader(duel.scores) ELSE Nobody

\* A session's duel is fair, its journal holds just the actions that duel takes,
\* and a session is completed with the winner of a duel that was played out.
DuelInv ==
  session.status # "ERASED" =>
  /\ FairDuel(session.duel)
  /\ Len(actions) = Moves(session.duel)
  /\ session.status = "COMPLETED" =>
       session.duel.over /\ session.winner \in {session.duel.winner, Nobody}

\* While a game is under way somebody may play, and only one of the two.
OneMayPlay ==
  session.status = "ACTIVE" =>
    \E p \in Positions : seat[p] = "JOINED" /\ CanPulse(session.duel, p) /\ ~CanPulse(session.duel, Other(p))

\* A new duel is fair, and took no action.
LEMMA NewDuelIsFair == FairDuel(createInitialState) /\ Moves(createInitialState) = 0
BY DuelAssumption DEF createInitialState, FairDuel, RoundsPlayed, Moves, NoPulse, Positions

\* The second choice of a round gives one point at most.
LEMMA OnePointARound ==
  ASSUME NEW duel \in Duels, NEW p \in Positions, NEW value, NEW target
  PROVE  /\ Scores(duel, p, value, target) \in [Positions -> Nat]
         /\ Scores(duel, p, value, target)[0] + Scores(duel, p, value, target)[1]
              <= duel.scores[0] + duel.scores[1] + 1
<1> DEFINE point == Least([q \in Positions |->
                      Distance([r \in Positions |-> IF r = p THEN value ELSE duel.pending.value][q], target)])
<1>1. Scores(duel, p, value, target) = [q \in Positions |-> duel.scores[q] + (IF q = point THEN 1 ELSE 0)]
  BY DEF Scores
<1> HIDE DEF point
<1>2. duel.scores[0] \in Nat /\ duel.scores[1] \in Nat
  BY DEF Duels, Positions
<1> QED BY <1>1, <1>2 DEF Positions

\* An action the engine allows keeps a duel fair, and is one more action of it.
LEMMA PulseIsFair ==
  ASSUME NEW duel \in Duels, NEW p \in Positions, NEW value \in Values, NEW target,
         CanPulse(duel, p), FairDuel(duel)
  PROVE  /\ FairDuel(Pulse(duel, p, value, target))
         /\ Moves(Pulse(duel, p, value, target)) = Moves(duel) + 1
<1>0. ~duel.over /\ duel.winner = Nobody /\ duel.round \in 1..Rounds /\ Rounds \in Nat
      /\ duel.starter \in Positions
  BY DuelAssumption DEF CanPulse, FairDuel, Duels
<1>1. CASE duel.pending = NoPulse
  <2> DEFINE next == ChooseFirst(duel, p, value)
  <2>1. p = duel.starter /\ Pulse(duel, p, value, target) = next
    BY <1>0, <1>1 DEF FairDuel, CanPulse, Pulse
  <2>2. /\ next.pending = [position |-> p, value |-> value] /\ next.turn = Other(p)
        /\ next.starter = p /\ next.over = duel.over /\ next.round = duel.round
        /\ next.scores = duel.scores /\ next.winner = Nobody
    BY <1>0, <2>1 DEF ChooseFirst, Duels
  <2>3. next.pending # NoPulse /\ next.pending.position = p
    BY <2>2, DuelAssumption DEF NoPulse, Positions
  <2> HIDE DEF next
  <2>4. RoundsPlayed(next) = RoundsPlayed(duel)
    BY <2>2 DEF RoundsPlayed
  <2>5. FairDuel(next)
    BY <1>0, <2>2, <2>3, <2>4 DEF FairDuel
  <2>6. Moves(next) = Moves(duel) + 1
    BY <1>0, <1>1, <2>3, <2>4 DEF Moves, RoundsPlayed
  <2> QED BY <2>1, <2>5, <2>6
<1>2. CASE duel.pending # NoPulse
  <2> DEFINE scores == Scores(duel, p, value, target)
             next == EndRound(duel, scores)
  <2>1. Pulse(duel, p, value, target) = next
    BY <1>2 DEF Pulse
  <2>2. scores \in [Positions -> Nat] /\ scores[0] + scores[1] <= duel.scores[0] + duel.scores[1] + 1
    BY OnePointARound
  <2>3. duel.scores[0] \in Nat /\ duel.scores[1] \in Nat /\ scores[0] \in Nat /\ scores[1] \in Nat
    BY <2>2 DEF Duels, Positions
  <2>4. duel.scores[0] + duel.scores[1] <= duel.round - 1 /\ Moves(duel) = 2 * (duel.round - 1) + 1
    BY <1>0, <1>2 DEF FairDuel, RoundsPlayed, Moves
  <2> HIDE DEF scores
  <2>5. CASE duel.round >= Rounds
    <3>1. /\ next.scores = scores /\ next.pending = NoPulse /\ next.over = TRUE
          /\ next.winner = Leader(scores) /\ duel.round = Rounds
      BY <1>0, <2>5 DEF EndRound, Duels
    <3> HIDE DEF next
    <3>2. RoundsPlayed(next) = duel.round /\ Moves(next) = 2 * duel.round
      BY <1>0, <3>1 DEF RoundsPlayed, Moves
    <3>3. FairDuel(next)
      BY <1>0, <2>2, <2>3, <2>4, <3>1, <3>2 DEF FairDuel
    <3> QED BY <1>0, <2>1, <2>4, <3>2, <3>3
  <2>6. CASE ~(duel.round >= Rounds)
    <3>1. /\ next.scores = scores /\ next.pending = NoPulse /\ next.over = FALSE
          /\ next.winner = Nobody /\ next.round = duel.round + 1
          /\ next.starter = Other(duel.starter) /\ next.turn = Other(duel.starter)
      BY <1>0, <2>6 DEF EndRound, Duels
    <3> HIDE DEF next
    <3>2. RoundsPlayed(next) = duel.round /\ Moves(next) = 2 * duel.round
      BY <1>0, <3>1 DEF RoundsPlayed, Moves
    <3>3. FairDuel(next)
      BY <1>0, <2>2, <2>3, <2>4, <3>1, <3>2 DEF FairDuel
    <3> QED BY <1>0, <2>1, <2>4, <3>2, <3>3
  <2> QED BY <2>5, <2>6
<1> QED BY <1>1, <1>2

\* A step that leaves the duel and the journal alone, and completes no game.
DuelRests ==
  /\ session'.duel = session.duel /\ actions' = actions
  /\ session'.status = "ERASED" \/ session.status # "ERASED"
  /\ session'.status = "COMPLETED" =>
       session.status = "COMPLETED" /\ session'.winner \in {session.winner, Nobody}

\* Every step of every handler but an action erases the game or lets the duel rest.
LEMMA OnlyActionsMove ==
  GameInv /\ [Next]_vars =>
    \/ session'.status = "ERASED"
    \/ DuelRests
    \/ \E p \in Positions, k \in Keys, value \in Values : submitAction(p, k, value)
<1> SUFFICES ASSUME GameInv, [Next]_vars,
                    ~(\E p \in Positions, k \in Keys, value \in Values : submitAction(p, k, value)),
                    session'.status # "ERASED"
             PROVE  DuelRests
  OBVIOUS
<1>0. session \in Sessions /\ RowInv
  BY DEF GameInv, TypeOK
<1>c. ASSUME NEW row, CancelWith(row), UNCHANGED actions, session.status # "ERASED" PROVE DuelRests
  BY <1>0, <1>c DEF CancelWith, Sessions, DuelRests
<1>1. CASE create
  BY <1>0, <1>1 DEF create, NoSession, RowInv, DuelRests
<1>2. CASE TournamentCancels
  BY <1>0, <1>2 DEF TournamentCancels, Sessions, Open, DuelRests
<1>3. CASE Overdue
  BY <1>0, <1>3 DEF Overdue, Sessions, Open, DuelRests
<1>4. ASSUME NEW p \in Positions, Player(p) PROVE DuelRests
  <2>1. CASE join(p)
    BY <1>0, <2>1 DEF join, Sessions, DuelRests
  <2>2. CASE Decline(p)
    BY <1>c, <2>2 DEF Decline
  <2>3. CASE Abandon(p)
    BY <1>0, <2>3 DEF Abandon, Sessions, DuelRests
  <2>4. CASE ReadDeletion(p)
    BY <2>4 DEF ReadDeletion, rows, DuelRests
  <2>5. CASE WriteDeletion(p)
    <3>1. CASE Seated = {p}
      BY <2>5, <3>1 DEF WriteDeletion, NoSession
    <3>2. CASE Seated # {p}
      <4>1. session' = Bereft(p) /\ actions' = actions
        BY <2>5, <3>2 DEF WriteDeletion
      <4>2. /\ session'.status = (IF session.status \in Open THEN "CANCELLED" ELSE session.status)
            /\ session'.winner = (IF session.winner = p THEN Nobody ELSE session.winner)
            /\ session'.duel = session.duel
        BY <1>0, <4>1 DEF Bereft, Sessions
      <4> QED BY <4>1, <4>2 DEF Open, DuelRests
    <3> QED BY <3>1, <3>2
  <2> QED BY <1>4, <2>1, <2>2, <2>3, <2>4, <2>5 DEF Player
<1>5. ASSUME NEW w \in Workers, Expirer(w) PROVE DuelRests
  <2>1. CASE CloseDue(w)
    <3>1. CASE StillDue(w)
      <4>1. session.status \in Open
        BY <2>1, <3>1 DEF CloseDue, StillDue, GameInv, HandlersInv
      <4> QED BY <1>0, <2>1, <3>1, <4>1 DEF CloseDue, Sessions, Open, DuelRests
    <3>2. CASE ~StillDue(w)
      BY <2>1, <3>2 DEF CloseDue, DuelRests
    <3> QED BY <3>1, <3>2
  <2> QED BY <1>5, <2>1 DEF Expirer, LookDue, LeaveDue, RecordDue, Crash, rows, DuelRests
<1>6. ASSUME NEW c \in Closers, Closer(c) PROVE DuelRests
  <2>1. CASE WriteCancel(c)
    BY <1>c, <2>1 DEF WriteCancel, rows, DuelRests
  <2> QED BY <1>6, <2>1 DEF Closer, CheckCancel, ReadCancel, rows, DuelRests
<1>7. CASE UNCHANGED vars
  BY <1>7 DEF vars, rows, DuelRests
<1> QED BY <1>1, <1>2, <1>3, <1>4, <1>5, <1>6, <1>7 DEF Next

\* An action keeps the duel fair and completes only a duel that is played out.
LEMMA ActionIsFair ==
  ASSUME NEW p \in Positions, NEW k \in Keys, NEW value \in Values
  PROVE  GameInv /\ DuelInv /\ submitAction(p, k, value) => DuelInv'
<1> SUFFICES ASSUME GameInv, DuelInv, submitAction(p, k, value) PROVE DuelInv'
  OBVIOUS
<1> DEFINE duel == Pulse(session.duel, p, value, seed[session.duel.round])
<1>1. /\ session.status = "ACTIVE" /\ session' = Advanced(duel) /\ CanPulse(session.duel, p)
      /\ Len(actions') = Len(actions) + 1
  BY DEF submitAction, GameInv, TypeOK
<1>2. session \in Sessions /\ session.duel \in Duels /\ FairDuel(session.duel) /\ Len(actions) = Moves(session.duel)
  BY <1>1 DEF GameInv, TypeOK, DuelInv, Sessions
<1>3. FairDuel(duel) /\ Moves(duel) = Moves(session.duel) + 1
  BY <1>1, <1>2, PulseIsFair
<1> HIDE DEF duel
<1>4. /\ session'.duel = duel /\ session'.winner = duel.winner
      /\ session'.status = (IF duel.over THEN "COMPLETED" ELSE "ACTIVE")
  BY <1>1, <1>2 DEF Advanced, Sessions
<1> QED BY <1>1, <1>2, <1>3, <1>4 DEF DuelInv

\* Whoever plays, leaves or closes the game, its duel stays fair: the players
\* choose in turn, each has chosen as often as the other when a round ends, no
\* round is worth more than a point, and what a completed game records as its
\* winner (submitAction) is the leader of a duel whose rounds were all played.
THEOREM DuelsAreFair == Spec => []DuelInv
<1>1. Init => DuelInv
  BY NewDuelIsFair DEF Init, DuelInv, NoSession
<1>2. GameInv /\ DuelInv /\ [Next]_vars => DuelInv'
  <2> SUFFICES ASSUME GameInv, DuelInv, [Next]_vars PROVE DuelInv'
    OBVIOUS
  <2>1. CASE session'.status = "ERASED"
    BY <2>1 DEF DuelInv
  <2>2. CASE DuelRests /\ session'.status # "ERASED"
    BY <2>2 DEF DuelInv, DuelRests
  <2>3. CASE \E p \in Positions, k \in Keys, value \in Values : submitAction(p, k, value)
    BY <2>3, ActionIsFair
  <2> QED BY <2>1, <2>2, <2>3, OnlyActionsMove
<1> QED BY <1>1, <1>2, GameInvHolds, PTL DEF Spec

\* A game that is under way never waits on everyone: the player whose turn it
\* is has the seat, and the engine allows that player, and no other, to choose.
THEOREM SomebodyMayPlay == Spec => []OneMayPlay
<1>1. GameInv /\ DuelInv => OneMayPlay
  <2> SUFFICES ASSUME GameInv, DuelInv, session.status = "ACTIVE" PROVE OneMayPlay
    BY DEF OneMayPlay
  <2>1. /\ session.duel \in Duels /\ ~session.duel.over /\ FairDuel(session.duel)
        /\ \A p \in Positions : seat[p] = "JOINED"
    BY DEF GameInv, TypeOK, Sessions, RowInv, Open, DuelInv, ActiveIsFullySeated
  <2>2. session.duel.turn \in Positions /\ session.duel.starter \in Positions
    BY <2>1 DEF Duels
  <2>3. session.duel.pending.position # session.duel.turn
    <3>1. CASE session.duel.pending = NoPulse
      BY <3>1, <2>2, DuelAssumption DEF NoPulse, Positions
    <3>2. CASE session.duel.pending # NoPulse
      BY <3>2, <2>1, <2>2 DEF FairDuel, Other, Positions
    <3> QED BY <3>1, <3>2
  <2>4. Other(session.duel.turn) # session.duel.turn
    BY <2>2 DEF Other, Positions
  <2> QED BY <2>1, <2>2, <2>3, <2>4 DEF OneMayPlay, CanPulse
<1> QED BY <1>1, DuelsAreFair, GameInvHolds, PTL

=============================================================================
