---------------------------- MODULE GameSessions ----------------------------
(***************************************************************************)
(* GamePlatformService (apps/api/src/games): one session of Pulse Duel, its  *)
(* seats, its journal of actions and its replay.  Joining, playing and       *)
(* abandoning run in serializable transactions and are one step; expiry,     *)
(* cancellation, moderation and account deletion read first and write later. *)
(***************************************************************************)
EXTENDS PulseDuel, FiniteSets, Sequences

CONSTANTS
  Keys,       \* idempotency keys of actions
  Workers,    \* concurrent runs of expireOneIfDue
  MaxInFlight \* bound: cancellations and deletions in flight together

ASSUME InFlightAssumption == MaxInFlight \in Nat

VARIABLES
  session,    \* the GameSession row
  seed,       \* its seed: the target of each round
  seat,       \* GameParticipant rows by position; the owner has position 0
  actions,    \* GameAction rows in the order of their sequence
  receipts,   \* GameActionReceipt rows: <<position, key>>
  replay,     \* the GameReplaySnapshot row
  expirer,    \* the runs of expireOneIfDue in flight
  closer,     \* the cancellation by the owner and by a moderator in flight
  leaver      \* the account deletions in flight

rows == <<session, seed, seat, actions, receipts, replay>>
vars == <<rows, expirer, closer, leaver>>

Open == {"WAITING", "ACTIVE"}
Ended == {"COMPLETED", "ABANDONED", "CANCELLED", "EXPIRED"}
Sessions == [status : {"NONE", "ERASED"} \cup Open \cup Ended, version : Nat, sequence : Nat,
             duel : Duels, winner : Positions \cup {Nobody}, due : BOOLEAN]
NoSession == [status |-> "NONE", version |-> 0, sequence |-> 0, duel |-> createInitialState,
              winner |-> Nobody, due |-> FALSE]
SeatStatus == {"NONE", "INVITED", "JOINED", "LEFT", "ABANDONED", "COMPLETED", "DELETED"}
Actions == [position : Positions, key : Keys, value : Values, before : Duels, after : Duels]
Replays == [outcome : {"NONE"} \cup Ended, count : Nat, final : Duels]
NoReplay == [outcome |-> "NONE", count |-> 0, final |-> createInitialState]

Closers == {"owner", "moderator"}
Task == [phase : {"idle", "look", "close", "leave", "record", "write"}, seen : Sessions]
Idle == [phase |-> "idle", seen |-> NoSession]

Init ==
  /\ session = NoSession
  /\ seed \in [1..Rounds -> Values]
  /\ seat = [p \in Positions |-> "NONE"]
  /\ actions = <<>> /\ receipts = {} /\ replay = NoReplay
  /\ expirer = [w \in Workers |-> Idle]
  /\ closer = [c \in Closers |-> Idle]
  /\ leaver = [p \in Positions |-> Idle]

-----------------------------------------------------------------------------
Seated == {p \in Positions : seat[p] # "DELETED"}
Vacated == [p \in Positions |-> IF seat[p] \in {"INVITED", "JOINED"} THEN "LEFT" ELSE seat[p]]

\* createReplaySnapshot: an upsert that leaves a snapshot it finds alone.
Snapshot(outcome, row) ==
  IF replay # NoReplay THEN replay
  ELSE [outcome |-> outcome, count |-> row.sequence, final |-> row.duel]

create ==
  /\ session.status = "NONE"
  /\ session' = [NoSession EXCEPT !.status = "WAITING", !.version = 1]
  /\ seat' = [p \in Positions |-> IF p = 0 THEN "JOINED" ELSE "INVITED"]
  /\ UNCHANGED <<seed, actions, receipts, replay, expirer, closer, leaver>>

\* (as if the session's status were not read again)
JoinAnyStatus(p) ==
  /\ session.status # "NONE" /\ seat[p] = "INVITED"
  /\ seat' = [seat EXCEPT ![p] = "JOINED"]
  /\ session' = [session EXCEPT !.status = "ACTIVE", !.version = @ + 1, !.due = FALSE]
  /\ UNCHANGED <<seed, actions, receipts, replay, expirer, closer, leaver>>

join(p) ==
  /\ session.status = "WAITING" /\ seat[p] = "INVITED"
  /\ seat' = [seat EXCEPT ![p] = "JOINED"]
  /\ session' = IF \A q \in Seated \ {p} : seat[q] = "JOINED"
                THEN [session EXCEPT !.status = "ACTIVE", !.version = @ + 1, !.due = FALSE]
                ELSE session
  /\ UNCHANGED <<seed, actions, receipts, replay, expirer, closer, leaver>>

\* (as if the last action were not numbered)
AdvancedUncounted(duel) ==
  [session EXCEPT !.duel = duel, !.sequence = IF duel.over THEN @ ELSE @ + 1, !.version = @ + 1,
                  !.winner = duel.winner,
                  !.status = IF duel.over THEN "COMPLETED" ELSE "ACTIVE"]

\* The row after an action that leaves the duel as it is given.
Advanced(duel) ==
  [session EXCEPT !.duel = duel, !.sequence = @ + 1, !.version = @ + 1,
                  !.winner = duel.winner,
                  !.status = IF duel.over THEN "COMPLETED" ELSE "ACTIVE"]

\* (as if the last action of a game left the snapshot to the expiry)
PlayUnrecorded(p, k, value) ==
  LET duel == Pulse(session.duel, p, value, seed[session.duel.round])
  IN /\ <<p, k>> \notin receipts
     /\ seat[p] = "JOINED" /\ session.status = "ACTIVE" /\ CanPulse(session.duel, p)
     /\ session' = Advanced(duel)
     /\ actions' = Append(actions, [position |-> p, key |-> k, value |-> value,
                                    before |-> session.duel, after |-> duel])
     /\ receipts' = receipts \cup {<<p, k>>}
     /\ seat' = IF duel.over THEN [q \in Positions |-> IF seat[q] = "JOINED" THEN "COMPLETED" ELSE seat[q]]
                ELSE seat
     /\ UNCHANGED <<seed, replay, expirer, closer, leaver>>

\* submitAction.  The sequence the client expects and the hash of the state
\* are compared with the row in the same transaction.
submitAction(p, k, value) ==
  LET duel == Pulse(session.duel, p, value, seed[session.duel.round])
  IN /\ <<p, k>> \notin receipts
     /\ seat[p] = "JOINED" /\ session.status = "ACTIVE" /\ CanPulse(session.duel, p)
     /\ session' = Advanced(duel)
     /\ actions' = Append(actions, [position |-> p, key |-> k, value |-> value,
                                    before |-> session.duel, after |-> duel])
     /\ receipts' = receipts \cup {<<p, k>>}
     /\ IF duel.over
        THEN /\ seat' = [q \in Positions |-> IF seat[q] = "JOINED" THEN "COMPLETED" ELSE seat[q]]
             /\ replay' = Snapshot("COMPLETED", session')
        ELSE UNCHANGED <<seat, replay>>
     /\ UNCHANGED <<seed, expirer, closer, leaver>>

\* cancelSession, with the row it has read.
CancelWith(row) ==
  /\ session' = [session EXCEPT !.status = "CANCELLED", !.version = @ + 1]
  /\ seat' = Vacated
  /\ replay' = Snapshot("CANCELLED", row)

\* abandon, before and after the game has begun.
Decline(p) ==
  /\ p \in Seated /\ session.status = "WAITING"
  /\ CancelWith(session)
  /\ UNCHANGED <<seed, actions, receipts, expirer, closer, leaver>>

Joined(p) == {q \in Positions \ {p} : seat[q] = "JOINED"}

Abandon(p) ==
  /\ p \in Seated /\ session.status = "ACTIVE"
  /\ session' = [session EXCEPT !.status = "ABANDONED", !.version = @ + 1,
                                !.winner = IF Joined(p) = {} THEN Nobody ELSE Other(p)]
  /\ seat' = [q \in Positions |-> IF q = p THEN "ABANDONED"
                                  ELSE IF seat[q] = "JOINED" THEN "COMPLETED" ELSE seat[q]]
  /\ replay' = Snapshot("ABANDONED", session)
  /\ UNCHANGED <<seed, actions, receipts, expirer, closer, leaver>>

\* A tournament cancels the game of a forfeit (cancelGameSessionTx): no snapshot.
TournamentCancels ==
  /\ session.status \in Open
  /\ session' = [session EXCEPT !.status = "CANCELLED", !.version = @ + 1]
  /\ seat' = Vacated
  /\ UNCHANGED <<seed, actions, receipts, replay, expirer, closer, leaver>>

-----------------------------------------------------------------------------
(* expireOneIfDue: four statements, each committed on its own.               *)
Overdue ==
  /\ session.status \in Open /\ ~session.due
  /\ session' = [session EXCEPT !.due = TRUE]
  /\ UNCHANGED <<seed, seat, actions, receipts, replay, expirer, closer, leaver>>

LookDue(w) ==
  /\ expirer[w].phase = "idle"
  /\ session.status \in Open /\ session.due
  /\ expirer' = [expirer EXCEPT ![w] = [phase |-> "close", seen |-> session]]
  /\ UNCHANGED <<rows, closer, leaver>>

\* (as if only invitations expired)
StillDueInvitation(w) == session.status = "WAITING" /\ session.due

StillDue(w) ==
  /\ session.status = expirer[w].seen.status
  /\ session.version = expirer[w].seen.version
  /\ session.due

\* (as if the number of rows closed were not looked at)
CloseDueUncounted(w) ==
  /\ expirer[w].phase = "close"
  /\ session' = IF StillDue(w) THEN [session EXCEPT !.status = "EXPIRED", !.version = @ + 1] ELSE session
  /\ expirer' = [expirer EXCEPT ![w].phase = "leave"]
  /\ UNCHANGED <<seed, seat, actions, receipts, replay, closer, leaver>>

CloseDue(w) ==
  /\ expirer[w].phase = "close"
  /\ IF StillDue(w)
     THEN /\ session' = [session EXCEPT !.status = "EXPIRED", !.version = @ + 1]
          /\ expirer' = [expirer EXCEPT ![w].phase = "leave"]
     ELSE /\ expirer' = [expirer EXCEPT ![w] = Idle]
          /\ UNCHANGED session
  /\ UNCHANGED <<seed, seat, actions, receipts, replay, closer, leaver>>

LeaveDue(w) ==
  /\ expirer[w].phase = "leave"
  /\ seat' = Vacated
  /\ expirer' = [expirer EXCEPT ![w].phase = "record"]
  /\ UNCHANGED <<session, seed, actions, receipts, replay, closer, leaver>>

RecordDue(w) ==
  /\ expirer[w].phase = "record"
  /\ replay' = Snapshot("EXPIRED", expirer[w].seen)
  /\ expirer' = [expirer EXCEPT ![w] = Idle]
  /\ UNCHANGED <<session, seed, seat, actions, receipts, closer, leaver>>

\* The process stops, or a statement fails, between two of them.
Crash(w) ==
  /\ expirer[w].phase # "idle"
  /\ expirer' = [expirer EXCEPT ![w] = Idle]
  /\ UNCHANGED <<rows, closer, leaver>>

-----------------------------------------------------------------------------
(* cancel and govern: READ COMMITTED transactions that check the row, read it *)
(* again in cancelSession, and write it whatever it has become.               *)
InFlight == Cardinality({c \in Closers : closer[c] # Idle}) + Cardinality({p \in Positions : leaver[p] # Idle})

MayClose(c) ==
  \/ c = "owner" /\ 0 \in Seated /\ session.status = "WAITING"
  \/ c = "moderator" /\ session.status \in Open

CheckCancel(c) ==
  /\ closer[c].phase = "idle" /\ MayClose(c) /\ InFlight < MaxInFlight
  /\ closer' = [closer EXCEPT ![c].phase = "look"]
  /\ UNCHANGED <<rows, expirer, leaver>>

ReadCancel(c) ==
  /\ closer[c].phase = "look"
  /\ closer' = [closer EXCEPT ![c] = IF session.status = "ERASED" THEN Idle
                                     ELSE [phase |-> "write", seen |-> session]]
  /\ UNCHANGED <<rows, expirer, leaver>>

WriteCancel(c) ==
  /\ closer[c].phase = "write"
  /\ IF session.status = "ERASED" THEN UNCHANGED rows
     ELSE CancelWith(closer[c].seen) /\ UNCHANGED <<seed, actions, receipts>>
  /\ closer' = [closer EXCEPT ![c] = Idle]
  /\ UNCHANGED <<expirer, leaver>>

-----------------------------------------------------------------------------
(* The deletion of an account: prepareDeletion snapshots the open game it has *)
(* read, then deleteForAccount cancels it and removes the participant.        *)
ReadDeletion(p) ==
  /\ leaver[p].phase = "idle" /\ InFlight < MaxInFlight
  /\ seat[p] \notin {"NONE", "DELETED"}
  /\ leaver' = [leaver EXCEPT ![p] = [phase |-> "write", seen |-> session]]
  /\ UNCHANGED <<rows, expirer, closer>>

Bereft(p) ==
  [session EXCEPT !.status = IF @ \in Open THEN "CANCELLED" ELSE @,
                  !.version = IF session.status \in Open THEN @ + 1 ELSE @,
                  !.winner = IF @ = p THEN Nobody ELSE @]

WriteDeletion(p) ==
  /\ leaver[p].phase = "write"
  /\ seat' = [seat EXCEPT ![p] = "DELETED"]
  /\ IF Seated = {p}
     THEN /\ session' = [NoSession EXCEPT !.status = "ERASED", !.version = session.version]
          /\ actions' = <<>> /\ receipts' = {} /\ replay' = NoReplay
     ELSE /\ session' = Bereft(p)
          /\ receipts' = {r \in receipts : r[1] # p}
          /\ replay' = IF leaver[p].seen.status \in Open
                       THEN [outcome |-> "CANCELLED", count |-> leaver[p].seen.sequence,
                             final |-> leaver[p].seen.duel]
                       ELSE replay
          /\ UNCHANGED actions
  /\ leaver' = [leaver EXCEPT ![p] = Idle]
  /\ UNCHANGED <<seed, expirer, closer>>

-----------------------------------------------------------------------------
Player(p) ==
  \/ join(p)
  \/ \E k \in Keys, value \in Values : submitAction(p, k, value)
  \/ Decline(p)
  \/ Abandon(p)
  \/ ReadDeletion(p)
  \/ WriteDeletion(p)

Expirer(w) == LookDue(w) \/ CloseDue(w) \/ LeaveDue(w) \/ RecordDue(w) \/ Crash(w)
Closer(c) == CheckCancel(c) \/ ReadCancel(c) \/ WriteCancel(c)

Next ==
  \/ create
  \/ TournamentCancels
  \/ Overdue
  \/ \E p \in Positions : Player(p)
  \/ \E w \in Workers : Expirer(w)
  \/ \E c \in Closers : Closer(c)

Spec == Init /\ [][Next]_vars

\* The maintenance timer runs expireOneIfDue for every game that is due, and
\* is not stopped every time between its first two statements.
FairSpec == Spec /\ \A w \in Workers : WF_vars(LookDue(w)) /\ SF_vars(CloseDue(w))

-----------------------------------------------------------------------------
TypeOK ==
  /\ session \in Sessions
  /\ seed \in [1..Rounds -> Values]
  /\ seat \in [Positions -> SeatStatus]
  /\ actions \in Seq(Actions)
  /\ receipts \subseteq Positions \X Keys
  /\ replay \in Replays
  /\ expirer \in [Workers -> Task]
  /\ closer \in [Closers -> Task]
  /\ leaver \in [Positions -> Task]

\* A game is under way only while every seat is taken, whoever expires,
\* cancels, declines or deletes an account meanwhile.
ActiveIsFullySeated == session.status = "ACTIVE" => \A p \in Positions : seat[p] = "JOINED"

\* A replay, which shows the seed, is written only for a game that is over.
SeedStaysHidden == session.status \in Open => replay = NoReplay

\* A game that was played out or abandoned has its replay.
PlayedOutHasReplay == session.status \in {"COMPLETED", "ABANDONED"} => replay # NoReplay

\* The journal replays: its actions are numbered without a gap, each starts
\* from the state the one before left, the engine gives the state it ends in,
\* and the last one is the state of the session.
StateBefore(js, i) == IF i = 1 THEN createInitialState ELSE js[i-1].after
Plays(js, i) ==
  /\ js[i].before = StateBefore(js, i)
  /\ CanPulse(js[i].before, js[i].position)
  /\ js[i].after = Pulse(js[i].before, js[i].position, js[i].value, seed[js[i].before.round])
JournalReplays ==
  session.status # "ERASED" =>
  /\ session.sequence = Len(actions)
  /\ session.duel = StateBefore(actions, Len(actions) + 1)
  /\ \A i \in 1..Len(actions) : Plays(actions, i)

\* Once a game has a winner it never gets another: it may only lose it, with the
\* winner's account.
WinnerIsKept == [][session.winner # Nobody => session'.winner \in {session.winner, Nobody}]_vars

\* Whoever also closes, plays or crashes, a game past its deadline is closed.
DueGameEnds == (session.status \in Open /\ session.due) ~> ~(session.status \in Open /\ session.due)

\* A game has one life, however its handlers race.
Lifecycle == INSTANCE GameLifecycle
  WITH Players <- Positions, game <- [status |-> session.status, winner |-> session.winner]
ImplementsGameLifecycle == Lifecycle!Spec

\* A game that has begun is abandoned, not cancelled, by its owner.
StartedIsNotCancelled ==
  [][session.status = "ACTIVE" /\ closer["owner"] # closer'["owner"] => session'.status = "ACTIVE"]_vars
=============================================================================
