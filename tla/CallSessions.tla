---------------------------- MODULE CallSessions ----------------------------
(***************************************************************************)
(* CallsService and CallMaintenanceService (apps/api/src/calls): the server  *)
(* decides who is in a call and what state it is in.  Creation, the signals  *)
(* of the two participants and the expiry of a ringing call each run in a    *)
(* serializable transaction, read (Begin) and written (Commit) while other   *)
(* handlers do the same; a refused transaction is tried again.               *)
(***************************************************************************)
EXTENDS Integers, FiniteSets, Sequences

CONSTANTS
  Users,      \* accounts
  Calls,      \* call identifiers the server may issue
  Keys,       \* idempotency keys of call creations
  Handlers,   \* concurrent handlers: HTTP, websocket and maintenance
  None,       \* no account or call
  Leavers,    \* accounts that may be suspended or deleted
  Shared,     \* pairs of accounts with a conversation in common
  MaxCalls,   \* calls one account may start in an hour (20); the model is that hour
  Attempts    \* attempts of one serializable transaction (3)

ASSUME CallAssumption ==
  /\ None \notin Users \cup Calls
  /\ IsFiniteSet(Handlers) /\ Handlers # {}
  /\ Shared \subseteq Users \X Users /\ Leavers \subseteq Users
  /\ MaxCalls \in Nat
  /\ Attempts \in Nat \ {0}

VARIABLES
  call,       \* CallSession rows
  history,    \* CallEvent actions of each call
  receipt,    \* CallReceipt: the call each account's key created
  due,        \* calls whose ring deadline has passed
  account,    \* User rows: active, suspended or deleted
  notice,     \* missed-call notifications written for each call
  handler     \* the handlers in flight

rows == <<call, history, receipt>>
vars == <<call, history, receipt, due, account, notice, handler>>

Live == {"RINGING", "ACTIVE"}
Terminal == {"ENDED", "REJECTED", "MISSED", "CANCELLED"}
Row == [status : {"NONE"} \cup Live \cup Terminal, caller : Users \cup {None},
        callee : Users \cup {None}, offered : BOOLEAN, version : Nat]
NoRow == [status |-> "NONE", caller |-> None, callee |-> None, offered |-> FALSE, version |-> 0]
Actions == {"CALL_CREATED", "OFFER_FORWARDED", "CALL_ANSWERED", "CALL_ENDED", "CALL_REJECTED",
            "CALL_CANCELLED", "CALL_MISSED"}

\* END comes with a free reason; only "rejected" makes a difference.
Signals == {"OFFER", "ANSWER", "END", "REJECT"}
Handler == [op : {"none", "create", "expire"} \cup Signals,
            phase : {"idle", "receipt", "limit", "look", "begin", "commit", "notify"},
            user : Users \cup {None}, peer : Users \cup {None}, key : Keys \cup {None},
            call : Calls \cup {None}, seen : Row, attempt : 0..Attempts-1]
Idle == [op |-> "none", phase |-> "idle", user |-> None, peer |-> None, key |-> None,
         call |-> None, seen |-> NoRow, attempt |-> 0]

Party(row) == {row.caller, row.callee}

Init ==
  /\ call = [c \in Calls |-> NoRow]
  /\ history = [c \in Calls |-> <<>>]
  /\ receipt = [u \in Users |-> [k \in Keys |-> None]]
  /\ due = {}
  /\ account = [u \in Users |-> "active"]
  /\ notice = [c \in Calls |-> 0]
  /\ handler = [h \in Handlers |-> Idle]

-----------------------------------------------------------------------------
Go(h, phase) == handler' = [handler EXCEPT ![h].phase = phase]
Done(h) == handler' = [handler EXCEPT ![h] = Idle]

-----------------------------------------------------------------------------
(* create.                                                                  *)
Create(h, u, v, k) ==
  /\ handler[h].phase = "idle" /\ u # v
  /\ handler' = [handler EXCEPT ![h] =
       [Idle EXCEPT !.op = "create", !.phase = "receipt", !.user = u, !.peer = v, !.key = k]]
  /\ UNCHANGED <<rows, due, account, notice>>

Replayed(h) == receipt[handler[h].user][handler[h].key] # None

FindReceipt(h) ==
  /\ handler[h].phase = "receipt"
  /\ IF Replayed(h) THEN Done(h) ELSE Go(h, "limit")
  /\ UNCHANGED <<rows, due, account, notice>>

Started(u) == {c \in Calls : call[c].caller = u}

\* assertHourlyLimit counts outside the transaction that creates.
CheckLimit(h) ==
  /\ handler[h].phase = "limit"
  /\ IF Cardinality(Started(handler[h].user)) >= MaxCalls THEN Done(h) ELSE Go(h, "begin")
  /\ UNCHANGED <<rows, due, account, notice>>

Free(u) == ~\E c \in Calls : call[c].status \in Live /\ u \in Party(call[c])

\* (as if the transaction were READ COMMITTED for what it read of the calls)
CallsHoldNothing(h) == ~Replayed(h)

\* (as if a key were looked up only before the transaction)
CallsHoldKeyless(h) == Free(handler[h].user) /\ Free(handler[h].peer)

\* What the transaction reads of calls and receipts.  All who write them are
\* serializable, so that it commits only while this still holds.
CallsHold(h) == ~Replayed(h) /\ Free(handler[h].user) /\ Free(handler[h].peer)

\* What it reads of accounts and conversations may change before it commits:
\* their writers are not serializable.
Eligible(u, v) == account[u] = "active" /\ account[v] = "active" /\ <<u, v>> \in Shared

BeginCreate(h) ==
  /\ handler[h].op = "create" /\ handler[h].phase = "begin"
  /\ IF /\ ~Replayed(h) /\ Eligible(handler[h].user, handler[h].peer)
        /\ Free(handler[h].user) /\ Free(handler[h].peer)
     THEN Go(h, "commit") ELSE Done(h)
  /\ UNCHANGED <<rows, due, account, notice>>

CommitCreate(h, c) ==
  LET u == handler[h].user
  IN  /\ handler[h].op = "create" /\ handler[h].phase = "commit"
      /\ CallsHold(h)
      /\ call[c].status = "NONE"
      /\ call' = [call EXCEPT ![c] = [status |-> "RINGING", caller |-> u,
           callee |-> handler[h].peer, offered |-> FALSE, version |-> 1]]
      /\ history' = [history EXCEPT ![c] = <<"CALL_CREATED">>]
      /\ receipt' = [receipt EXCEPT ![u][handler[h].key] = c]
      /\ Done(h)
      /\ UNCHANGED <<due, account, notice>>

\* The 45 seconds of the ring are over.
RingOut(c) ==
  /\ call[c].status = "RINGING"
  /\ due' = due \cup {c}
  /\ UNCHANGED <<rows, account, notice, handler>>

-----------------------------------------------------------------------------
(* authorizeSignal, by a participant.                                       *)
Signal(h, u, c, s) ==
  /\ handler[h].phase = "idle"
  /\ call[c].status # "NONE" /\ u \in Party(call[c])
  /\ handler' = [handler EXCEPT ![h] =
       [Idle EXCEPT !.op = s, !.phase = "begin", !.user = u, !.call = c]]
  /\ UNCHANGED <<rows, due, account, notice>>

\* (as if an answer needed no offer)
WritesUnoffered(s, row, u) ==
  CASE s = "OFFER"             -> row.status = "RINGING" /\ u = row.caller /\ ~row.offered
    [] s = "ANSWER"            -> row.status = "RINGING" /\ u = row.callee
    [] s \in {"END", "REJECT"} -> row.status \in Live

\* The signals that change the row; the others are refused or change nothing.
Writes(s, row, u) ==
  CASE s = "OFFER"             -> row.status = "RINGING" /\ u = row.caller /\ ~row.offered
    [] s = "ANSWER"            -> row.status = "RINGING" /\ u = row.callee /\ row.offered
    [] s \in {"END", "REJECT"} -> row.status \in Live

\* A ringing call found past its deadline is expired instead.
BeginSignal(h) ==
  LET c == handler[h].call
      row == call[c]
  IN  /\ handler[h].op \in Signals /\ handler[h].phase = "begin"
      /\ IF row.status = "RINGING" /\ c \in due
         THEN handler' = [handler EXCEPT ![h].op = "expire", ![h].phase = "look", ![h].attempt = 0]
         ELSE IF Writes(handler[h].op, row, handler[h].user)
              THEN handler' = [handler EXCEPT ![h].phase = "commit", ![h].seen = row]
              ELSE Done(h)
      /\ UNCHANGED <<rows, due, account, notice>>

\* endTx: who ends it, and when, decides how it ended.
EndStatus(s, row, u) ==
  IF row.status # "RINGING" THEN "ENDED"
  ELSE IF s = "REJECT" /\ u = row.callee THEN "REJECTED" ELSE "CANCELLED"

After(s, row, u) ==
  CASE s = "OFFER"             -> [row EXCEPT !.offered = TRUE, !.version = @ + 1]
    [] s = "ANSWER"            -> [row EXCEPT !.status = "ACTIVE", !.version = @ + 1]
    [] s \in {"END", "REJECT"} -> [row EXCEPT !.status = EndStatus(s, row, u), !.version = @ + 1]

EndEvent == [ENDED |-> "CALL_ENDED", REJECTED |-> "CALL_REJECTED",
             MISSED |-> "CALL_MISSED", CANCELLED |-> "CALL_CANCELLED"]
EventOf(s, row, u) ==
  CASE s = "OFFER"             -> "OFFER_FORWARDED"
    [] s = "ANSWER"            -> "CALL_ANSWERED"
    [] s \in {"END", "REJECT"} -> EndEvent[EndStatus(s, row, u)]

\* (as if the transactions were READ COMMITTED)
ReadsUnprotected(h) == call[handler[h].call].status # "NONE"

\* Serializable validation: the row read is the row written.
ReadsHold(h) == call[handler[h].call] = handler[h].seen

CommitSignal(h) ==
  LET c == handler[h].call
      s == handler[h].op
      row == handler[h].seen
      u == handler[h].user
  IN  /\ s \in Signals /\ handler[h].phase = "commit"
      /\ ReadsHold(h)
      /\ call' = [call EXCEPT ![c] = After(s, row, u)]
      /\ history' = [history EXCEPT ![c] = Append(@, EventOf(s, row, u))]
      /\ Done(h)
      /\ UNCHANGED <<receipt, due, account, notice>>

-----------------------------------------------------------------------------
(* expireDue and expireCall.                                                *)
Ringing(c) == call[c].status = "RINGING" /\ c \in due

\* The maintenance tick meets the call among its candidates.
Tick(h, c) ==
  /\ handler[h].phase = "idle"
  /\ Ringing(c)
  /\ handler' = [handler EXCEPT ![h] = [Idle EXCEPT !.op = "expire", !.phase = "look", !.call = c]]
  /\ UNCHANGED <<rows, due, account, notice>>

\* (as if the deadline were compared the wrong way round)
LookEarly(h) ==
  /\ handler[h].phase = "look"
  /\ IF call[handler[h].call].status = "RINGING" /\ handler[h].call \notin due
     THEN Go(h, "begin") ELSE Done(h)
  /\ UNCHANGED <<rows, due, account, notice>>

Look(h) ==
  /\ handler[h].phase = "look"
  /\ IF Ringing(handler[h].call) THEN Go(h, "begin") ELSE Done(h)
  /\ UNCHANGED <<rows, due, account, notice>>

BeginExpire(h) ==
  LET c == handler[h].call
  IN  /\ handler[h].op = "expire" /\ handler[h].phase = "begin"
      /\ IF Ringing(c)
         THEN handler' = [handler EXCEPT ![h].phase = "commit", ![h].seen = call[c]]
         ELSE Done(h)
      /\ UNCHANGED <<rows, due, account, notice>>

\* (as if a call could be marked missed whatever became of it)
CommitExpireAnyway(h) ==
  LET c == handler[h].call
  IN  /\ handler[h].op = "expire" /\ handler[h].phase = "commit"
      /\ call' = [call EXCEPT ![c].status = "MISSED", ![c].version = @ + 1]
      /\ history' = [history EXCEPT ![c] = Append(@, "CALL_MISSED")]
      /\ Go(h, "notify")
      /\ UNCHANGED <<receipt, due, account, notice>>

\* markMissedTx compares status and version within the transaction.
CommitExpire(h) ==
  LET c == handler[h].call
  IN  /\ handler[h].op = "expire" /\ handler[h].phase = "commit"
      /\ ReadsHold(h)
      /\ call' = [call EXCEPT ![c].status = "MISSED", ![c].version = @ + 1]
      /\ history' = [history EXCEPT ![c] = Append(@, "CALL_MISSED")]
      /\ Go(h, "notify")
      /\ UNCHANGED <<receipt, due, account, notice>>

\* The callee is told after the transaction, and outside it.
NotifyMissed(h) ==
  /\ handler[h].phase = "notify"
  /\ notice' = [notice EXCEPT ![handler[h].call] = @ + 1]
  /\ Done(h)
  /\ UNCHANGED <<rows, due, account>>

-----------------------------------------------------------------------------
\* serializable: P2034 or P2002 is tried again while the loop allows it.
Refused(h) ==
  /\ handler[h].phase = "commit"
  /\ IF handler[h].attempt + 1 < Attempts
     THEN handler' = [handler EXCEPT ![h].phase = "begin", ![h].seen = NoRow, ![h].attempt = @ + 1]
     ELSE Done(h)
  /\ UNCHANGED <<rows, due, account, notice>>

\* A handler throws, or its process stops.
Crash(h) ==
  /\ handler[h].phase # "idle"
  /\ Done(h)
  /\ UNCHANGED <<rows, due, account, notice>>

\* Operators suspend and restore an account; its owner deletes it.  Nothing of
\* it touches the rows of its calls: deleteForAccount is not among what deleteAccount runs.
Suspend(u) ==
  /\ account[u] = "active"
  /\ account' = [account EXCEPT ![u] = "suspended"]
  /\ UNCHANGED <<rows, due, notice, handler>>

Restore(u) ==
  /\ account[u] = "suspended"
  /\ account' = [account EXCEPT ![u] = "active"]
  /\ UNCHANGED <<rows, due, notice, handler>>

DeleteAccount(u) ==
  /\ account[u] # "deleted"
  /\ account' = [account EXCEPT ![u] = "deleted"]
  /\ UNCHANGED <<rows, due, notice, handler>>

Progress(h) ==
  \/ FindReceipt(h) \/ CheckLimit(h) \/ BeginCreate(h) \/ (\E c \in Calls : CommitCreate(h, c))
  \/ BeginSignal(h) \/ CommitSignal(h)
  \/ Look(h) \/ BeginExpire(h) \/ CommitExpire(h) \/ NotifyMissed(h)
  \/ Refused(h)

Next ==
  \/ \E h \in Handlers :
       \/ \E u, v \in Users, k \in Keys : Create(h, u, v, k)
       \/ \E u \in Users, c \in Calls, s \in Signals : Signal(h, u, c, s)
       \/ \E c \in Calls : Tick(h, c)
       \/ Progress(h) \/ Crash(h)
  \/ \E c \in Calls : RingOut(c)
  \/ \E u \in Leavers : Suspend(u) \/ Restore(u) \/ DeleteAccount(u)

Spec == Init /\ [][Next]_vars

\* Pending promises settle, the maintenance timer comes back to every due call,
\* and an expiry tried again and again is not refused every time.
FairSpec ==
  /\ Spec
  /\ \A h \in Handlers : WF_vars(Progress(h))
  /\ \A c \in Calls :
       /\ SF_vars(\E h \in Handlers : Tick(h, c))
       /\ SF_vars(\E h \in Handlers : handler[h].call = c /\ Look(h))
       /\ SF_vars(\E h \in Handlers : handler[h].call = c /\ BeginExpire(h))
       /\ SF_vars(\E h \in Handlers : handler[h].call = c /\ CommitExpire(h))

-----------------------------------------------------------------------------
\* Shapes of the state.
TypeOK ==
  /\ call \in [Calls -> Row]
  /\ history \in [Calls -> Seq(Actions)]
  /\ receipt \in [Users -> [Keys -> Calls \cup {None}]]
  /\ due \subseteq Calls
  /\ account \in [Users -> {"active", "suspended", "deleted"}]
  /\ notice \in [Calls -> Nat]
  /\ handler \in [Handlers -> Handler]

\* Whoever calls whom at the same time, nobody is in two live calls.
OneLiveCallPerParticipant ==
  \A c, d \in Calls :
    call[c].status \in Live /\ call[d].status \in Live /\ Party(call[c]) \cap Party(call[d]) # {}
      => c = d

\* A creation tried again never rings twice: each call has exactly one key among
\* the receipts of its caller, and each receipt is of a call of its owner.
KeyRingsOnce ==
  /\ \A c \in Calls : call[c].status # "NONE" =>
       \E k \in Keys : \A j \in Keys : receipt[call[c].caller][j] = c <=> j = k
  /\ \A u \in Users, k \in Keys : receipt[u][k] # None =>
       call[receipt[u][k]].status # "NONE" /\ call[receipt[u][k]].caller = u

\* The events of a call tell its life: one per version, one ending at most, an
\* answer only after an offer, and never a call both answered and missed.
Happened(c, a) == \E i \in 1..Len(history[c]) : history[c][i] = a
HistoryTellsLife ==
  \A c \in Calls :
    /\ Len(history[c]) = call[c].version
    /\ call[c].offered <=> Happened(c, "OFFER_FORWARDED")
    /\ call[c].status \in {"ACTIVE", "ENDED"} <=> Happened(c, "CALL_ANSWERED")
    /\ Happened(c, "CALL_ANSWERED") => call[c].offered
    /\ \A s \in Terminal : call[c].status = s <=> Happened(c, EndEvent[s])

\* A missed-call notification is of a call that was missed, and comes once,
\* whichever of the timer and the late signals expired it.
MissedIsToldOnce ==
  \A c \in Calls : notice[c] <= (IF call[c].status = "MISSED" THEN 1 ELSE 0)

\* What a row says of its participants, and what a handler in flight may rely
\* on: with the invariants above, the part that makes them inductive.
RowsAreSound ==
  \A c \in Calls :
    IF call[c].status = "NONE" THEN call[c] = NoRow
    ELSE call[c].caller \in Users /\ call[c].callee \in Users /\ call[c].caller # call[c].callee

Sound(r) ==
  /\ r.op = "none" => r.phase = "idle"
  /\ r.op = "create" =>
       /\ r.user \in Users /\ r.peer \in Users /\ r.user # r.peer /\ r.key \in Keys
       /\ r.phase \in {"receipt", "limit", "begin", "commit"}
  /\ r.op \in Signals =>
       /\ r.user \in Users /\ r.call \in Calls /\ r.phase \in {"begin", "commit"}
       /\ r.phase = "commit" => Writes(r.op, r.seen, r.user)
  /\ r.op = "expire" =>
       /\ r.call \in Calls /\ r.phase \in {"look", "begin", "commit", "notify"}
       /\ r.phase = "commit" => r.seen.status = "RINGING"
       /\ r.phase = "notify" => call[r.call].status = "MISSED" /\ notice[r.call] = 0
OneTeller ==
  \A g, h \in Handlers :
    handler[g].phase = "notify" /\ handler[h].phase = "notify" /\ handler[g].call = handler[h].call
      => g = h
\* A handler only writes what its own reads allow, and one handler at most is
\* about to tell the callee of a missed call nobody was told of.
HandlersAreSound == OneTeller /\ \A h \in Handlers : Sound(handler[h])

CallInv ==
  /\ TypeOK
  /\ OneLiveCallPerParticipant
  /\ KeyRingsOnce
  /\ HistoryTellsLife
  /\ MissedIsToldOnce
  /\ RowsAreSound
  /\ HandlersAreSound

\* The hourly limit is counted before the transaction: handlers that race may
\* pass it, but by no more than there are other handlers.
LimitWithinRace ==
  \A u \in Users : Cardinality(Started(u)) <= MaxCalls + Cardinality(Handlers) - 1

\* A call does not ring for ever.
RingingEnds == \A c \in Calls : c \in due ~> call[c].status # "RINGING"

Calling == INSTANCE CallLifecycle WITH
  status <- [c \in Calls |-> call[c].status],
  parties <- [c \in Calls |-> Party(call[c]) \ {None}]
\* Concurrent, retried and interrupted handlers lead each call through one life.
ImplementsCallLifecycle == Calling!Spec

-----------------------------------------------------------------------------
(* What the documents say of calls and the code does not ensure.            *)

\* "Un appel vivant est annule" when an account is deleted.
DeletedLeavesNoLiveCall ==
  \A c \in Calls : call[c].status \in Live => \A u \in Party(call[c]) : account[u] # "deleted"
=============================================================================
