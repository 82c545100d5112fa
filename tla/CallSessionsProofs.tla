------------------------- MODULE CallSessionsProofs -------------------------
(***************************************************************************)
(* Proofs about CallSessions, for any accounts, calls, keys and handlers.    *)
(* CallInv is inductive: a transaction commits on what it read (CallsHold,   *)
(* ReadsHold), and HandlersAreSound says what a read row allowed.            *)
(***************************************************************************)
EXTENDS CallSessions, FiniteSetTheorems, TLAPS

LEMMA NoRowTyped == NoRow \in Row
BY DEF NoRow, Row

LEMMA IdleTyped == Idle \in Handler
<1>1. 0 \in 0..Attempts-1
  BY CallAssumption
<1> QED BY <1>1, NoRowTyped DEF Idle, Handler

LEMMA InitInv == Init => CallInv
<1> SUFFICES ASSUME Init PROVE CallInv
  OBVIOUS
<1> USE DEF Init
<1>1. TypeOK
  BY NoRowTyped, IdleTyped DEF TypeOK
<1>2. OneLiveCallPerParticipant /\ RowsAreSound
  BY DEF OneLiveCallPerParticipant, RowsAreSound, NoRow, Live
<1>3. KeyRingsOnce
  BY DEF KeyRingsOnce, NoRow
<1>4. HistoryTellsLife
  <2>1. \A c \in Calls : history[c] = <<>> /\ Len(history[c]) = 0
    OBVIOUS
  <2>2. \A c \in Calls : \A a : ~Happened(c, a)
    BY <2>1 DEF Happened
  <2> QED BY <2>1, <2>2 DEF HistoryTellsLife, NoRow, Terminal
<1>5. MissedIsToldOnce
  BY DEF MissedIsToldOnce, NoRow
<1>6. HandlersAreSound
  BY DEF HandlersAreSound, OneTeller, Sound, Idle, Signals
<1> QED BY <1>1, <1>2, <1>3, <1>4, <1>5, <1>6 DEF CallInv

-----------------------------------------------------------------------------
\* A step that only moves one handler keeps the invariant when what the handler
\* becomes is well formed, sound, and not about to notify.
LEMMA HandlerStep ==
  ASSUME CallInv, NEW h \in Handlers, NEW r \in Handler,
         handler' = [handler EXCEPT ![h] = r],
         UNCHANGED <<rows, due, account, notice>>,
         Sound(r), r.phase # "notify"
  PROVE  CallInv'
<1> USE DEF CallInv, rows
<1>1. TypeOK'
  BY DEF TypeOK
<1>2. OneLiveCallPerParticipant' /\ RowsAreSound' /\ KeyRingsOnce' /\ MissedIsToldOnce'
  BY DEF OneLiveCallPerParticipant, RowsAreSound, KeyRingsOnce, MissedIsToldOnce
<1>3. HistoryTellsLife'
  BY DEF HistoryTellsLife, Happened
<1>4. \A g \in Handlers : handler'[g] = IF g = h THEN r ELSE handler[g]
  BY DEF TypeOK
<1>5. OneTeller'
  BY <1>4 DEF HandlersAreSound, OneTeller
<1>6. ASSUME NEW g \in Handlers PROVE Sound(handler[g])'
  <2>1. Sound(handler'[g])
    BY <1>4 DEF HandlersAreSound
  <2> QED BY <2>1 DEF Sound
<1> QED BY <1>1, <1>2, <1>3, <1>5, <1>6 DEF HandlersAreSound

\* Ending a handler keeps the invariant.
LEMMA DoneStep ==
  ASSUME CallInv, NEW h \in Handlers, Done(h), UNCHANGED <<rows, due, account, notice>>
  PROVE  CallInv'
<1>1. Sound(Idle) /\ Idle.phase # "notify"
  BY DEF Sound, Idle, Signals
<1> QED BY <1>1, IdleTyped, HandlerStep DEF Done

\* Moving a handler to another phase keeps the invariant when the phase is one
\* its operation may be in, and it holds nothing to write yet.
LEMMA GoStep ==
  ASSUME CallInv, NEW h \in Handlers, NEW p \in {"limit", "begin", "commit"},
         Go(h, p), UNCHANGED <<rows, due, account, notice>>,
         \/ handler[h].op = "create"
         \/ handler[h].op = "expire" /\ p = "begin"
  PROVE  CallInv'
<1> DEFINE r == [handler[h] EXCEPT !.phase = p]
<1>1. handler[h] \in Handler /\ Sound(handler[h])
  BY DEF CallInv, TypeOK, HandlersAreSound
<1>2. r \in Handler
  BY <1>1 DEF Handler
<1>3. handler' = [handler EXCEPT ![h] = r]
  BY DEF Go
<1>4. /\ r.op = handler[h].op /\ r.user = handler[h].user /\ r.peer = handler[h].peer
      /\ r.key = handler[h].key /\ r.call = handler[h].call /\ r.phase = p
  BY <1>1 DEF Handler
<1> HIDE DEF r
<1>5. Sound(r)
  BY <1>1, <1>4 DEF Sound, Signals
<1> QED BY <1>2, <1>3, <1>4, <1>5, HandlerStep

-----------------------------------------------------------------------------
\* The invariant before a step of one handler, as its lemmas use it.
LEMMA HandlerFacts ==
  ASSUME CallInv, NEW h \in Handlers
  PROVE  handler[h] \in Handler /\ Sound(handler[h])
BY DEF CallInv, TypeOK, HandlersAreSound

\* Refusals and crashes, reads, and the arrival of signals: nothing but a
\* handler moves.
LEMMA CreateStep ==
  ASSUME CallInv, NEW h \in Handlers, NEW u \in Users, NEW v \in Users, NEW k \in Keys,
         Create(h, u, v, k)
  PROVE  CallInv'
<1> DEFINE r == [Idle EXCEPT !.op = "create", !.phase = "receipt", !.user = u, !.peer = v, !.key = k]
<1>1. r \in Handler
  BY IdleTyped DEF Handler, Signals
<1>2. /\ r.op = "create" /\ r.phase = "receipt" /\ r.user = u /\ r.peer = v /\ r.key = k
  BY DEF Idle
<1>3. handler' = [handler EXCEPT ![h] = r] /\ UNCHANGED <<rows, due, account, notice>> /\ u # v
  BY DEF Create
<1> HIDE DEF r
<1>4. Sound(r)
  BY <1>2, <1>3 DEF Sound, Signals
<1> QED BY <1>1, <1>2, <1>3, <1>4, HandlerStep

LEMMA FindReceiptStep ==
  ASSUME CallInv, NEW h \in Handlers, FindReceipt(h)
  PROVE  CallInv'
<1>1. handler[h].op = "create"
  BY HandlerFacts DEF FindReceipt, Sound, Handler, Signals
<1> QED BY <1>1, DoneStep, GoStep DEF FindReceipt

LEMMA CheckLimitStep ==
  ASSUME CallInv, NEW h \in Handlers, CheckLimit(h)
  PROVE  CallInv'
<1>1. handler[h].op = "create"
  BY HandlerFacts DEF CheckLimit, Sound, Handler, Signals
<1> QED BY <1>1, DoneStep, GoStep DEF CheckLimit

LEMMA BeginCreateStep ==
  ASSUME CallInv, NEW h \in Handlers, BeginCreate(h)
  PROVE  CallInv'
BY DoneStep, GoStep DEF BeginCreate

LEMMA SignalStep ==
  ASSUME CallInv, NEW h \in Handlers, NEW u \in Users, NEW c \in Calls, NEW s \in Signals,
         Signal(h, u, c, s)
  PROVE  CallInv'
<1> DEFINE r == [Idle EXCEPT !.op = s, !.phase = "begin", !.user = u, !.call = c]
<1>1. r \in Handler
  BY IdleTyped DEF Handler
<1>2. /\ r.op = s /\ r.phase = "begin" /\ r.user = u /\ r.call = c
  BY DEF Idle
<1>3. handler' = [handler EXCEPT ![h] = r] /\ UNCHANGED <<rows, due, account, notice>>
  BY DEF Signal
<1> HIDE DEF r
<1>4. Sound(r)
  BY <1>2 DEF Sound, Signals
<1> QED BY <1>1, <1>2, <1>3, <1>4, HandlerStep

LEMMA BeginSignalStep ==
  ASSUME CallInv, NEW h \in Handlers, BeginSignal(h)
  PROVE  CallInv'
<1> DEFINE c == handler[h].call
           row == call[c]
           r == [handler[h] EXCEPT !.op = "expire", !.phase = "look", !.attempt = 0]
           w == [handler[h] EXCEPT !.phase = "commit", !.seen = row]
<1>1. handler[h] \in Handler /\ Sound(handler[h]) /\ handler[h].op \in Signals
  BY HandlerFacts DEF BeginSignal
<1>2. c \in Calls /\ handler[h].user \in Users
  BY <1>1 DEF Sound
<1>3. row \in Row
  BY <1>2 DEF CallInv, TypeOK
<1>4. UNCHANGED <<rows, due, account, notice>>
  BY DEF BeginSignal
<1>5. CASE row.status = "RINGING" /\ c \in due
  <2>1. handler' = [handler EXCEPT ![h] = r]
    BY <1>1, <1>5 DEF BeginSignal, Handler
  <2>2. 0 \in 0..Attempts-1
    BY CallAssumption
  <2>3. r \in Handler
    BY <1>1, <2>2 DEF Handler
  <2>4. r.op = "expire" /\ r.phase = "look" /\ r.call = c
    BY <1>1 DEF Handler
  <2> HIDE DEF r
  <2>5. Sound(r)
    BY <1>2, <2>4 DEF Sound, Signals
  <2> QED BY <1>4, <2>1, <2>3, <2>4, <2>5, HandlerStep
<1>6. CASE ~(row.status = "RINGING" /\ c \in due) /\ Writes(handler[h].op, row, handler[h].user)
  <2>1. handler' = [handler EXCEPT ![h] = w]
    BY <1>1, <1>6 DEF BeginSignal, Handler
  <2>2. w \in Handler
    BY <1>1, <1>3 DEF Handler
  <2>3. w.op = handler[h].op /\ w.phase = "commit" /\ w.call = c /\ w.user = handler[h].user /\ w.seen = row
    BY <1>1 DEF Handler
  <2> HIDE DEF w
  <2>4. Sound(w)
    BY <1>1, <1>2, <1>6, <2>3 DEF Sound, Signals
  <2> QED BY <1>4, <2>1, <2>2, <2>3, <2>4, HandlerStep
<1>7. CASE ~(row.status = "RINGING" /\ c \in due) /\ ~Writes(handler[h].op, row, handler[h].user)
  BY <1>4, <1>7, DoneStep DEF BeginSignal
<1> QED BY <1>5, <1>6, <1>7

LEMMA TickStep ==
  ASSUME CallInv, NEW h \in Handlers, NEW c \in Calls, Tick(h, c)
  PROVE  CallInv'
<1> DEFINE r == [Idle EXCEPT !.op = "expire", !.phase = "look", !.call = c]
<1>1. r \in Handler
  BY IdleTyped DEF Handler
<1>2. r.op = "expire" /\ r.phase = "look" /\ r.call = c
  BY DEF Idle
<1>3. handler' = [handler EXCEPT ![h] = r] /\ UNCHANGED <<rows, due, account, notice>>
  BY DEF Tick
<1> HIDE DEF r
<1>4. Sound(r)
  BY <1>2 DEF Sound, Signals
<1> QED BY <1>1, <1>2, <1>3, <1>4, HandlerStep

LEMMA LookStep ==
  ASSUME CallInv, NEW h \in Handlers, Look(h)
  PROVE  CallInv'
<1>1. handler[h].op = "expire"
  BY HandlerFacts DEF Look, Sound, Handler, Signals
<1> QED BY <1>1, DoneStep, GoStep DEF Look

LEMMA BeginExpireStep ==
  ASSUME CallInv, NEW h \in Handlers, BeginExpire(h)
  PROVE  CallInv'
<1> DEFINE c == handler[h].call
           w == [handler[h] EXCEPT !.phase = "commit", !.seen = call[c]]
<1>1. handler[h] \in Handler /\ Sound(handler[h]) /\ handler[h].op = "expire"
  BY HandlerFacts DEF BeginExpire
<1>2. c \in Calls
  BY <1>1 DEF Sound
<1>3. call[c] \in Row
  BY <1>2 DEF CallInv, TypeOK
<1>4. UNCHANGED <<rows, due, account, notice>>
  BY DEF BeginExpire
<1>5. CASE Ringing(c)
  <2>1. handler' = [handler EXCEPT ![h] = w]
    BY <1>1, <1>5 DEF BeginExpire, Handler
  <2>2. w \in Handler
    BY <1>1, <1>3 DEF Handler
  <2>3. w.op = "expire" /\ w.phase = "commit" /\ w.call = c /\ w.seen = call[c]
    BY <1>1 DEF Handler
  <2> HIDE DEF w
  <2>4. Sound(w)
    BY <1>2, <1>5, <2>3 DEF Sound, Signals, Ringing
  <2> QED BY <1>4, <2>1, <2>2, <2>3, <2>4, HandlerStep
<1>6. CASE ~Ringing(c)
  BY <1>4, <1>6, DoneStep DEF BeginExpire
<1> QED BY <1>5, <1>6

LEMMA RefusedStep ==
  ASSUME CallInv, NEW h \in Handlers, Refused(h)
  PROVE  CallInv'
<1> DEFINE r == [handler[h] EXCEPT !.phase = "begin", !.seen = NoRow, !.attempt = @ + 1]
<1>1. handler[h] \in Handler /\ Sound(handler[h]) /\ handler[h].phase = "commit"
  BY HandlerFacts DEF Refused
<1>2. UNCHANGED <<rows, due, account, notice>>
  BY DEF Refused
<1>3. CASE handler[h].attempt + 1 < Attempts
  <2>1. handler' = [handler EXCEPT ![h] = r]
    BY <1>1, <1>3 DEF Refused, Handler
  <2>2. handler[h].attempt + 1 \in 0..Attempts-1
    BY <1>1, <1>3, CallAssumption DEF Handler
  <2>3. r \in Handler
    BY <1>1, <2>2, NoRowTyped DEF Handler
  <2>4. /\ r.op = handler[h].op /\ r.user = handler[h].user /\ r.peer = handler[h].peer
        /\ r.key = handler[h].key /\ r.call = handler[h].call /\ r.phase = "begin"
    BY <1>1 DEF Handler
  <2> HIDE DEF r
  <2>5. Sound(r)
    BY <1>1, <2>4 DEF Sound, Signals
  <2> QED BY <1>2, <2>1, <2>3, <2>4, <2>5, HandlerStep
<1>4. CASE ~(handler[h].attempt + 1 < Attempts)
  BY <1>2, <1>4, DoneStep DEF Refused
<1> QED BY <1>3, <1>4

LEMMA CrashStep ==
  ASSUME CallInv, NEW h \in Handlers, Crash(h)
  PROVE  CallInv'
BY DoneStep DEF Crash

-----------------------------------------------------------------------------
\* An event appended to the history of a call has happened, and nothing else.
LEMMA AppendedEvent ==
  ASSUME history \in [Calls -> Seq(Actions)], NEW c \in Calls, NEW e \in Actions,
         history' = [history EXCEPT ![c] = Append(@, e)]
  PROVE  /\ history' \in [Calls -> Seq(Actions)]
         /\ \A d \in Calls : Len(history'[d]) = IF d = c THEN Len(history[d]) + 1 ELSE Len(history[d])
         /\ \A d \in Calls : \A a : Happened(d, a)' <=> Happened(d, a) \/ (d = c /\ a = e)
<1>1. history'[c] = Append(history[c], e) /\ \A d \in Calls : d # c => history'[d] = history[d]
  OBVIOUS
<1>2. /\ history[c] \in Seq(Actions) /\ Len(history'[c]) = Len(history[c]) + 1
      /\ Len(history[c]) \in Nat
      /\ \A i \in 1..Len(history[c]) : history'[c][i] = history[c][i]
      /\ history'[c][Len(history[c]) + 1] = e
  BY <1>1
<1>3. history' \in [Calls -> Seq(Actions)]
  OBVIOUS
<1>4. ASSUME NEW d \in Calls, NEW a, d # c PROVE Happened(d, a)' <=> Happened(d, a)
  BY <1>1, <1>4 DEF Happened
<1>5. ASSUME NEW a PROVE Happened(c, a)' <=> Happened(c, a) \/ a = e
  <2>1. ASSUME Happened(c, a)' PROVE Happened(c, a) \/ a = e
    <3>1. PICK i \in 1..Len(history'[c]) : history'[c][i] = a
      BY <2>1 DEF Happened
    <3>2. i \in 1..Len(history[c]) \/ i = Len(history[c]) + 1
      BY <1>2, <3>1
    <3> QED BY <1>2, <3>1, <3>2 DEF Happened
  <2>2. ASSUME Happened(c, a) PROVE Happened(c, a)'
    <3>1. PICK i \in 1..Len(history[c]) : history[c][i] = a
      BY <2>2 DEF Happened
    <3>2. i \in 1..Len(history'[c]) /\ history'[c][i] = a
      BY <1>2, <3>1
    <3> QED BY <3>2 DEF Happened
  <2>3. ASSUME a = e PROVE Happened(c, a)'
    <3>1. Len(history[c]) + 1 \in 1..Len(history'[c])
      BY <1>2
    <3> QED BY <1>2, <2>3, <3>1 DEF Happened
  <2> QED BY <2>1, <2>2, <2>3
<1> QED BY <1>1, <1>2, <1>3, <1>4, <1>5

\* How a live call moves, from row r to row q, and the event e of the move.
Moves(r, q, e) ==
  /\ r.status \in Live
  /\ q \in Row /\ q.caller = r.caller /\ q.callee = r.callee /\ q.version = r.version + 1
  /\ \/ /\ r.status = "RINGING" /\ q.status = "RINGING" /\ ~r.offered /\ q.offered
        /\ e = "OFFER_FORWARDED"
     \/ /\ r.status = "RINGING" /\ q.status = "ACTIVE" /\ r.offered /\ q.offered
        /\ e = "CALL_ANSWERED"
     \/ /\ r.status = "RINGING" /\ q.status \in Terminal \ {"ENDED"} /\ (q.offered <=> r.offered)
        /\ e = EndEvent[q.status]
     \/ /\ r.status = "ACTIVE" /\ q.status = "ENDED" /\ (q.offered <=> r.offered)
        /\ e = EndEvent[q.status]

\* Each ending has an event of its own.
LEMMA EndEvents ==
  /\ \A s \in Terminal : EndEvent[s] \in Actions \ {"CALL_CREATED", "OFFER_FORWARDED", "CALL_ANSWERED"}
  /\ \A s, t \in Terminal : EndEvent[s] = EndEvent[t] => s = t
BY DEF Terminal, EndEvent, Actions

\* A move of a live call, told by its event, keeps what rows, receipts, events
\* and notices promise.
LEMMA MoveStep ==
  ASSUME CallInv, NEW c \in Calls, NEW q, NEW e, Moves(call[c], q, e),
         call' = [call EXCEPT ![c] = q],
         history' = [history EXCEPT ![c] = Append(@, e)],
         UNCHANGED <<receipt, due, account, notice>>
  PROVE  /\ call' \in [Calls -> Row] /\ history' \in [Calls -> Seq(Actions)]
         /\ OneLiveCallPerParticipant' /\ KeyRingsOnce' /\ HistoryTellsLife'
         /\ MissedIsToldOnce' /\ RowsAreSound'
         /\ \A d \in Calls : call[d].status = "MISSED" => call'[d] = call[d]
<1> USE DEF CallInv
<1>1. call \in [Calls -> Row] /\ history \in [Calls -> Seq(Actions)] /\ notice \in [Calls -> Nat]
  BY DEF TypeOK
<1>2. q \in Row /\ q.caller = call[c].caller /\ q.callee = call[c].callee /\ call[c].status \in Live
  BY DEF Moves
<1>3. e \in Actions
  BY EndEvents DEF Moves, Actions, Terminal
<1>4. \A d \in Calls : call'[d] = IF d = c THEN q ELSE call[d]
  BY <1>1
<1>5. call' \in [Calls -> Row]
  BY <1>1, <1>2
<1>6. q.status # "NONE"
  BY DEF Moves, Terminal
<1>7. \A d \in Calls : Party(call'[d]) = Party(call[d])
  BY <1>2, <1>4 DEF Party
<1>8. OneLiveCallPerParticipant'
  BY <1>2, <1>4, <1>7 DEF OneLiveCallPerParticipant
<1>9. KeyRingsOnce'
  <2>1. \A d \in Calls : call'[d].caller = call[d].caller
                         /\ (call'[d].status = "NONE" <=> call[d].status = "NONE")
    BY <1>2, <1>4, <1>6 DEF Live
  <2>2. \A u \in Users, k \in Keys : receipt[u][k] # None => receipt[u][k] \in Calls
    BY DEF TypeOK
  <2> QED BY <2>1, <2>2 DEF KeyRingsOnce
<1>10. MissedIsToldOnce'
  BY <1>1, <1>2, <1>4 DEF MissedIsToldOnce, Live
<1>11. RowsAreSound'
  <2>1. call[c].caller \in Users /\ call[c].callee \in Users /\ call[c].caller # call[c].callee
    BY <1>2 DEF RowsAreSound, Live
  <2> QED BY <1>2, <1>4, <1>6, <2>1 DEF RowsAreSound
<1>12. HistoryTellsLife'
  <2>1. /\ \A d \in Calls : Len(history'[d]) = IF d = c THEN Len(history[d]) + 1 ELSE Len(history[d])
        /\ \A d \in Calls : \A a : Happened(d, a)' <=> Happened(d, a) \/ (d = c /\ a = e)
    BY <1>1, <1>3, AppendedEvent
  <2> DEFINE Tells(d) == /\ Len(history[d]) = call[d].version
                         /\ call[d].offered <=> Happened(d, "OFFER_FORWARDED")
                         /\ call[d].status \in {"ACTIVE", "ENDED"} <=> Happened(d, "CALL_ANSWERED")
                         /\ Happened(d, "CALL_ANSWERED") => call[d].offered
                         /\ \A s \in Terminal : call[d].status = s <=> Happened(d, EndEvent[s])
  <2>2. \A d \in Calls : Tells(d)
    BY DEF HistoryTellsLife
  <2>3. ASSUME NEW d \in Calls, d # c PROVE Tells(d)'
    BY <1>4, <2>1, <2>2, <2>3
  <2>4. Tells(c)'
    <3>1. Tells(c)
      BY <2>2
    <3>2. Len(history'[c]) = q.version
      BY <2>1, <3>1 DEF Moves
    <3>3. q.offered <=> Happened(c, "OFFER_FORWARDED") \/ e = "OFFER_FORWARDED"
      BY <3>1, EndEvents DEF Moves
    <3>4. q.status \in {"ACTIVE", "ENDED"} <=> Happened(c, "CALL_ANSWERED") \/ e = "CALL_ANSWERED"
      BY <3>1, EndEvents DEF Moves, Terminal
    <3>5. Happened(c, "CALL_ANSWERED") \/ e = "CALL_ANSWERED" => q.offered
      BY <3>1, EndEvents DEF Moves
    <3>6. ASSUME NEW s \in Terminal PROVE q.status = s <=> Happened(c, EndEvent[s]) \/ EndEvent[s] = e
      <4>1. ~Happened(c, EndEvent[s])
        BY <1>2, <3>1 DEF Live, Terminal
      <4> QED BY <4>1, EndEvents DEF Moves, Terminal
    <3> QED BY <1>4, <2>1, <3>2, <3>3, <3>4, <3>5, <3>6
  <2> QED BY <2>3, <2>4 DEF HistoryTellsLife
<1>13. history' \in [Calls -> Seq(Actions)]
  BY <1>1, <1>3, AppendedEvent
<1>14. \A d \in Calls : call[d].status = "MISSED" => call'[d] = call[d]
  BY <1>2, <1>4 DEF Live
<1> QED BY <1>5, <1>8, <1>9, <1>10, <1>11, <1>12, <1>13, <1>14

\* What the signal of a participant writes is a move of the row it read.
LEMMA SignalMoves ==
  ASSUME NEW s \in Signals, NEW r \in Row, NEW u, Writes(s, r, u)
  PROVE  Moves(r, After(s, r, u), EventOf(s, r, u))
<1>1. r.version + 1 \in Nat
  BY DEF Row
<1>2. CASE s = "OFFER"
  <2>1. After(s, r, u) = [r EXCEPT !.offered = TRUE, !.version = @ + 1] /\ EventOf(s, r, u) = "OFFER_FORWARDED"
    BY <1>2 DEF After, EventOf
  <2>2. r.status = "RINGING" /\ ~r.offered
    BY <1>2 DEF Writes
  <2> QED BY <1>1, <2>1, <2>2 DEF Moves, Row, Live
<1>3. CASE s = "ANSWER"
  <2>1. After(s, r, u) = [r EXCEPT !.status = "ACTIVE", !.version = @ + 1] /\ EventOf(s, r, u) = "CALL_ANSWERED"
    BY <1>3 DEF After, EventOf
  <2>2. r.status = "RINGING" /\ r.offered
    BY <1>3 DEF Writes
  <2> QED BY <1>1, <2>1, <2>2 DEF Moves, Row, Live
<1>4. CASE s \in {"END", "REJECT"}
  <2> DEFINE t == EndStatus(s, r, u)
  <2>1. After(s, r, u) = [r EXCEPT !.status = t, !.version = @ + 1] /\ EventOf(s, r, u) = EndEvent[t]
    BY <1>4 DEF After, EventOf
  <2>2. r.status \in Live
    BY <1>4 DEF Writes
  <2>3. /\ t \in Terminal
        /\ r.status = "RINGING" => t \in Terminal \ {"ENDED"}
        /\ r.status # "RINGING" => t = "ENDED"
    BY DEF EndStatus, Terminal
  <2> HIDE DEF t
  <2> QED BY <1>1, <2>1, <2>2, <2>3 DEF Moves, Row, Live
<1> QED BY <1>2, <1>3, <1>4 DEF Signals

LEMMA CommitSignalStep ==
  ASSUME CallInv, NEW h \in Handlers, CommitSignal(h)
  PROVE  CallInv'
<1> DEFINE c == handler[h].call
           s == handler[h].op
           u == handler[h].user
           q == After(s, call[c], u)
           e == EventOf(s, call[c], u)
<1>1. handler[h] \in Handler /\ Sound(handler[h]) /\ s \in Signals /\ handler[h].phase = "commit"
  BY HandlerFacts DEF CommitSignal
<1>2. c \in Calls /\ Writes(s, handler[h].seen, u) /\ handler[h].seen = call[c]
  BY <1>1 DEF Sound, CommitSignal, ReadsHold
<1>3. call[c] \in Row
  BY <1>2 DEF CallInv, TypeOK
<1>4. Moves(call[c], q, e)
  BY <1>1, <1>2, <1>3, SignalMoves
<1>5. /\ call' = [call EXCEPT ![c] = q] /\ history' = [history EXCEPT ![c] = Append(@, e)]
      /\ handler' = [handler EXCEPT ![h] = Idle] /\ UNCHANGED <<receipt, due, account, notice>>
  BY <1>2 DEF CommitSignal, Done
<1> HIDE DEF q, e
<1>6. /\ call' \in [Calls -> Row] /\ history' \in [Calls -> Seq(Actions)]
      /\ OneLiveCallPerParticipant' /\ KeyRingsOnce' /\ HistoryTellsLife'
      /\ MissedIsToldOnce' /\ RowsAreSound'
      /\ \A d \in Calls : call[d].status = "MISSED" => call'[d] = call[d]
  BY <1>2, <1>4, <1>5, MoveStep
<1>7. \A g \in Handlers : handler'[g] = IF g = h THEN Idle ELSE handler[g]
  BY <1>5 DEF CallInv, TypeOK
<1>8. TypeOK'
  BY <1>5, <1>6, IdleTyped DEF CallInv, TypeOK
<1>9. OneTeller'
  BY <1>7 DEF CallInv, HandlersAreSound, OneTeller, Idle
<1>10. ASSUME NEW g \in Handlers PROVE Sound(handler[g])'
  <2>1. CASE g = h
    BY <1>7, <2>1 DEF Sound, Idle, Signals
  <2>2. CASE g # h
    <3>1. handler'[g] = handler[g] /\ Sound(handler[g])
      BY <1>7, <2>2 DEF CallInv, HandlersAreSound
    <3> QED BY <1>5, <1>6, <3>1 DEF Sound
  <2> QED BY <2>1, <2>2
<1> QED BY <1>6, <1>8, <1>9, <1>10 DEF CallInv, HandlersAreSound

LEMMA CommitExpireStep ==
  ASSUME CallInv, NEW h \in Handlers, CommitExpire(h)
  PROVE  CallInv' /\ Moves(call[handler[h].call], call'[handler[h].call], "CALL_MISSED")
<1> DEFINE c == handler[h].call
           q == [call[c] EXCEPT !.status = "MISSED", !.version = @ + 1]
           r == [handler[h] EXCEPT !.phase = "notify"]
<1>1. handler[h] \in Handler /\ Sound(handler[h]) /\ handler[h].op = "expire" /\ handler[h].phase = "commit"
  BY HandlerFacts DEF CommitExpire
<1>2. c \in Calls /\ handler[h].seen.status = "RINGING" /\ handler[h].seen = call[c]
  BY <1>1 DEF Sound, CommitExpire, ReadsHold
<1>3. call \in [Calls -> Row] /\ call[c] \in Row /\ notice \in [Calls -> Nat] /\ handler \in [Handlers -> Handler]
  BY <1>2 DEF CallInv, TypeOK
<1>4. Moves(call[c], q, "CALL_MISSED")
  <2>1. /\ q.status = "MISSED" /\ q.version = call[c].version + 1 /\ q.caller = call[c].caller
        /\ q.callee = call[c].callee /\ (q.offered <=> call[c].offered)
    BY <1>3 DEF Row
  <2>2. q \in Row
    <3>1. call[c].version + 1 \in Nat
      BY <1>3 DEF Row
    <3> QED BY <1>3, <3>1 DEF Row, Terminal
  <2> QED BY <1>2, <2>1, <2>2 DEF Moves, Live, Terminal, EndEvent
<1>5. /\ call' = [call EXCEPT ![c] = q] /\ history' = [history EXCEPT ![c] = Append(@, "CALL_MISSED")]
      /\ UNCHANGED <<receipt, due, account, notice>>
  BY <1>2, <1>3 DEF CommitExpire, Row
<1>6. handler' = [handler EXCEPT ![h] = r] /\ call'[c] = q /\ q.status = "MISSED"
  BY <1>1, <1>2, <1>3, <1>5 DEF CommitExpire, Go, Row
<1>7. /\ r \in Handler /\ r.op = "expire" /\ r.phase = "notify" /\ r.call = c
  BY <1>1 DEF Handler
<1> HIDE DEF q, r
<1>8. /\ call' \in [Calls -> Row] /\ history' \in [Calls -> Seq(Actions)]
      /\ OneLiveCallPerParticipant' /\ KeyRingsOnce' /\ HistoryTellsLife'
      /\ MissedIsToldOnce' /\ RowsAreSound'
      /\ \A d \in Calls : call[d].status = "MISSED" => call'[d] = call[d]
  BY <1>2, <1>4, <1>5, MoveStep
<1>9. \A g \in Handlers : handler'[g] = IF g = h THEN r ELSE handler[g]
  BY <1>3, <1>6
<1>10. TypeOK'
  BY <1>5, <1>6, <1>7, <1>8 DEF CallInv, TypeOK
<1>11. \A g \in Handlers : handler[g].phase = "notify" => handler[g].call # c
  <2> SUFFICES ASSUME NEW g \in Handlers, handler[g].phase = "notify" PROVE handler[g].call # c
    OBVIOUS
  <2>1. call[handler[g].call].status = "MISSED"
    BY HandlerFacts DEF Sound, Handler, Signals
  <2> QED BY <1>2, <2>1
<1>12. OneTeller'
  BY <1>7, <1>9, <1>11 DEF CallInv, HandlersAreSound, OneTeller
<1>13. ASSUME NEW g \in Handlers PROVE Sound(handler[g])'
  <2>1. CASE g = h
    <3>1. notice[c] = 0
      BY <1>2, <1>3 DEF CallInv, MissedIsToldOnce
    <3> QED BY <1>2, <1>5, <1>6, <1>7, <1>9, <2>1, <3>1 DEF Sound, Signals
  <2>2. CASE g # h
    <3>1. handler'[g] = handler[g] /\ Sound(handler[g])
      BY <1>9, <2>2 DEF CallInv, HandlersAreSound
    <3> QED BY <1>5, <1>8, <3>1 DEF Sound
  <2> QED BY <2>1, <2>2
<1> QED BY <1>4, <1>6, <1>8, <1>10, <1>12, <1>13 DEF CallInv, HandlersAreSound

LEMMA NotifyMissedStep ==
  ASSUME CallInv, NEW h \in Handlers, NotifyMissed(h)
  PROVE  CallInv'
<1> DEFINE c == handler[h].call
<1>1. handler[h] \in Handler /\ Sound(handler[h]) /\ handler[h].phase = "notify"
  BY HandlerFacts DEF NotifyMissed
<1>2. handler[h].op = "expire" /\ c \in Calls /\ call[c].status = "MISSED" /\ notice[c] = 0
  BY <1>1 DEF Sound, Handler, Signals
<1>3. notice \in [Calls -> Nat] /\ handler \in [Handlers -> Handler]
  BY DEF CallInv, TypeOK
<1>4. \A d \in Calls : notice'[d] = IF d = c THEN 1 ELSE notice[d]
  BY <1>2, <1>3 DEF NotifyMissed
<1>5. UNCHANGED <<call, history, receipt, due, account>>
  BY DEF NotifyMissed, rows
<1>6. \A g \in Handlers : handler'[g] = IF g = h THEN Idle ELSE handler[g]
  BY <1>3 DEF NotifyMissed, Done
<1>7. TypeOK'
  <2>1. notice' \in [Calls -> Nat]
    BY <1>2, <1>3 DEF NotifyMissed
  <2>2. handler' \in [Handlers -> Handler]
    BY <1>3, IdleTyped DEF NotifyMissed, Done
  <2> QED BY <1>5, <2>1, <2>2 DEF CallInv, TypeOK
<1>8. OneLiveCallPerParticipant' /\ KeyRingsOnce' /\ RowsAreSound'
  BY <1>5 DEF CallInv, OneLiveCallPerParticipant, KeyRingsOnce, RowsAreSound
<1>9. HistoryTellsLife'
  BY <1>5 DEF CallInv, HistoryTellsLife, Happened
<1>10. MissedIsToldOnce'
  BY <1>2, <1>4, <1>5 DEF CallInv, MissedIsToldOnce
<1>11. OneTeller'
  BY <1>6 DEF CallInv, HandlersAreSound, OneTeller, Idle
<1>12. ASSUME NEW g \in Handlers PROVE Sound(handler[g])'
  <2>1. CASE g = h
    BY <1>6, <2>1 DEF Sound, Idle, Signals
  <2>2. CASE g # h
    <3>1. handler'[g] = handler[g] /\ Sound(handler[g])
      BY <1>6, <2>2 DEF CallInv, HandlersAreSound
    <3>2. handler[g].phase = "notify" => handler[g].call # c
      BY <1>1, <2>2 DEF CallInv, HandlersAreSound, OneTeller
    <3> QED BY <1>4, <1>5, <3>1, <3>2 DEF Sound
  <2> QED BY <2>1, <2>2
<1> QED BY <1>7, <1>8, <1>9, <1>10, <1>11, <1>12 DEF CallInv, HandlersAreSound

-----------------------------------------------------------------------------
\* A new call: its row, its first event and its receipt are written at once.
LEMMA CommitCreateStep ==
  ASSUME CallInv, NEW h \in Handlers, NEW c \in Calls, CommitCreate(h, c)
  PROVE  CallInv'
<1> DEFINE u == handler[h].user
           v == handler[h].peer
           k == handler[h].key
           q == [status |-> "RINGING", caller |-> u, callee |-> v, offered |-> FALSE, version |-> 1]
<1>1. handler[h] \in Handler /\ Sound(handler[h]) /\ handler[h].op = "create" /\ handler[h].phase = "commit"
  BY HandlerFacts DEF CommitCreate
<1>2. u \in Users /\ v \in Users /\ u # v /\ k \in Keys
  BY <1>1 DEF Sound
<1>3. receipt[u][k] = None /\ Free(u) /\ Free(v) /\ call[c].status = "NONE"
  BY DEF CommitCreate, CallsHold, Replayed
<1>4. /\ call' = [call EXCEPT ![c] = q] /\ history' = [history EXCEPT ![c] = <<"CALL_CREATED">>]
      /\ receipt' = [receipt EXCEPT ![u][k] = c] /\ handler' = [handler EXCEPT ![h] = Idle]
      /\ UNCHANGED <<due, account, notice>>
  BY DEF CommitCreate, Done
<1>5. /\ call \in [Calls -> Row] /\ history \in [Calls -> Seq(Actions)] /\ notice \in [Calls -> Nat]
      /\ receipt \in [Users -> [Keys -> Calls \cup {None}]] /\ handler \in [Handlers -> Handler]
  BY DEF CallInv, TypeOK
<1>6. q \in Row /\ q.status = "RINGING" /\ q.caller = u /\ q.callee = v /\ ~q.offered /\ q.version = 1
  BY <1>2 DEF Row, Live
<1> HIDE DEF q
<1>7. \A d \in Calls : call'[d] = IF d = c THEN q ELSE call[d]
  BY <1>4, <1>5
<1>8. \A w \in Users, j \in Keys : receipt'[w][j] = IF w = u /\ j = k THEN c ELSE receipt[w][j]
  BY <1>2, <1>4, <1>5
<1>9. \A g \in Handlers : handler'[g] = IF g = h THEN Idle ELSE handler[g]
  BY <1>4, <1>5
<1>10. TypeOK'
  <2>1. <<"CALL_CREATED">> \in Seq(Actions)
    BY DEF Actions
  <2>2. history' \in [Calls -> Seq(Actions)]
    BY <1>4, <1>5, <2>1
  <2>3. receipt' \in [Users -> [Keys -> Calls \cup {None}]]
    BY <1>2, <1>4, <1>5
  <2>4. call' \in [Calls -> Row] /\ handler' \in [Handlers -> Handler]
    BY <1>4, <1>5, <1>6, IdleTyped
  <2> QED BY <1>4, <2>2, <2>3, <2>4 DEF CallInv, TypeOK
<1>11. OneLiveCallPerParticipant'
  <2> SUFFICES ASSUME NEW d \in Calls, NEW e \in Calls, d # e,
                      call'[d].status \in Live, call'[e].status \in Live,
                      Party(call'[d]) \cap Party(call'[e]) # {}
               PROVE FALSE
    BY DEF OneLiveCallPerParticipant, Party
  <2>1. ASSUME NEW f \in Calls, f # c, call[f].status \in Live PROVE Party(call[f]) \cap {u, v} = {}
    BY <1>3, <2>1 DEF Free
  <2>2. Party(q) = {u, v}
    BY <1>6 DEF Party
  <2>3. CASE d = c
    BY <1>7, <2>1, <2>2, <2>3
  <2>4. CASE e = c
    BY <1>7, <2>1, <2>2, <2>4
  <2>5. CASE d # c /\ e # c
    BY <1>7, <2>5 DEF CallInv, OneLiveCallPerParticipant
  <2> QED BY <2>3, <2>4, <2>5
<1>12. KeyRingsOnce'
  <2>1. \A w \in Users, j \in Keys : receipt[w][j] # c
    BY <1>3, CallAssumption DEF CallInv, KeyRingsOnce
  <2>2. ASSUME NEW d \in Calls, call'[d].status # "NONE"
        PROVE \E i \in Keys : \A j \in Keys : receipt'[call'[d].caller][j] = d <=> j = i
    <3>1. CASE d = c
      BY <1>2, <1>6, <1>7, <1>8, <2>1, <3>1
    <3>2. CASE d # c
      <4>1. call'[d] = call[d] /\ call[d].caller \in Users
        BY <1>7, <2>2, <3>2 DEF CallInv, RowsAreSound
      <4>2. PICK i \in Keys : \A j \in Keys : receipt[call[d].caller][j] = d <=> j = i
        BY <2>2, <4>1 DEF CallInv, KeyRingsOnce
      <4>3. \A j \in Keys : receipt'[call[d].caller][j] = d <=> receipt[call[d].caller][j] = d
        BY <1>3, <1>8, <3>2, <4>1, CallAssumption
      <4> QED BY <4>1, <4>2, <4>3
    <3> QED BY <3>1, <3>2
  <2>3. ASSUME NEW w \in Users, NEW j \in Keys, receipt'[w][j] # None
        PROVE call'[receipt'[w][j]].status # "NONE" /\ call'[receipt'[w][j]].caller = w
    <3>1. CASE w = u /\ j = k
      BY <1>6, <1>7, <1>8, <3>1
    <3>2. CASE ~(w = u /\ j = k)
      <4>1. receipt'[w][j] = receipt[w][j] /\ receipt[w][j] # None
        BY <1>8, <2>3, <3>2
      <4>2. receipt[w][j] \in Calls /\ receipt[w][j] # c
        BY <1>5, <2>1, <4>1
      <4> QED BY <1>7, <4>1, <4>2 DEF CallInv, KeyRingsOnce
    <3> QED BY <3>1, <3>2
  <2> QED BY <2>2, <2>3 DEF KeyRingsOnce
<1>13. HistoryTellsLife'
  <2>1. history'[c] = <<"CALL_CREATED">> /\ \A d \in Calls : d # c => history'[d] = history[d]
    BY <1>4, <1>5
  <2>2. \A a : Happened(c, a)' <=> a = "CALL_CREATED"
    BY <2>1 DEF Happened
  <2>3. \A d \in Calls : \A a : d # c => (Happened(d, a)' <=> Happened(d, a))
    BY <2>1 DEF Happened
  <2>4. Len(history'[c]) = 1
    BY <2>1
  <2>5. /\ Len(history'[c]) = call'[c].version
        /\ call'[c].offered <=> Happened(c, "OFFER_FORWARDED")'
        /\ call'[c].status \in {"ACTIVE", "ENDED"} <=> Happened(c, "CALL_ANSWERED")'
        /\ Happened(c, "CALL_ANSWERED")' => call'[c].offered
    BY <1>6, <1>7, <2>2, <2>4
  <2>6. \A s \in Terminal : call'[c].status = s <=> Happened(c, EndEvent[s])'
    BY <1>6, <1>7, <2>2, EndEvents DEF Terminal
  <2>7. ASSUME NEW d \in Calls, d # c
        PROVE /\ Len(history'[d]) = call'[d].version
              /\ call'[d].offered <=> Happened(d, "OFFER_FORWARDED")'
              /\ call'[d].status \in {"ACTIVE", "ENDED"} <=> Happened(d, "CALL_ANSWERED")'
              /\ Happened(d, "CALL_ANSWERED")' => call'[d].offered
              /\ \A s \in Terminal : call'[d].status = s <=> Happened(d, EndEvent[s])'
    BY <1>7, <2>1, <2>3, <2>7 DEF CallInv, HistoryTellsLife
  <2> QED BY <2>5, <2>6, <2>7 DEF HistoryTellsLife
<1>14. MissedIsToldOnce'
  BY <1>3, <1>4, <1>5, <1>6, <1>7 DEF CallInv, MissedIsToldOnce
<1>15. RowsAreSound'
  BY <1>2, <1>6, <1>7 DEF CallInv, RowsAreSound
<1>16. OneTeller'
  BY <1>9 DEF CallInv, HandlersAreSound, OneTeller, Idle
<1>17. ASSUME NEW g \in Handlers PROVE Sound(handler[g])'
  <2>1. CASE g = h
    BY <1>9, <2>1 DEF Sound, Idle, Signals
  <2>2. CASE g # h
    <3>1. handler'[g] = handler[g] /\ Sound(handler[g])
      BY <1>9, <2>2 DEF CallInv, HandlersAreSound
    <3>2. \A d \in Calls : call[d].status = "MISSED" => call'[d] = call[d]
      BY <1>3, <1>7
    <3> QED BY <1>4, <3>1, <3>2 DEF Sound
  <2> QED BY <2>1, <2>2
<1> QED BY <1>10, <1>11, <1>12, <1>13, <1>14, <1>15, <1>16, <1>17 DEF CallInv, HandlersAreSound

\* The clock and the accounts touch none of what the invariant relates.
LEMMA OutsideStep ==
  ASSUME CallInv, UNCHANGED <<rows, notice, handler>>,
         due' \subseteq Calls, account' \in [Users -> {"active", "suspended", "deleted"}]
  PROVE  CallInv'
<1> USE DEF CallInv, rows
<1>1. TypeOK'
  BY DEF TypeOK
<1>2. OneLiveCallPerParticipant' /\ MissedIsToldOnce' /\ RowsAreSound'
  <2>1. UNCHANGED <<call, notice>>
    OBVIOUS
  <2>2. OneLiveCallPerParticipant'
    BY <2>1 DEF OneLiveCallPerParticipant
  <2>3. MissedIsToldOnce'
    BY <2>1 DEF MissedIsToldOnce
  <2>4. RowsAreSound'
    BY <2>1 DEF RowsAreSound
  <2> QED BY <2>2, <2>3, <2>4
<1>3. HistoryTellsLife' /\ KeyRingsOnce'
  <2>1. KeyRingsOnce'
    BY DEF KeyRingsOnce
  <2>2. HistoryTellsLife'
    BY DEF HistoryTellsLife, Happened
  <2> QED BY <2>1, <2>2
<1>4. HandlersAreSound'
  BY DEF HandlersAreSound, OneTeller, Sound
<1> QED BY <1>1, <1>2, <1>3, <1>4

LEMMA NextInv == CallInv /\ [Next]_vars => CallInv'
<1> SUFFICES ASSUME CallInv, [Next]_vars PROVE CallInv'
  OBVIOUS
<1>1. ASSUME NEW h \in Handlers, NEW u \in Users, NEW v \in Users, NEW k \in Keys, Create(h, u, v, k)
      PROVE CallInv'
  BY <1>1, CreateStep
<1>2. ASSUME NEW h \in Handlers, NEW u \in Users, NEW c \in Calls, NEW s \in Signals, Signal(h, u, c, s)
      PROVE CallInv'
  BY <1>2, SignalStep
<1>3. ASSUME NEW h \in Handlers, NEW c \in Calls, Tick(h, c)
      PROVE CallInv'
  BY <1>3, TickStep
<1>4. ASSUME NEW h \in Handlers, Progress(h)
      PROVE CallInv'
  BY <1>4, FindReceiptStep, CheckLimitStep, BeginCreateStep, CommitCreateStep, BeginSignalStep,
     CommitSignalStep, LookStep, BeginExpireStep, CommitExpireStep, NotifyMissedStep, RefusedStep
     DEF Progress
<1>5. ASSUME NEW h \in Handlers, Crash(h)
      PROVE CallInv'
  BY <1>5, CrashStep
<1>6. ASSUME NEW c \in Calls, RingOut(c)
      PROVE CallInv'
  BY <1>6, OutsideStep DEF RingOut, CallInv, TypeOK
<1>7. ASSUME NEW u \in Leavers, Suspend(u) \/ Restore(u) \/ DeleteAccount(u)
      PROVE CallInv'
  <2>1. UNCHANGED <<rows, due, notice, handler>> /\ account' \in [Users -> {"active", "suspended", "deleted"}]
    BY <1>7, CallAssumption DEF Suspend, Restore, DeleteAccount, CallInv, TypeOK
  <2> QED BY <2>1, OutsideStep DEF CallInv, TypeOK
<1>8. CASE UNCHANGED vars
  BY <1>8, OutsideStep DEF vars, CallInv, TypeOK, rows
<1> QED BY <1>1, <1>2, <1>3, <1>4, <1>5, <1>6, <1>7, <1>8 DEF Next

-----------------------------------------------------------------------------
\* Whatever handlers race, are refused, tried again or stop, calls keep their
\* invariant (calls.service.ts).
THEOREM CallInvariant == Spec => []CallInv
BY InitInv, NextInv, PTL DEF Spec

\* Nobody is ever in two live calls (create's transaction).
THEOREM ParticipantsHaveOneLiveCall == Spec => []OneLiveCallPerParticipant
<1>1. CallInv => OneLiveCallPerParticipant
  BY DEF CallInv
<1> QED BY <1>1, CallInvariant, PTL

\* A key of an account creates one call, however often it is sent (CallReceipt).
THEOREM KeysRingOnce == Spec => []KeyRingsOnce
<1>1. CallInv => KeyRingsOnce
  BY DEF CallInv
<1> QED BY <1>1, CallInvariant, PTL

\* The events of a call are those of one life (CallEvent).
THEOREM HistoriesTellLives == Spec => []HistoryTellsLife
<1>1. CallInv => HistoryTellsLife
  BY DEF CallInv
<1> QED BY <1>1, CallInvariant, PTL

\* A call is told as missed at most once, and only when it was (expireCall).
THEOREM MissedCallsAreToldOnce == Spec => []MissedIsToldOnce
<1>1. CallInv => MissedIsToldOnce
  BY DEF CallInv
<1> QED BY <1>1, CallInvariant, PTL

-----------------------------------------------------------------------------
(* The refinement: a creation rings, a signal or an expiry moves one call,    *)
(* and every other step is a stuttering step of CallLifecycle.                *)
LEMMA InitRefines == Init => Calling!Init
BY DEF Init, Calling!Init, NoRow, Party

LEMMA CreationRings ==
  ASSUME CallInv, NEW h \in Handlers, NEW c \in Calls, CommitCreate(h, c),
         NEW u \in Users, NEW v \in Users, handler[h].user = u, handler[h].peer = v
  PROVE  Calling!Next
<1>1. handler[h] \in Handler /\ Sound(handler[h]) /\ handler[h].op = "create" /\ handler[h].phase = "commit"
  BY HandlerFacts DEF CommitCreate
<1>2. u \in Users /\ v \in Users /\ u # v /\ None \notin Users
  BY <1>1, CallAssumption DEF Sound
<1>3. Free(u) /\ Free(v) /\ call[c].status = "NONE" /\ call \in [Calls -> Row]
  BY DEF CommitCreate, CallsHold, CallInv, TypeOK
<1>4. call' = [call EXCEPT ![c] = [status |-> "RINGING", caller |-> u, callee |-> v,
                                   offered |-> FALSE, version |-> 1]]
  BY DEF CommitCreate
<1>5. /\ \A d \in Calls : d # c => call'[d] = call[d]
      /\ call'[c].status = "RINGING" /\ Party(call'[c]) \ {None} = {u, v}
  BY <1>2, <1>3, <1>4 DEF Party
<1>6. ~Calling!Engaged(u) /\ ~Calling!Engaged(v)
  BY <1>2, <1>3 DEF Calling!Engaged, Calling!Live, Free, Live
<1>7. Calling!Ring(c, u, v)
  BY <1>2, <1>3, <1>5, <1>6 DEF Calling!Ring
<1> QED BY <1>7 DEF Calling!Next

LEMMA MoveRefines ==
  ASSUME CallInv, NEW c \in Calls, NEW q, NEW e, Moves(call[c], q, e),
         call' = [call EXCEPT ![c] = q]
  PROVE  Calling!Next \/ UNCHANGED Calling!callVars
<1>1. call \in [Calls -> Row]
  BY DEF CallInv, TypeOK
<1>2. /\ call'[c] = q /\ q.caller = call[c].caller /\ q.callee = call[c].callee
      /\ \A d \in Calls : d # c => call'[d] = call[d]
  BY <1>1 DEF Moves
<1>3. UNCHANGED [d \in Calls |-> Party(call[d]) \ {None}]
  BY <1>2 DEF Party
<1>4. CASE q.status = call[c].status
  BY <1>2, <1>3, <1>4 DEF Calling!callVars
<1>5. CASE q.status # call[c].status
  <2>1. \/ call[c].status = "RINGING" /\ q.status \in {"ACTIVE", "REJECTED", "CANCELLED", "MISSED"}
        \/ call[c].status = "ACTIVE" /\ q.status = "ENDED"
    BY <1>5 DEF Moves, Terminal
  <2>2. ASSUME NEW a, NEW b, call[c].status = a, q.status = b PROVE Calling!Move(c, a, b)
    <3>1. \A d \in Calls : call'[d].status = IF d = c THEN b ELSE call[d].status
      BY <1>2, <2>2
    <3>2. [d \in Calls |-> call'[d].status] = [[d \in Calls |-> call[d].status] EXCEPT ![c] = b]
      BY <3>1
    <3> QED BY <1>3, <2>2, <3>2 DEF Calling!Move
  <2> QED BY <2>1, <2>2 DEF Calling!Next
<1> QED BY <1>4, <1>5

LEMMA StepRefines == CallInv /\ [Next]_vars => [Calling!Next]_Calling!callVars
<1> DEFINE Stays == UNCHANGED Calling!callVars
<1> SUFFICES ASSUME CallInv, [Next]_vars PROVE Calling!Next \/ Stays
  OBVIOUS
<1>1. ASSUME UNCHANGED call PROVE Stays
  BY <1>1 DEF Calling!callVars, Party
<1> HIDE DEF Stays
<1>2. ASSUME NEW h \in Handlers,
             \/ \E u, v \in Users, k \in Keys : Create(h, u, v, k)
             \/ \E u \in Users, c \in Calls, s \in Signals : Signal(h, u, c, s)
             \/ \E c \in Calls : Tick(h, c)
             \/ FindReceipt(h) \/ CheckLimit(h) \/ BeginCreate(h) \/ BeginSignal(h)
             \/ Look(h) \/ BeginExpire(h) \/ NotifyMissed(h) \/ Refused(h) \/ Crash(h)
      PROVE  UNCHANGED call
  BY <1>2 DEF Create, Signal, Tick, FindReceipt, CheckLimit, BeginCreate, BeginSignal, Look,
     BeginExpire, NotifyMissed, Refused, Crash, rows
<1>3. ASSUME NEW h \in Handlers, NEW c \in Calls, CommitCreate(h, c) PROVE Calling!Next
  <2>1. Sound(handler[h]) /\ handler[h].op = "create"
    BY <1>3, HandlerFacts DEF CommitCreate
  <2>2. handler[h].user \in Users /\ handler[h].peer \in Users
    BY <2>1 DEF Sound
  <2> QED BY <1>3, <2>2, CreationRings
<1>4. ASSUME NEW h \in Handlers, CommitSignal(h) PROVE Calling!Next \/ Stays
  <2> DEFINE c == handler[h].call
             s == handler[h].op
             u == handler[h].user
  <2>1. Sound(handler[h]) /\ s \in Signals /\ handler[h].phase = "commit" /\ handler[h].seen = call[c]
    BY <1>4, HandlerFacts DEF CommitSignal, ReadsHold
  <2>2. c \in Calls /\ Writes(s, call[c], u)
    BY <2>1 DEF Sound
  <2>3. call[c] \in Row
    BY <2>2 DEF CallInv, TypeOK
  <2>4. Moves(call[c], After(s, call[c], u), EventOf(s, call[c], u))
    BY <2>1, <2>2, <2>3, SignalMoves
  <2>5. call' = [call EXCEPT ![c] = After(s, call[c], u)]
    BY <1>4, <2>1 DEF CommitSignal
  <2> QED BY <2>2, <2>4, <2>5, MoveRefines DEF Stays
<1>5. ASSUME NEW h \in Handlers, CommitExpire(h) PROVE Calling!Next \/ Stays
  <2> DEFINE c == handler[h].call
  <2>1. Sound(handler[h]) /\ handler[h].op = "expire"
    BY <1>5, HandlerFacts DEF CommitExpire
  <2>2. c \in Calls
    BY <2>1 DEF Sound
  <2>3. Moves(call[c], call'[c], "CALL_MISSED")
    BY <1>5, CommitExpireStep
  <2>4. call' = [call EXCEPT ![c] = call'[c]]
    BY <1>5, <2>2 DEF CommitExpire, CallInv, TypeOK
  <2> QED BY <2>2, <2>3, <2>4, MoveRefines DEF Stays
<1>6. ASSUME NEW c \in Calls, RingOut(c) PROVE UNCHANGED call
  BY <1>6 DEF RingOut, rows
<1>7. ASSUME NEW u \in Leavers, Suspend(u) \/ Restore(u) \/ DeleteAccount(u) PROVE UNCHANGED call
  BY <1>7 DEF Suspend, Restore, DeleteAccount, rows
<1>8. CASE UNCHANGED vars
  BY <1>1, <1>8 DEF vars
<1>9. CASE Next
  BY <1>1, <1>2, <1>3, <1>4, <1>5, <1>6, <1>7, <1>9 DEF Next, Progress
<1> QED BY <1>8, <1>9

\* The serializable handlers of the server implement the life of a call as its
\* participants see it (CallLifecycle).
THEOREM CallsImplementLifecycle == Spec => ImplementsCallLifecycle
<1> QED BY InitRefines, StepRefines, CallInvariant, PTL DEF Spec, ImplementsCallLifecycle, Calling!Spec

-----------------------------------------------------------------------------
(* How far racing creations pass the hourly limit.                           *)

\* The handlers that create a call for u and are past the count of those it started.
Counted(h, u) ==
  handler[h].op = "create" /\ handler[h].user = u /\ handler[h].phase \in {"begin", "commit"}
Placing(u) == {h \in Handlers : Counted(h, u)}

\* What u started and what handlers that counted may still start stay within the
\* limit and the race: each of these handlers counted before the others wrote.
Reserved(u) ==
  /\ IsFiniteSet(Started(u))
  /\ Cardinality(Started(u)) + Cardinality(Placing(u)) <= MaxCalls + Cardinality(Handlers) - 1
LimitInv == \A u \in Users : Reserved(u)

\* The handlers are finitely many, and at least one.
LEMMA HandlersAreCounted ==
  /\ IsFiniteSet(Handlers) /\ Cardinality(Handlers) \in Nat /\ Cardinality(Handlers) >= 1
  /\ \A S \in SUBSET Handlers : IsFiniteSet(S) /\ Cardinality(S) \in Nat /\ Cardinality(S) <= Cardinality(Handlers)
<1>1. IsFiniteSet(Handlers) /\ Cardinality(Handlers) \in Nat
  BY CallAssumption, FS_CardinalityType
<1>2. Cardinality(Handlers) # 0
  BY <1>1, CallAssumption, FS_EmptySet
<1>3. ASSUME NEW S \in SUBSET Handlers
      PROVE  IsFiniteSet(S) /\ Cardinality(S) \in Nat /\ Cardinality(S) <= Cardinality(Handlers)
  BY <1>1, FS_Subset, FS_CardinalityType
<1> QED BY <1>1, <1>2, <1>3

\* A step after which u has started no other call and no other handler counted for
\* u leaves what u may still start within the bound.
LEMMA StaysReserved ==
  ASSUME NEW u \in Users, Reserved(u), Started(u)' = Started(u), Placing(u)' \subseteq Placing(u)
  PROVE  Reserved(u)'
<1>1. PICK S, T : S = Placing(u) /\ T = Placing(u)'
  OBVIOUS
<1>2. S \subseteq Handlers /\ T \subseteq S
  BY <1>1 DEF Placing
<1>3. IsFiniteSet(S) /\ Cardinality(S) \in Nat /\ Cardinality(T) \in Nat /\ Cardinality(T) <= Cardinality(S)
  <2>1. IsFiniteSet(S) /\ Cardinality(S) \in Nat /\ Cardinality(T) \in Nat
    BY <1>2, HandlersAreCounted
  <2> QED BY <1>2, <2>1, FS_Subset
<1>4. Cardinality(Started(u)) \in Nat /\ Cardinality(Handlers) \in Nat /\ MaxCalls \in Nat
  BY HandlersAreCounted, CallAssumption, FS_CardinalityType DEF Reserved
<1>5. Cardinality(Started(u)') = Cardinality(Started(u)) /\ Cardinality(Placing(u)') = Cardinality(T)
  BY <1>1
<1> QED BY <1>1, <1>3, <1>4, <1>5 DEF Reserved

\* A creation that passes the count: what u started is below the limit, and the
\* handlers that may still add to it are handlers.
LEMMA CountReserves ==
  ASSUME NEW u \in Users, Reserved(u), Started(u)' = Started(u), Cardinality(Started(u)) < MaxCalls
  PROVE  Reserved(u)'
<1>1. PICK T : T = Placing(u)'
  OBVIOUS
<1>2. T \subseteq Handlers
  BY <1>1 DEF Placing
<1>3. Cardinality(T) \in Nat /\ Cardinality(T) <= Cardinality(Handlers)
  BY <1>2, HandlersAreCounted
<1>4. Cardinality(Started(u)) \in Nat /\ Cardinality(Handlers) \in Nat /\ MaxCalls \in Nat
  BY HandlersAreCounted, CallAssumption, FS_CardinalityType DEF Reserved
<1> QED BY <1>1, <1>3, <1>4 DEF Reserved

\* A creation that commits adds one call and leaves the race.
LEMMA CommitUses ==
  ASSUME NEW u \in Users, NEW h \in Handlers, NEW c, Reserved(u), h \in Placing(u), h \notin Placing(u)',
         Started(u)' = Started(u) \cup {c}, Placing(u)' \subseteq Placing(u)
  PROVE  Reserved(u)'
<1>1. PICK S, T, A, B : S = Placing(u) /\ T = Placing(u)' /\ A = Started(u) /\ B = Started(u)'
  OBVIOUS
<1>2. S \subseteq Handlers /\ T \subseteq S \ {h} /\ h \in S
  BY <1>1 DEF Placing
<1>3. /\ IsFiniteSet(S) /\ Cardinality(S) \in Nat /\ Cardinality(T) \in Nat
      /\ Cardinality(T) <= Cardinality(S) - 1
  <2>1. IsFiniteSet(S) /\ Cardinality(S) \in Nat /\ Cardinality(T) \in Nat
    BY <1>2, HandlersAreCounted
  <2>2. IsFiniteSet(S \ {h}) /\ Cardinality(S \ {h}) = Cardinality(S) - 1
    BY <1>2, <2>1, FS_RemoveElement
  <2> QED BY <1>2, <2>1, <2>2, FS_Subset
<1>4. IsFiniteSet(A) /\ Cardinality(A) \in Nat
  BY <1>1, FS_CardinalityType DEF Reserved
<1>5. IsFiniteSet(B) /\ Cardinality(B) \in Nat /\ Cardinality(B) <= Cardinality(A) + 1
  <2>1. B = A \cup {c}
    BY <1>1
  <2>2. /\ IsFiniteSet(A \cup {c})
        /\ (Cardinality(A \cup {c}) = IF c \in A THEN Cardinality(A) ELSE Cardinality(A) + 1)
    BY <1>4, FS_AddElement
  <2> QED BY <1>4, <2>1, <2>2
<1>6. Cardinality(Handlers) \in Nat /\ MaxCalls \in Nat
  BY HandlersAreCounted, CallAssumption
<1>7. Cardinality(A) + Cardinality(S) <= MaxCalls + Cardinality(Handlers) - 1
  BY <1>1 DEF Reserved
<1>8. Cardinality(B) + Cardinality(T) <= MaxCalls + Cardinality(Handlers) - 1
  BY <1>3, <1>4, <1>5, <1>6, <1>7
<1> QED BY <1>1, <1>5, <1>8 DEF Reserved

\* Nobody has another call, and no handler another place in the race.
Idles ==
  /\ \A c \in Calls : call'[c].caller = call[c].caller
  /\ \A h \in Handlers, u \in Users : Counted(h, u)' => Counted(h, u)

LEMMA IdlesReserve ==
  ASSUME LimitInv, Idles
  PROVE  LimitInv'
<1> SUFFICES ASSUME NEW u \in Users PROVE Reserved(u)'
  BY DEF LimitInv
<1>1. Started(u)' = Started(u)
  BY DEF Started, Idles
<1>2. Placing(u)' \subseteq Placing(u)
  BY DEF Placing, Idles
<1> QED BY <1>1, <1>2, StaysReserved DEF LimitInv

\* A handler that ends, or moves without entering the race, leaves it at most.
LEMMA OneMoves ==
  ASSUME CallInv, NEW h \in Handlers, UNCHANGED call,
         \A g \in Handlers \ {h} : handler'[g] = handler[g],
         \/ handler'[h].op # "create" \/ handler'[h].phase \notin {"begin", "commit"}
         \/ /\ handler[h].op = "create" /\ handler[h].phase \in {"begin", "commit"}
            /\ handler'[h].user = handler[h].user
  PROVE  Idles
BY DEF Idles, Counted

\* What a handler does, but for passing the count and for committing a creation,
\* starts no call and reserves none.
LEMMA ReadsIdle ==
  ASSUME CallInv, NEW h \in Handlers,
         \/ \E u, v \in Users, k \in Keys : Create(h, u, v, k)
         \/ \E u \in Users, c \in Calls, s \in Signals : Signal(h, u, c, s)
         \/ \E c \in Calls : Tick(h, c)
         \/ FindReceipt(h) \/ BeginCreate(h) \/ BeginSignal(h) \/ Look(h) \/ BeginExpire(h)
         \/ NotifyMissed(h) \/ Refused(h) \/ Crash(h)
  PROVE  Idles
<1>1. UNCHANGED call
  BY DEF Create, Signal, Tick, FindReceipt, BeginCreate, BeginSignal, Look, BeginExpire,
     NotifyMissed, Refused, Crash, rows
<1>2. handler \in [Handlers -> Handler] /\ handler[h] \in Handler /\ Sound(handler[h])
  BY HandlerFacts DEF CallInv, TypeOK
<1>3. \A g \in Handlers \ {h} : handler'[g] = handler[g]
  BY <1>2 DEF Create, Signal, Tick, FindReceipt, BeginCreate, BeginSignal, Look, BeginExpire,
     NotifyMissed, Refused, Crash, Done, Go
<1> DEFINE Out == handler'[h].op # "create" \/ handler'[h].phase \notin {"begin", "commit"}
           In == /\ handler[h].op = "create" /\ handler[h].phase \in {"begin", "commit"}
                 /\ handler'[h].user = handler[h].user
<1>4. ASSUME Done(h) PROVE Out
  BY <1>2, <1>4 DEF Done, Idle
<1>5. ASSUME NEW u \in Users, NEW v \in Users, NEW k \in Keys, Create(h, u, v, k) PROVE Out
  BY <1>2, <1>5 DEF Create, Idle
<1>6. ASSUME NEW u \in Users, NEW c \in Calls, NEW s \in Signals, Signal(h, u, c, s) PROVE Out
  BY <1>2, <1>6 DEF Signal, Idle, Signals
<1>7. ASSUME NEW c \in Calls, Tick(h, c) PROVE Out
  BY <1>2, <1>7 DEF Tick, Idle
<1>8. CASE FindReceipt(h)
  <2>1. CASE Go(h, "limit")
    <3>1. handler'[h].phase = "limit"
      BY <1>2, <2>1 DEF Go, Handler
    <3> QED BY <1>1, <1>3, <3>1, OneMoves
  <2>2. CASE Done(h)
    BY <1>1, <1>3, <1>4, <2>2, OneMoves
  <2> QED BY <1>8, <2>1, <2>2 DEF FindReceipt
<1>9. CASE BeginCreate(h)
  <2>1. CASE Go(h, "commit")
    <3>1. In
      BY <1>2, <1>9, <2>1 DEF Go, Handler, BeginCreate
    <3> QED BY <1>1, <1>3, <3>1, OneMoves
  <2>2. CASE Done(h)
    BY <1>1, <1>3, <1>4, <2>2, OneMoves
  <2> QED BY <1>9, <2>1, <2>2 DEF BeginCreate
<1>10. CASE BeginSignal(h)
  <2>1. handler[h].op # "create"
    BY <1>10 DEF BeginSignal, Signals
  <2>2. CASE Done(h)
    BY <1>1, <1>3, <1>4, <2>2, OneMoves
  <2>3. CASE ~Done(h)
    <3>1. handler'[h].op \in {handler[h].op, "expire"}
      BY <1>2, <1>10, <2>3 DEF BeginSignal, Handler
    <3> QED BY <1>1, <1>3, <2>1, <3>1, OneMoves
  <2> QED BY <2>2, <2>3
<1>11. CASE Look(h) \/ BeginExpire(h)
  <2>1. handler[h].op = "expire"
    BY <1>2, <1>11 DEF Look, BeginExpire, Sound, Handler, Signals
  <2>2. CASE Done(h)
    BY <1>1, <1>3, <1>4, <2>2, OneMoves
  <2>3. CASE ~Done(h)
    <3>1. handler'[h].op = handler[h].op
      BY <1>2, <1>11, <2>3 DEF Look, BeginExpire, Go, Handler
    <3> QED BY <1>1, <1>3, <2>1, <3>1, OneMoves
  <2> QED BY <2>2, <2>3
<1>12. CASE NotifyMissed(h) \/ Crash(h)
  <2>1. Done(h)
    BY <1>12 DEF NotifyMissed, Crash
  <2> QED BY <1>1, <1>3, <1>4, <2>1, OneMoves
<1>13. CASE Refused(h)
  <2>1. CASE Done(h)
    BY <1>1, <1>3, <1>4, <2>1, OneMoves
  <2>2. CASE ~Done(h)
    <3>1. handler'[h].op = handler[h].op /\ handler'[h].user = handler[h].user /\ handler[h].phase = "commit"
      BY <1>2, <1>13, <2>2 DEF Refused, Handler
    <3>2. Out \/ In
      BY <3>1
    <3> QED BY <1>1, <1>3, <3>2, OneMoves
  <2> QED BY <2>1, <2>2
<1>14. CASE \/ \E u, v \in Users, k \in Keys : Create(h, u, v, k)
            \/ \E u \in Users, c \in Calls, s \in Signals : Signal(h, u, c, s)
            \/ \E c \in Calls : Tick(h, c)
  BY <1>1, <1>3, <1>5, <1>6, <1>7, <1>14, OneMoves
<1> QED BY <1>8, <1>9, <1>10, <1>11, <1>12, <1>13, <1>14

\* A signal or an expiry that commits keeps the caller of its call.
LEMMA WritesIdle ==
  ASSUME CallInv, NEW h \in Handlers, CommitSignal(h) \/ CommitExpire(h)
  PROVE  Idles
<1> DEFINE c == handler[h].call
<1>1. /\ handler \in [Handlers -> Handler] /\ handler[h] \in Handler /\ Sound(handler[h])
      /\ call \in [Calls -> Row]
  BY HandlerFacts DEF CallInv, TypeOK
<1>2. c \in Calls /\ handler[h].op # "create" /\ call[c] \in Row /\ ReadsHold(h)
  BY <1>1 DEF Sound, CommitSignal, CommitExpire, Signals
<1>3. \A d \in Calls : call'[d].caller = call[d].caller
  <2>1. CASE CommitSignal(h)
    <3>1. After(handler[h].op, call[c], handler[h].user).caller = call[c].caller
      BY <1>2, <2>1 DEF CommitSignal, After, Row, Signals
    <3>2. call' = [call EXCEPT ![c] = After(handler[h].op, call[c], handler[h].user)]
      BY <1>2, <2>1 DEF CommitSignal, ReadsHold
    <3> QED BY <1>1, <1>2, <3>1, <3>2
  <2>2. CASE CommitExpire(h)
    <3>1. call' = [call EXCEPT ![c] = [call[c] EXCEPT !.status = "MISSED", !.version = call[c].version + 1]]
      BY <1>1, <1>2, <2>2 DEF CommitExpire
    <3> QED BY <1>1, <1>2, <3>1 DEF Row
  <2> QED BY <2>1, <2>2
<1>4. \A g \in Handlers \ {h} : handler'[g] = handler[g]
  BY <1>1 DEF CommitSignal, CommitExpire, Go, Done
<1>5. handler'[h].op # "create"
  BY <1>1, <1>2 DEF CommitSignal, CommitExpire, Go, Done, Idle, Handler
<1> QED BY <1>3, <1>4, <1>5 DEF Idles, Counted

\* The count keeps what may still be started within the bound: it ends the handler,
\* or lets it into the race below the limit.
LEMMA CountStep ==
  ASSUME CallInv, LimitInv, NEW h \in Handlers, CheckLimit(h)
  PROVE  LimitInv'
<1>1. handler \in [Handlers -> Handler] /\ handler[h] \in Handler /\ UNCHANGED call
  BY HandlerFacts DEF CallInv, TypeOK, CheckLimit, rows
<1>2. \A u \in Users : Started(u)' = Started(u)
  BY <1>1 DEF Started
<1> SUFFICES ASSUME NEW u \in Users PROVE Reserved(u)'
  BY DEF LimitInv
<1>3. CASE u = handler[h].user /\ Cardinality(Started(handler[h].user)) < MaxCalls
  BY <1>2, <1>3, CountReserves DEF LimitInv
<1>4. CASE ~(u = handler[h].user /\ Cardinality(Started(handler[h].user)) < MaxCalls)
  <2>1. \A g \in Handlers \ {h} : handler'[g] = handler[g]
    BY <1>1 DEF CheckLimit, Go, Done
  <2>2. ~Counted(h, u)'
    <3>1. CASE u # handler[h].user
      <4>1. handler'[h].user = handler[h].user \/ handler'[h].op = "none"
        BY <1>1 DEF CheckLimit, Go, Done, Idle, Handler
      <4> QED BY <3>1, <4>1 DEF Counted
    <3>2. CASE u = handler[h].user
      <4>1. Cardinality(Started(u)) \in Nat /\ MaxCalls \in Nat
        BY CallAssumption, FS_CardinalityType DEF LimitInv, Reserved
      <4>2. Done(h)
        BY <1>4, <3>2, <4>1 DEF CheckLimit
      <4> QED BY <1>1, <4>2 DEF Done, Idle, Counted
    <3> QED BY <3>1, <3>2
  <2>3. Placing(u)' \subseteq Placing(u)
    BY <2>1, <2>2 DEF Placing, Counted
  <2> QED BY <1>2, <2>3, StaysReserved DEF LimitInv
<1> QED BY <1>3, <1>4

\* A creation that commits takes up the place it had in the race.
LEMMA PlaceStep ==
  ASSUME CallInv, LimitInv, NEW h \in Handlers, NEW c \in Calls, CommitCreate(h, c)
  PROVE  LimitInv'
<1> SUFFICES ASSUME NEW u \in Users PROVE Reserved(u)'
  BY DEF LimitInv
<1>1. /\ handler \in [Handlers -> Handler] /\ handler[h] \in Handler /\ Sound(handler[h])
      /\ call \in [Calls -> Row]
  BY HandlerFacts DEF CallInv, TypeOK
<1>2. handler' = [handler EXCEPT ![h] = Idle] /\ handler[h].op = "create" /\ handler[h].phase = "commit"
  BY DEF CommitCreate, Done
<1>3. call'[c].caller = handler[h].user /\ \A d \in Calls \ {c} : call'[d] = call[d]
  BY <1>1 DEF CommitCreate
<1>4. call[c].caller = None /\ None \notin Users
  BY CallAssumption DEF CommitCreate, CallInv, RowsAreSound, NoRow
<1>5. ~Counted(h, u)' /\ \A g \in Handlers \ {h} : handler'[g] = handler[g]
  BY <1>1, <1>2 DEF Counted, Idle
<1>6. Placing(u)' \subseteq Placing(u) /\ h \notin Placing(u)'
  BY <1>5 DEF Placing, Counted
<1>7. CASE u = handler[h].user
  <2>1. Started(u)' = Started(u) \cup {c}
    BY <1>3, <1>7 DEF Started
  <2>2. h \in Placing(u)
    BY <1>2, <1>7 DEF Placing, Counted
  <2> QED BY <1>6, <2>1, <2>2, CommitUses DEF LimitInv
<1>8. CASE u # handler[h].user
  <2>1. Started(u)' = Started(u)
    BY <1>3, <1>4, <1>8 DEF Started
  <2> QED BY <1>6, <2>1, StaysReserved DEF LimitInv
<1> QED BY <1>7, <1>8

\* Every step keeps what may still be started within the bound.
LEMMA LimitStep == CallInv /\ LimitInv /\ [Next]_vars => LimitInv'
<1> SUFFICES ASSUME CallInv, LimitInv, [Next]_vars PROVE LimitInv'
  OBVIOUS
<1>1. ASSUME UNCHANGED <<call, handler>> PROVE LimitInv'
  BY <1>1, IdlesReserve DEF Idles, Counted
<1>2. ASSUME NEW h \in Handlers,
             \/ \E u, v \in Users, k \in Keys : Create(h, u, v, k)
             \/ \E u \in Users, c \in Calls, s \in Signals : Signal(h, u, c, s)
             \/ \E c \in Calls : Tick(h, c)
             \/ Progress(h) \/ Crash(h)
      PROVE  LimitInv'
  <2>1. CASE CheckLimit(h)
    BY <2>1, CountStep
  <2>2. CASE \E c \in Calls : CommitCreate(h, c)
    BY <2>2, PlaceStep
  <2>3. CASE CommitSignal(h) \/ CommitExpire(h)
    BY <2>3, WritesIdle, IdlesReserve
  <2>4. CASE \/ \E u, v \in Users, k \in Keys : Create(h, u, v, k)
             \/ \E u \in Users, c \in Calls, s \in Signals : Signal(h, u, c, s)
             \/ \E c \in Calls : Tick(h, c)
             \/ FindReceipt(h) \/ BeginCreate(h) \/ BeginSignal(h) \/ Look(h) \/ BeginExpire(h)
             \/ NotifyMissed(h) \/ Refused(h) \/ Crash(h)
    BY <2>4, ReadsIdle, IdlesReserve
  <2> QED BY <1>2, <2>1, <2>2, <2>3, <2>4 DEF Progress
<1>3. CASE \E c \in Calls : RingOut(c)
  BY <1>1, <1>3 DEF RingOut, rows
<1>4. CASE \E u \in Leavers : Suspend(u) \/ Restore(u) \/ DeleteAccount(u)
  BY <1>1, <1>4 DEF Suspend, Restore, DeleteAccount, rows
<1>5. CASE UNCHANGED vars
  BY <1>1, <1>5 DEF vars
<1> QED BY <1>2, <1>3, <1>4, <1>5 DEF Next

\* For any handlers, accounts and limit: creations that count before they write pass
\* the hourly limit by no more than the handlers that race, refused and tried again
\* though they are.
THEOREM RacesPassTheLimitByOneEach == Spec => []LimitWithinRace
<1>1. Init => LimitInv
  <2> SUFFICES ASSUME Init, NEW u \in Users PROVE Reserved(u)
    BY DEF LimitInv
  <2>1. Started(u) = {}
    BY CallAssumption DEF Init, Started, NoRow
  <2>2. Placing(u) = {}
    BY DEF Init, Placing, Counted, Idle
  <2>3. Cardinality({}) = 0 /\ IsFiniteSet({})
    BY FS_EmptySet
  <2>4. MaxCalls \in Nat /\ Cardinality(Handlers) \in Nat /\ Cardinality(Handlers) >= 1
    BY CallAssumption, HandlersAreCounted
  <2> QED BY <2>1, <2>2, <2>3, <2>4 DEF Reserved
<1>2. LimitInv => LimitWithinRace
  <2> SUFFICES ASSUME LimitInv, NEW u \in Users
               PROVE  Cardinality(Started(u)) <= MaxCalls + Cardinality(Handlers) - 1
    BY DEF LimitWithinRace
  <2>1. Placing(u) \subseteq Handlers
    BY DEF Placing
  <2>2. Cardinality(Placing(u)) \in Nat /\ Cardinality(Handlers) \in Nat /\ MaxCalls \in Nat
    BY <2>1, HandlersAreCounted, CallAssumption
  <2>3. Cardinality(Started(u)) \in Nat
    BY FS_CardinalityType DEF LimitInv, Reserved
  <2> QED BY <2>2, <2>3 DEF LimitInv, Reserved
<1> QED BY <1>1, <1>2, LimitStep, CallInvariant, PTL DEF Spec
=============================================================================
