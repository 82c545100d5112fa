------------------------ MODULE KnowCoinLedgerProofs ------------------------
(***************************************************************************)
(* Proofs about KnowCoinLedger, for any accounts, keys, amounts, handlers  *)
(* and bounds.  LedgerInv is inductive: a transaction writes from a        *)
(* snapshot, so what makes the balances right is that the snapshot a       *)
(* handler holds is re-validated (SnapshotHolds) at its commit.            *)
(***************************************************************************)
EXTENDS KnowCoinLedger, TLAPS

\* A handler's blank request is a request.
LEMMA SomeRequestTyped == SomeRequest \in Request
<1>1. PICK u \in Users, k \in Keys, a \in Amounts : TRUE
  BY LedgerAssumption
<1>2. [user |-> u, key |-> k, amount |-> a] \in Request
  BY <1>1 DEF Request
<1> QED BY <1>2 DEF SomeRequest

LEMMA NoWalletTyped == NoWallet \in Wallet
BY DEF NoWallet, Wallet

LEMMA IdleTyped == Idle \in Handler
<1>1. 0 \in 0..Attempts-1
  BY LedgerAssumption
<1> QED BY <1>1, SomeRequestTyped, NoWalletTyped DEF Idle, Handler, Phases, Replies

\* What reading an account yields, given that counter and row agree.
LEMMA SnapshotFacts ==
  ASSUME TypeOK, CounterInStep, NEW u \in Users
  PROVE  Snapshot(u) \in Wallet /\ Snapshot(u).balance = knowCoins[u]
<1>1. wallet[u] \in Wallet /\ knowCoins[u] \in Int
  BY LedgerAssumption DEF TypeOK
<1>2. CASE wallet[u].exists
  BY <1>1, <1>2 DEF CounterInStep, Snapshot
<1>3. CASE ~wallet[u].exists
  BY <1>1, <1>3 DEF Snapshot, Unopened, Wallet
<1> QED BY <1>2, <1>3

LEMMA InitInv == Init => LedgerInv
<1> SUFFICES ASSUME Init PROVE LedgerInv
  OBVIOUS
<1> USE DEF Init
<1>1. TypeOK
  BY LedgerAssumption, IdleTyped, NoWalletTyped DEF TypeOK
<1>2. CounterInStep
  BY DEF CounterInStep, NoWallet
<1>3. ChainUnbroken
  <2>1. \A u \in Users : ledger[u] = <<>> /\ knowCoins[u] = Opening[u]
    OBVIOUS
  <2>2. \A u \in Users : Len(ledger[u]) = 0
    BY <2>1
  <2>3. \A u \in Users : \A i \in 1..Len(ledger[u]) : FALSE
    BY <2>2
  <2> QED BY <2>1, <2>3 DEF ChainUnbroken
<1>4. KeyTakesEffectOnce
  BY DEF KeyTakesEffectOnce
<1>5. AnswersAreTrue
  BY DEF AnswersAreTrue, Truthful, Idle
<1>6. HandlersAreSound
  BY DEF HandlersAreSound, Sound, Idle
<1> QED BY <1>1, <1>2, <1>3, <1>4, <1>5, <1>6 DEF LedgerInv

-----------------------------------------------------------------------------
\* A step that only moves one handler keeps the invariant when what the handler
\* becomes is well formed, truthful and sound.
LEMMA HandlerStep ==
  ASSUME LedgerInv, NEW c \in Callers, NEW h \in Handler,
         handler' = [handler EXCEPT ![c] = h],
         UNCHANGED <<wallet, knowCoins, ledger>>, journal' \subseteq Keys,
         Truthful(h), Sound(h)
  PROVE  LedgerInv'
<1> USE DEF LedgerInv
<1>1. TypeOK'
  BY DEF TypeOK
<1>2. CounterInStep' /\ ChainUnbroken' /\ KeyTakesEffectOnce'
  BY DEF CounterInStep, ChainUnbroken, KeyTakesEffectOnce
<1>3. \A r : ReplayMatches(r)' <=> ReplayMatches(r)
  BY DEF ReplayMatches, Rows
<1>4. \A d \in Callers : handler'[d] = IF d = c THEN h ELSE handler[d]
  BY DEF TypeOK
<1>5. AnswersAreTrue'
  BY <1>3, <1>4 DEF AnswersAreTrue, Truthful
<1>6. HandlersAreSound'
  BY <1>3, <1>4 DEF HandlersAreSound, Sound
<1> QED BY <1>1, <1>2, <1>5, <1>6

\* Answering keeps the invariant when the answer is true.
LEMMA AnswerStep ==
  ASSUME LedgerInv, NEW c \in Callers, NEW reply \in Replies, Answer(c, reply),
         UNCHANGED <<wallet, knowCoins, ledger>>, journal' \subseteq Keys,
         reply \in {"applied", "replayed"} => ReplayMatches(handler[c].req)
  PROVE  LedgerInv'
<1> DEFINE h == [handler[c] EXCEPT !.phase = "idle", !.seen = NoWallet, !.reply = reply]
<1>1. handler[c] \in Handler
  BY DEF LedgerInv, TypeOK
<1>2. h \in Handler
  BY <1>1, NoWalletTyped DEF Handler, Phases
<1>3. h.phase = "idle" /\ h.reply = reply /\ h.req = handler[c].req
  BY <1>1 DEF Handler
<1>4. Truthful(h) /\ Sound(h)
  BY <1>3 DEF Truthful, Sound
<1>5. handler' = [handler EXCEPT ![c] = h]
  BY DEF Answer
<1> HIDE DEF h
<1> QED BY <1>2, <1>4, <1>5, HandlerStep

\* A row that holds the key answers the request truthfully.
LEMMA AnswerReplayStep ==
  ASSUME LedgerInv, NEW c \in Callers, AnswerReplay(c)
  PROVE  LedgerInv'
<1>1. journal' \subseteq Keys
  BY DEF AnswerReplay, ledgerVars, LedgerInv, TypeOK
<1>2. CASE ReplayMatches(handler[c].req)
  BY <1>1, <1>2, AnswerStep DEF AnswerReplay, ledgerVars, Replies
<1>3. CASE ~ReplayMatches(handler[c].req)
  BY <1>1, <1>3, AnswerStep DEF AnswerReplay, ledgerVars, Replies
<1> QED BY <1>2, <1>3

-----------------------------------------------------------------------------
\* One lemma per action.
LEMMA SubmitInv ==
  ASSUME LedgerInv, NEW c \in Callers, NEW r \in Request, Submit(c, r)
  PROVE  LedgerInv'
<1>1. journal' \subseteq Keys /\ UNCHANGED <<wallet, knowCoins, ledger>>
  BY DEF Submit, ledgerVars, LedgerInv, TypeOK
<1>2. CASE ValidAmount(r.amount)
  <2> DEFINE h == [Idle EXCEPT !.phase = "lookup", !.req = r]
  <2>1. h \in Handler /\ h.phase = "lookup" /\ h.reply = "none"
    BY IdleTyped DEF Handler, Phases, Idle
  <2>2. Truthful(h) /\ Sound(h)
    BY <2>1 DEF Truthful, Sound
  <2>3. handler' = [handler EXCEPT ![c] = h]
    BY <1>2 DEF Submit
  <2> HIDE DEF h
  <2> QED BY <1>1, <2>1, <2>2, <2>3, HandlerStep
<1>3. CASE ~ValidAmount(r.amount)
  <2> DEFINE h == [Idle EXCEPT !.reply = "refused"]
  <2>1. h \in Handler /\ h.phase = "idle" /\ h.reply = "refused"
    BY IdleTyped DEF Handler, Replies, Idle
  <2>2. Truthful(h) /\ Sound(h)
    BY <2>1 DEF Truthful, Sound
  <2>3. handler' = [handler EXCEPT ![c] = h]
    BY <1>3 DEF Submit
  <2> HIDE DEF h
  <2> QED BY <1>1, <2>1, <2>2, <2>3, HandlerStep
<1> QED BY <1>2, <1>3

\* A handler that only moves to a phase with nothing to be sound about.
LEMMA PhaseStep ==
  ASSUME LedgerInv, NEW c \in Callers, NEW p \in {"begin", "conflict"},
         handler' = [handler EXCEPT ![c].phase = p], UNCHANGED ledgerVars
  PROVE  LedgerInv'
<1> DEFINE h == [handler[c] EXCEPT !.phase = p]
<1>1. handler[c] \in Handler /\ Truthful(handler[c])
  BY DEF LedgerInv, TypeOK, AnswersAreTrue
<1>2. h \in Handler /\ h.phase = p /\ h.reply = handler[c].reply /\ h.req = handler[c].req
  BY <1>1 DEF Handler, Phases
<1>3. Truthful(h) /\ Sound(h)
  BY <1>1, <1>2 DEF Truthful, Sound
<1>4. handler' = [handler EXCEPT ![c] = h]
  OBVIOUS
<1>5. journal' \subseteq Keys /\ UNCHANGED <<wallet, knowCoins, ledger>>
  BY DEF ledgerVars, LedgerInv, TypeOK
<1> HIDE DEF h
<1> QED BY <1>2, <1>3, <1>4, <1>5, HandlerStep

LEMMA LookupInv ==
  ASSUME LedgerInv, NEW c \in Callers, Lookup(c)
  PROVE  LedgerInv'
<1>1. CASE AnswerReplay(c)
  BY <1>1, AnswerReplayStep
<1>2. CASE handler' = [handler EXCEPT ![c].phase = "begin"] /\ UNCHANGED ledgerVars
  BY <1>2, PhaseStep
<1> QED BY <1>1, <1>2 DEF Lookup

LEMMA BeginInv ==
  ASSUME LedgerInv, NEW c \in Callers, Begin(c)
  PROVE  LedgerInv'
<1> DEFINE r == handler[c].req
<1>1. handler[c] \in Handler /\ r \in Request /\ Truthful(handler[c])
  BY DEF LedgerInv, TypeOK, AnswersAreTrue, Handler
<1>2. journal' \subseteq Keys /\ UNCHANGED <<wallet, knowCoins, ledger>>
  BY DEF Begin, AnswerReplay, ledgerVars, LedgerInv, TypeOK
<1>3. CASE AnswerReplay(c)
  BY <1>3, AnswerReplayStep
<1>4. CASE Decision(r) = "write" /\ ~AnswerReplay(c)
  <2> DEFINE h == [handler[c] EXCEPT !.phase = "commit", !.seen = Snapshot(r.user)]
  <2>1. r.user \in Users /\ ~(BalanceAfter(r) < 0) /\ ~(BalanceAfter(r) > MaxBalance)
    BY <1>4 DEF Decision
  <2>2. Snapshot(r.user) \in Wallet /\ r.amount \in Int
    BY <1>1, <2>1, SnapshotFacts, LedgerAssumption DEF LedgerInv, Request
  <2>3. h \in Handler /\ h.phase = "commit" /\ h.reply = handler[c].reply
          /\ h.req = r /\ h.seen = Snapshot(r.user)
    BY <1>1, <2>2 DEF Handler, Phases
  <2>4. Snapshot(r.user).balance + r.amount \in 0..MaxBalance
    BY <2>1, <2>2, LedgerAssumption DEF BalanceAfter, Wallet
  <2>5. Truthful(h) /\ Sound(h)
    BY <1>1, <2>1, <2>3, <2>4 DEF Truthful, Sound
  <2>6. handler' = [handler EXCEPT ![c] = h]
    BY <1>4 DEF Begin
  <2> HIDE DEF h
  <2> QED BY <1>2, <2>3, <2>5, <2>6, HandlerStep
<1>5. CASE Decision(r) # "write" /\ ~AnswerReplay(c)
  <2>1. Decision(r) \in {"refused", "error"} /\ Answer(c, Decision(r))
    BY <1>5 DEF Decision, Begin
  <2> QED BY <1>2, <2>1, AnswerStep DEF Replies
<1> QED BY <1>3, <1>4, <1>5

LEMMA RefusedInv ==
  ASSUME LedgerInv, NEW c \in Callers, Refused(c)
  PROVE  LedgerInv'
<1>1. handler[c] \in Handler /\ Truthful(handler[c])
  BY DEF LedgerInv, TypeOK, AnswersAreTrue
<1>2. journal' \subseteq Keys /\ UNCHANGED <<wallet, knowCoins, ledger>>
  BY DEF Refused, ledgerVars, LedgerInv, TypeOK
<1>3. CASE handler[c].attempt + 1 < Attempts
  <2> DEFINE h == [handler[c] EXCEPT !.phase = "begin", !.seen = NoWallet, !.attempt = @ + 1]
  <2>1. handler[c].attempt + 1 \in 0..Attempts-1
    BY <1>1, <1>3, LedgerAssumption DEF Handler
  <2>2. h \in Handler /\ h.phase = "begin" /\ h.reply = handler[c].reply /\ h.req = handler[c].req
    BY <1>1, <2>1, NoWalletTyped DEF Handler, Phases
  <2>3. Truthful(h) /\ Sound(h)
    BY <1>1, <2>2 DEF Truthful, Sound
  <2>4. handler' = [handler EXCEPT ![c] = h]
    BY <1>3 DEF Refused
  <2> HIDE DEF h
  <2> QED BY <1>2, <2>2, <2>3, <2>4, HandlerStep
<1>4. CASE ~(handler[c].attempt + 1 < Attempts)
  BY <1>2, <1>4, AnswerStep DEF Refused, Replies
<1> QED BY <1>3, <1>4

LEMMA UniqueConflictInv ==
  ASSUME LedgerInv, NEW c \in Callers, UniqueConflict(c)
  PROVE  LedgerInv'
BY PhaseStep DEF UniqueConflict

LEMMA RecoverInv ==
  ASSUME LedgerInv, NEW c \in Callers, Recover(c)
  PROVE  LedgerInv'
<1>1. CASE AnswerReplay(c)
  BY <1>1, AnswerReplayStep
<1>2. CASE Answer(c, "error") /\ UNCHANGED ledgerVars
  <2>1. journal' \subseteq Keys /\ UNCHANGED <<wallet, knowCoins, ledger>>
    BY <1>2 DEF ledgerVars, LedgerInv, TypeOK
  <2> QED BY <1>2, <2>1, AnswerStep DEF Replies
<1> QED BY <1>1, <1>2 DEF Recover

\* "applied" is true because the row was written before the audit (Sound).
LEMMA AuditInv ==
  ASSUME LedgerInv, NEW c \in Callers, Audit(c)
  PROVE  LedgerInv'
<1>1. handler[c] \in Handler /\ Sound(handler[c])
  BY DEF LedgerInv, TypeOK, HandlersAreSound
<1>2. ReplayMatches(handler[c].req)
  BY <1>1 DEF Audit, Sound
<1>3. journal' \subseteq Keys /\ UNCHANGED <<wallet, knowCoins, ledger>>
  BY <1>1 DEF Audit, LedgerInv, TypeOK, Handler, Request
<1>4. CASE Answer(c, "applied")
  BY <1>2, <1>3, <1>4, AnswerStep DEF Replies
<1>5. CASE Answer(c, "error")
  BY <1>3, <1>5, AnswerStep DEF Replies
<1> QED BY <1>4, <1>5 DEF Audit

LEMMA ReadForOpeningInv ==
  ASSUME LedgerInv, NEW c \in Callers, NEW u \in Users, ReadForOpening(c, u)
  PROVE  LedgerInv'
<1> DEFINE q == [SomeRequest EXCEPT !.user = u]
           h == [Idle EXCEPT !.phase = "open", !.seen = Unopened(knowCoins[u]), !.req = q]
<1>1. q \in Request /\ q.user = u
  BY SomeRequestTyped DEF Request
<1>2. Unopened(knowCoins[u]) \in Wallet
  BY LedgerAssumption DEF LedgerInv, TypeOK, Unopened, Wallet
<1>3. h \in Handler /\ h.phase = "open" /\ h.reply = "none" /\ h.req = q
        /\ h.seen = Unopened(knowCoins[u])
  <2> HIDE DEF q
  <2> QED BY <1>1, <1>2, IdleTyped DEF Handler, Phases, Idle
<1>4. handler' = [handler EXCEPT ![c] = h]
  BY DEF ReadForOpening
<1>5. journal' \subseteq Keys /\ UNCHANGED <<wallet, knowCoins, ledger>>
  BY DEF ReadForOpening, ledgerVars, LedgerInv, TypeOK
<1> HIDE DEF h
<1>6. Truthful(h) /\ Sound(h)
  BY <1>1, <1>3 DEF Truthful, Sound
<1> QED BY <1>3, <1>4, <1>5, <1>6, HandlerStep

LEMMA CrashInv ==
  ASSUME LedgerInv, NEW c \in Callers, Crash(c)
  PROVE  LedgerInv'
<1>1. Truthful(Idle) /\ Sound(Idle)
  BY DEF Truthful, Sound, Idle
<1>2. journal' \subseteq Keys /\ UNCHANGED <<wallet, knowCoins, ledger>>
  BY DEF Crash, ledgerVars, LedgerInv, TypeOK
<1> QED BY <1>1, <1>2, IdleTyped, HandlerStep DEF Crash

-----------------------------------------------------------------------------
\* A sequence and one more element, position by position.
LEMMA AppendFacts ==
  ASSUME NEW S, NEW s \in Seq(S), NEW e \in S
  PROVE  /\ Append(s, e) \in Seq(S)
         /\ Len(s) \in Nat
         /\ Len(Append(s, e)) = Len(s) + 1
         /\ \A i \in 1..Len(s) : Append(s, e)[i] = s[i]
         /\ Append(s, e)[Len(s) + 1] = e
         /\ s = <<>> <=> Len(s) = 0
OBVIOUS

\* The commit: the snapshot still holds, so the row it writes continues the
\* chain, its key is new, and the counter and the wallet move together.
LEMMA CommitInv ==
  ASSUME LedgerInv, NEW c \in Callers, Commit(c)
  PROVE  LedgerInv'
<1> DEFINE r == handler[c].req
           u == r.user
           seen == handler[c].seen
           after == seen.balance + r.amount
           e == [key |-> r.key, amount |-> r.amount, before |-> seen.balance, after |-> after]
           n == Len(ledger[u])
           h == [handler[c] EXCEPT !.phase = "audit", !.seen = NoWallet]
<1>1. /\ handler[c] \in Handler /\ Truthful(handler[c]) /\ Sound(handler[c])
      /\ TypeOK /\ CounterInStep
      /\ handler[c].phase = "commit"
  BY DEF LedgerInv, TypeOK, AnswersAreTrue, HandlersAreSound, Commit
<1>2. /\ u \in Users /\ r.key \in Keys /\ r.amount \in Int
      /\ seen \in Wallet /\ seen.balance \in Int /\ seen.version \in Nat
      /\ after \in 0..MaxBalance /\ after \in Int
  <2>1. u \in Users /\ after \in 0..MaxBalance
    BY <1>1 DEF Sound
  <2>2. r \in Request /\ seen \in Wallet
    BY <1>1 DEF Handler
  <2>3. seen.balance \in Int /\ seen.version \in Nat
    BY <2>2 DEF Wallet
  <2>4. r.key \in Keys /\ r.amount \in Int
    BY <2>2, LedgerAssumption DEF Request
  <2> QED BY <2>1, <2>2, <2>3, <2>4, LedgerAssumption
<1>3. seen.balance = knowCoins[u] /\ ~KeyUsed(r.key)
  BY <1>1, <1>2, SnapshotFacts DEF Commit, SnapshotHolds
<1>4. e \in Entry /\ ledger[u] \in Seq(Entry)
  BY <1>1, <1>2 DEF Entry, TypeOK
<1>5. /\ ledger' = [ledger EXCEPT ![u] = Append(@, e)]
      /\ wallet' = [wallet EXCEPT ![u] = [exists |-> TRUE, balance |-> after, version |-> seen.version + 1]]
      /\ knowCoins' = [knowCoins EXCEPT ![u] = after]
      /\ handler' = [handler EXCEPT ![c] = h]
      /\ journal' = journal
  BY DEF Commit
<1>6. /\ h \in Handler /\ h.phase = "audit" /\ h.req = r /\ h.reply = handler[c].reply
  BY <1>1, NoWalletTyped DEF Handler, Phases
<1> HIDE DEF h
<1>7. /\ ledger'[u] = Append(ledger[u], e)
      /\ \A v \in Users : v # u => ledger'[v] = ledger[v]
  BY <1>1, <1>2, <1>5 DEF TypeOK
<1>8. /\ n \in Nat /\ Len(ledger'[u]) = n + 1
      /\ \A i \in 1..n : ledger'[u][i] = ledger[u][i]
      /\ ledger'[u][n+1] = e
      /\ ledger[u] = <<>> <=> n = 0
      /\ Append(ledger[u], e) \in Seq(Entry)
  BY <1>4, <1>7, AppendFacts
<1>9. e.key = r.key /\ e.amount = r.amount /\ e.before = knowCoins[u] /\ e.after = after
  BY <1>3
<1>10. /\ wallet'[u].exists /\ wallet'[u].balance = after /\ knowCoins'[u] = after
       /\ \A v \in Users : v # u => wallet'[v] = wallet[v] /\ knowCoins'[v] = knowCoins[v]
  BY <1>1, <1>2, <1>5 DEF TypeOK
<1> HIDE DEF e, after, n
<1>11. TypeOK'
  <2>1. [exists |-> TRUE, balance |-> after, version |-> seen.version + 1] \in Wallet
    BY <1>2 DEF Wallet
  <2>2. wallet' \in [Users -> Wallet] /\ knowCoins' \in [Users -> 0..MaxBalance]
    BY <1>1, <1>2, <1>5, <2>1 DEF TypeOK
  <2>3. ledger' \in [Users -> Seq(Entry)]
    BY <1>1, <1>2, <1>5, <1>8 DEF TypeOK
  <2>4. handler' \in [Callers -> Handler] /\ journal' \subseteq Keys
    BY <1>1, <1>5, <1>6 DEF TypeOK
  <2> QED BY <2>2, <2>3, <2>4 DEF TypeOK
<1>12. CounterInStep'
  BY <1>1, <1>2, <1>10 DEF CounterInStep
<1>13. ChainUnbroken'
  <2>1. SUFFICES ASSUME NEW v \in Users
        PROVE /\ \A i \in 1..Len(ledger'[v]) :
                   /\ ledger'[v][i].before = (IF i = 1 THEN Opening[v] ELSE ledger'[v][i-1].after)
                   /\ ledger'[v][i].after = ledger'[v][i].before + ledger'[v][i].amount
              /\ knowCoins'[v] = (IF ledger'[v] = <<>> THEN Opening[v] ELSE ledger'[v][Len(ledger'[v])].after)
    BY DEF ChainUnbroken
  <2>2. ChainUnbroken
    BY DEF LedgerInv
  <2>3. CASE v # u
    BY <1>7, <1>10, <2>2, <2>3 DEF ChainUnbroken
  <2>4. CASE v = u
    <3>1. ASSUME NEW i \in 1..n
          PROVE /\ ledger'[u][i].before = (IF i = 1 THEN Opening[u] ELSE ledger'[u][i-1].after)
                /\ ledger'[u][i].after = ledger'[u][i].before + ledger'[u][i].amount
      <4>1. i # 1 => i - 1 \in 1..n
        BY <1>8
      <4>2. /\ ledger[u][i].before = (IF i = 1 THEN Opening[u] ELSE ledger[u][i-1].after)
            /\ ledger[u][i].after = ledger[u][i].before + ledger[u][i].amount
        BY <1>2, <2>2 DEF ChainUnbroken, n
      <4>3. ledger'[u][i] = ledger[u][i] /\ (i # 1 => ledger'[u][i-1] = ledger[u][i-1])
        BY <1>8, <4>1
      <4> QED BY <4>2, <4>3
    <3>2. knowCoins[u] = IF n = 0 THEN Opening[u] ELSE ledger[u][n].after
      BY <1>2, <1>8, <2>2 DEF ChainUnbroken, n
    <3>3. /\ e.before = (IF n + 1 = 1 THEN Opening[u] ELSE ledger'[u][n].after)
          /\ e.after = e.before + e.amount
      <4>1. n # 0 => n \in 1..n
        BY <1>8
      <4>2. e.after = e.before + e.amount
        BY <1>3, <1>9 DEF after
      <4>3. CASE n = 0
        BY <1>9, <3>2, <4>2, <4>3
      <4>4. CASE n # 0
        <5>1. n + 1 # 1
          BY <1>8, <4>4
        <5>2. ledger'[u][n] = ledger[u][n]
          BY <1>8, <4>1, <4>4
        <5> QED BY <1>9, <3>2, <4>2, <4>4, <5>1, <5>2
      <4> QED BY <4>3, <4>4
    <3>4. ledger'[u] # <<>>
      BY <1>8
    <3>5. \A i \in 1..(n+1) : i \in 1..n \/ i = n + 1
      BY <1>8
    <3>6. (n + 1) - 1 = n
      BY <1>8
    <3> QED BY <1>8, <1>9, <1>10, <2>4, <3>1, <3>3, <3>4, <3>5, <3>6
  <2> QED BY <2>3, <2>4
<1>14. KeyTakesEffectOnce'
  <2>1. \A v \in Users : \A i \in 1..Len(ledger[v]) : ledger[v][i].key # r.key
    BY <1>3 DEF KeyUsed, Rows
  <2>2. KeyTakesEffectOnce
    BY DEF LedgerInv
  <2>3. \A v \in Users : \A i \in 1..Len(ledger'[v]) :
          \/ v = u /\ i = n + 1 /\ ledger'[v][i] = e
          \/ i \in 1..Len(ledger[v]) /\ ledger'[v][i] = ledger[v][i]
    <3>1. \A i \in 1..Len(ledger'[u]) : i = n + 1 \/ i \in 1..n
      BY <1>8
    <3>2. \A i \in 1..Len(ledger[u]) : i \in 1..n
      BY DEF n
    <3>3. n = Len(ledger[u])
      BY DEF n
    <3> QED BY <1>7, <1>8, <3>1, <3>2, <3>3
  <2>4. SUFFICES ASSUME NEW v \in Users, NEW w \in Users,
                        NEW i \in 1..Len(ledger'[v]), NEW j \in 1..Len(ledger'[w]),
                        ledger'[v][i].key = ledger'[w][j].key
        PROVE v = w /\ i = j
    BY DEF KeyTakesEffectOnce
  <2>5. CASE i \in 1..Len(ledger[v]) /\ ledger'[v][i] = ledger[v][i]
    <3>1. ledger'[v][i].key # r.key
      BY <2>1, <2>5
    <3>2. j \in 1..Len(ledger[w]) /\ ledger'[w][j] = ledger[w][j]
      BY <1>9, <2>3, <2>4, <3>1
    <3> QED BY <2>2, <2>4, <2>5, <3>2 DEF KeyTakesEffectOnce
  <2>6. CASE v = u /\ i = n + 1 /\ ledger'[v][i] = e
    <3>1. ~(j \in 1..Len(ledger[w]) /\ ledger'[w][j] = ledger[w][j])
      BY <1>9, <2>1, <2>4, <2>6
    <3> QED BY <2>3, <2>6, <3>1
  <2> QED BY <2>3, <2>5, <2>6
<1>15. \A q : ReplayMatches(q) => ReplayMatches(q)'
  <2>1. \A v \in Users : \A i \in 1..Len(ledger[v]) :
          i \in 1..Len(ledger'[v]) /\ ledger'[v][i] = ledger[v][i]
    <3>1. n = Len(ledger[u])
      BY DEF n
    <3>2. \A i \in 1..n : i \in 1..(n + 1)
      BY <1>8
    <3> QED BY <1>7, <1>8, <3>1, <3>2
  <2> QED BY <2>1 DEF ReplayMatches, Rows
<1>16. ReplayMatches(handler[c].req)'
  <2>1. n + 1 \in 1..Len(ledger'[u])
    BY <1>8
  <2>2. ledger'[u][n+1].key = r.key /\ ledger'[u][n+1].amount = r.amount
    BY <1>8, <1>9
  <2>3. handler'[c].req = r
    BY <1>1, <1>5, <1>6 DEF TypeOK
  <2>4. \E x \in {ledger'[u][i] : i \in 1..Len(ledger'[u])} : x.key = r.key /\ x.amount = r.amount
    BY <2>1, <2>2
  <2> QED BY <1>2, <2>3, <2>4 DEF ReplayMatches, Rows
<1>17. \A d \in Callers : handler'[d] = IF d = c THEN h ELSE handler[d]
  BY <1>1, <1>5 DEF TypeOK
<1>18. AnswersAreTrue'
  BY <1>1, <1>6, <1>15, <1>17 DEF AnswersAreTrue, Truthful, LedgerInv
<1>19. HandlersAreSound'
  <2>1. SUFFICES ASSUME NEW d \in Callers PROVE Sound(handler[d])'
    BY DEF HandlersAreSound
  <2>2. CASE d = c
    BY <1>6, <1>16, <1>17, <2>2 DEF Sound
  <2>3. CASE d # c
    <3>1. handler'[d] = handler[d] /\ Sound(handler[d])
      BY <1>17, <2>3 DEF LedgerInv, HandlersAreSound
    <3> QED BY <1>10, <1>15, <3>1 DEF Sound
  <2> QED BY <2>2, <2>3
<1> QED BY <1>11, <1>12, <1>13, <1>14, <1>18, <1>19 DEF LedgerInv

\* ensureWallet only creates a row that says what the counter says.
LEMMA UpsertWalletInv ==
  ASSUME LedgerInv, NEW c \in Callers, UpsertWallet(c)
  PROVE  LedgerInv'
<1> DEFINE u == handler[c].req.user
           row == IF wallet[u].exists THEN wallet[u] ELSE [handler[c].seen EXCEPT !.exists = TRUE]
<1>1. /\ handler[c] \in Handler /\ Sound(handler[c]) /\ TypeOK /\ CounterInStep
      /\ u \in Users /\ handler[c].seen \in Wallet
  BY DEF LedgerInv, TypeOK, HandlersAreSound, UpsertWallet, Sound, Handler
<1>2. wallet' = [wallet EXCEPT ![u] = row] /\ handler' = [handler EXCEPT ![c] = Idle]
        /\ knowCoins' = knowCoins /\ ledger' = ledger /\ journal' = journal
  BY DEF UpsertWallet
<1>3. row \in Wallet /\ row.balance = knowCoins[u] /\ row.exists
  <2>1. CASE wallet[u].exists
    BY <1>1, <2>1 DEF TypeOK, CounterInStep
  <2>2. CASE ~wallet[u].exists
    <3>1. handler[c].seen = Unopened(knowCoins[u])
      BY <1>1, <2>2 DEF Sound, UpsertWallet
    <3>2. row = [Unopened(knowCoins[u]) EXCEPT !.exists = TRUE]
      BY <2>2, <3>1
    <3>3. row = [exists |-> TRUE, balance |-> knowCoins[u], version |-> 0]
      <4> HIDE DEF row
      <4> QED BY <3>2 DEF Unopened
    <3>4. knowCoins[u] \in Int
      BY <1>1, LedgerAssumption DEF TypeOK
    <3> HIDE DEF row
    <3> QED BY <3>3, <3>4 DEF Wallet
  <2> QED BY <2>1, <2>2
<1> HIDE DEF row
<1>4. \A v \in Users : wallet'[v] = IF v = u THEN row ELSE wallet[v]
  BY <1>1, <1>2 DEF TypeOK
<1>5. TypeOK'
  BY <1>1, <1>2, <1>3, IdleTyped DEF TypeOK
<1>6. CounterInStep'
  BY <1>1, <1>2, <1>3, <1>4, LedgerAssumption DEF CounterInStep, TypeOK
<1>7. ChainUnbroken' /\ KeyTakesEffectOnce'
  BY <1>2 DEF LedgerInv, ChainUnbroken, KeyTakesEffectOnce
<1>8. \A q : ReplayMatches(q)' <=> ReplayMatches(q)
  BY <1>2 DEF ReplayMatches, Rows
<1>9. \A d \in Callers : handler'[d] = IF d = c THEN Idle ELSE handler[d]
  BY <1>1, <1>2 DEF TypeOK
<1>10. AnswersAreTrue'
  BY <1>8, <1>9 DEF LedgerInv, AnswersAreTrue, Truthful, Idle
<1>11. HandlersAreSound'
  <2>1. SUFFICES ASSUME NEW d \in Callers PROVE Sound(handler[d])'
    BY DEF HandlersAreSound
  <2>2. CASE d = c
    BY <1>9, <2>2 DEF Sound, Idle
  <2>3. CASE d # c
    <3>1. handler'[d] = handler[d] /\ Sound(handler[d])
      BY <1>9, <2>3 DEF LedgerInv, HandlersAreSound
    <3> QED BY <1>2, <1>3, <1>4, <1>8, <3>1 DEF Sound
  <2> QED BY <2>2, <2>3
<1> QED BY <1>5, <1>6, <1>7, <1>10, <1>11 DEF LedgerInv

LEMMA StutterInv == LedgerInv /\ UNCHANGED vars => LedgerInv'
BY DEF LedgerInv, vars, TypeOK, CounterInStep, ChainUnbroken, KeyTakesEffectOnce,
       AnswersAreTrue, Truthful, HandlersAreSound, Sound, ReplayMatches, Rows

LEMMA NextInv == LedgerInv /\ [Next]_vars => LedgerInv'
<1> SUFFICES ASSUME LedgerInv, [Next]_vars PROVE LedgerInv'
  OBVIOUS
<1>1. ASSUME NEW c \in Callers, NEW r \in Request, Submit(c, r) PROVE LedgerInv'
  BY <1>1, SubmitInv
<1>2. ASSUME NEW c \in Callers, NEW u \in Users, ReadForOpening(c, u) PROVE LedgerInv'
  BY <1>2, ReadForOpeningInv
<1>3. ASSUME NEW c \in Callers, Progress(c) PROVE LedgerInv'
  BY <1>3, LookupInv, BeginInv, CommitInv, RefusedInv, UniqueConflictInv,
     RecoverInv, AuditInv, UpsertWalletInv DEF Progress
<1>4. ASSUME NEW c \in Callers, Crash(c) PROVE LedgerInv'
  BY <1>4, CrashInv
<1>5. CASE UNCHANGED vars
  BY <1>5, StutterInv
<1> QED BY <1>1, <1>2, <1>3, <1>4, <1>5 DEF Next

\* In every reachable state the balances, the chain of rows and the keys are
\* right, whatever the number of handlers, conflicts, retries and crashes.
THEOREM LedgerInvariant == Spec => []LedgerInv
<1> QED BY InitInv, NextInv, PTL DEF Spec

\* Concurrent serializable handlers lose no update.
THEOREM NoLostUpdate == Spec => []ChainUnbroken
<1>1. LedgerInv => ChainUnbroken
  BY DEF LedgerInv
<1> QED BY <1>1, LedgerInvariant, PTL

\* A key never takes effect twice.
THEOREM NoDoubleEffect == Spec => []KeyTakesEffectOnce
<1>1. LedgerInv => KeyTakesEffectOnce
  BY DEF LedgerInv
<1> QED BY <1>1, LedgerInvariant, PTL

\* ensureWallet and the movements: the counter User.knowCoins and the wallet row
\* stay in step, and no account is in debt.
THEOREM CounterKeepsStep == Spec => []CounterInStep
<1>1. LedgerInv => CounterInStep
  BY DEF LedgerInv
<1> QED BY <1>1, LedgerInvariant, PTL

\* A caller that is told "applied" or "replayed" is told so of its own movement.
THEOREM AnswersAreTruthful == Spec => []AnswersAreTrue
<1>1. LedgerInv => AnswersAreTrue
  BY DEF LedgerInv
<1> QED BY <1>1, LedgerInvariant, PTL

-----------------------------------------------------------------------------
\* The rows, read as the movements of the abstract ledger.
LEMMA MovementsChar ==
  \A m : m \in Movements <=>
    \E u \in Users : \E i \in 1..Len(ledger[u]) :
      m = [key |-> ledger[u][i].key, user |-> u, amount |-> ledger[u][i].amount]
BY DEF Movements, Rows

LEMMA AbstractInit == Init => Abstract!Init
<1> SUFFICES ASSUME Init PROVE Abstract!Init
  OBVIOUS
<1>1. \A u \in Users : Len(ledger[u]) = 0
  BY DEF Init
<1>2. \A u \in Users : \A i \in 1..Len(ledger[u]) : FALSE
  BY <1>1
<1>3. Movements = {}
  BY <1>2, MovementsChar
<1> QED BY <1>3 DEF Init, Abstract!Init

\* A commit is one abstract movement; every other step is a stutter.
LEMMA CommitApplies ==
  ASSUME LedgerInv, NEW c \in Callers, Commit(c)
  PROVE  Abstract!Next
<1> DEFINE r == handler[c].req
           u == r.user
           seen == handler[c].seen
           after == seen.balance + r.amount
           e == [key |-> r.key, amount |-> r.amount, before |-> seen.balance, after |-> after]
           m == [key |-> r.key, user |-> u, amount |-> r.amount]
<1>1. /\ TypeOK /\ CounterInStep /\ handler[c] \in Handler /\ Sound(handler[c])
      /\ handler[c].phase = "commit"
  BY DEF LedgerInv, TypeOK, HandlersAreSound, Commit
<1>2. u \in Users /\ after \in 0..MaxBalance
  BY <1>1 DEF Sound
<1>3. r \in Request /\ seen \in Wallet
  BY <1>1 DEF Handler
<1>4. r.key \in Keys /\ r.amount \in Amounts /\ r.amount \in Int /\ seen.balance \in Int
  BY <1>3, LedgerAssumption DEF Request, Wallet
<1>5. seen.balance = knowCoins[u] /\ ~KeyUsed(r.key)
  BY <1>1, <1>2, SnapshotFacts DEF Commit, SnapshotHolds
<1>6. e \in Entry /\ ledger[u] \in Seq(Entry) /\ after \in Int
  <2>1. after \in Int
    BY <1>4
  <2> HIDE DEF after
  <2> QED BY <1>1, <1>2, <1>4, <2>1 DEF Entry, TypeOK
<1>7. /\ ledger' = [ledger EXCEPT ![u] = Append(@, e)]
      /\ knowCoins' = [knowCoins EXCEPT ![u] = after]
  BY DEF Commit
<1>8. /\ ledger'[u] = Append(ledger[u], e)
      /\ \A v \in Users : v # u => ledger'[v] = ledger[v]
  BY <1>1, <1>2, <1>7 DEF TypeOK
<1>9. ~Abstract!Used(r.key)
  BY <1>5, MovementsChar DEF KeyUsed, Rows, Abstract!Used
<1>10. knowCoins' = [knowCoins EXCEPT ![u] = @ + r.amount] /\ knowCoins[u] + r.amount \in 0..MaxBalance
  BY <1>1, <1>2, <1>5, <1>7 DEF TypeOK
<1>11. e.key = r.key /\ e.amount = r.amount
  OBVIOUS
<1> HIDE DEF e, after
<1>12. Movements' = Movements \cup {m}
  <2>1. /\ Len(ledger[u]) \in Nat /\ Len(ledger'[u]) = Len(ledger[u]) + 1
        /\ \A i \in 1..Len(ledger[u]) : ledger'[u][i] = ledger[u][i]
        /\ ledger'[u][Len(ledger[u]) + 1] = e
    BY <1>6, <1>8, AppendFacts
  <2>2. \A x : x \in Movements' <=>
          \E v \in Users : \E i \in 1..Len(ledger'[v]) :
            x = [key |-> ledger'[v][i].key, user |-> v, amount |-> ledger'[v][i].amount]
    BY DEF Movements, Rows
  <2>3. ASSUME NEW x \in Movements PROVE x \in Movements'
    <3>0. PICK v \in Users : \E i \in 1..Len(ledger[v]) :
            x = [key |-> ledger[v][i].key, user |-> v, amount |-> ledger[v][i].amount]
      BY <2>3, MovementsChar
    <3>1. PICK i \in 1..Len(ledger[v]) :
            x = [key |-> ledger[v][i].key, user |-> v, amount |-> ledger[v][i].amount]
      BY <3>0
    <3>2. i \in 1..Len(ledger'[v]) /\ ledger'[v][i] = ledger[v][i]
      BY <1>8, <2>1
    <3> QED BY <2>2, <3>1, <3>2
  <2>4. m \in Movements'
    <3>1. Len(ledger[u]) + 1 \in 1..Len(ledger'[u])
      BY <2>1
    <3> QED BY <1>2, <1>11, <2>1, <2>2, <3>1
  <2>5. ASSUME NEW x \in Movements' PROVE x \in Movements \cup {m}
    <3>0. PICK v \in Users : \E i \in 1..Len(ledger'[v]) :
            x = [key |-> ledger'[v][i].key, user |-> v, amount |-> ledger'[v][i].amount]
      BY <2>2, <2>5
    <3>1. PICK i \in 1..Len(ledger'[v]) :
            x = [key |-> ledger'[v][i].key, user |-> v, amount |-> ledger'[v][i].amount]
      BY <3>0
    <3>2. CASE i \in 1..Len(ledger[v]) /\ ledger'[v][i] = ledger[v][i]
      BY <3>1, <3>2, MovementsChar
    <3>3. CASE v = u /\ i = Len(ledger[u]) + 1
      BY <1>11, <2>1, <3>1, <3>3
    <3>4. v # u => i \in 1..Len(ledger[v]) /\ ledger'[v][i] = ledger[v][i]
      BY <1>8, <3>1
    <3>5. v = u => i \in 1..Len(ledger[u]) \/ i = Len(ledger[u]) + 1
      BY <2>1, <3>1
    <3> QED BY <2>1, <3>2, <3>3, <3>4, <3>5
  <2> QED BY <2>3, <2>4, <2>5
<1>13. Abstract!Apply(u, r.key, r.amount)
  BY <1>9, <1>10, <1>12 DEF Abstract!Apply
<1> QED BY <1>2, <1>4, <1>13 DEF Abstract!Next

LEMMA QuietStep ==
  ASSUME UNCHANGED <<knowCoins, ledger>>
  PROVE  UNCHANGED Abstract!ledgerVars
BY DEF Abstract!ledgerVars, Movements, Rows

LEMMA StepRefines == LedgerInv /\ [Next]_vars => [Abstract!Next]_Abstract!ledgerVars
<1> SUFFICES ASSUME LedgerInv, [Next]_vars PROVE [Abstract!Next]_Abstract!ledgerVars
  OBVIOUS
<1>1. ASSUME NEW c \in Callers, Commit(c) PROVE Abstract!Next
  BY <1>1, CommitApplies
<1>2. CASE \E c \in Callers : Commit(c)
  BY <1>1, <1>2
<1>3. CASE ~\E c \in Callers : Commit(c)
  <2>1. UNCHANGED <<knowCoins, ledger>>
    BY <1>3 DEF Next, Progress, vars, ledgerVars, Submit, ReadForOpening, Crash, Lookup,
         Begin, Refused, UniqueConflict, Recover, Audit, UpsertWallet, AnswerReplay
  <2> QED BY <2>1, QuietStep
<1> QED BY <1>2, <1>3

\* The transactional service implements the atomic ledger: what its callers see
\* is one-step movements that take effect once per key and never overdraw.
THEOREM LedgerRefinement == Spec => ImplementsAtomicLedger
<1> QED BY AbstractInit, LedgerInvariant, StepRefines, PTL DEF Spec, ImplementsAtomicLedger, Abstract!Spec
=============================================================================
