--------------------------- MODULE KnowCoinLedger ---------------------------
(***************************************************************************)
(* WalletService (apps/api/src/wallet/wallet.service.ts): every movement   *)
(* of KnowCoins goes through `mutate`, which looks the idempotency key up, *)
(* runs `applyInTransaction` in a serializable PostgreSQL transaction and   *)
(* tries again a bounded number of times when the transaction is refused.   *)
(*                                                                         *)
(* A handler is split where it awaits the database.  A transaction reads   *)
(* one snapshot (Begin) and is validated when it commits (Commit, or Abort  *)
(* when what it read has changed, or when PostgreSQL refuses it anyway).    *)
(***************************************************************************)
EXTENDS Integers, Sequences

CONSTANTS
  Users,        \* rows of "User"
  Strangers,    \* account identifiers with no row
  Keys,         \* idempotency keys the validation accepts
  Amounts,      \* amounts a caller may ask for
  Callers,      \* concurrent HTTP handlers
  Opening,      \* User.knowCoins before the wallet row exists
  MaxAmount,    \* the service's limit on one movement (1_000_000)
  MaxBalance,   \* largest value of the int4 balance column
  Attempts      \* serializable attempts of one mutation (3)

ASSUME LedgerAssumption ==
  /\ Users \cap Strangers = {}
  /\ Users # {} /\ Keys # {} /\ Amounts # {}
  /\ Amounts \subseteq Int
  /\ MaxAmount \in Nat
  /\ MaxBalance \in Nat
  /\ Opening \in [Users -> 0..MaxBalance]
  /\ Attempts \in Nat \ {0}

VARIABLES
  wallet,     \* KnowCoinWallet: one row per account, absent until first use
  knowCoins,  \* User.knowCoins, the historical counter kept in step
  ledger,     \* KnowCoinLedgerEntry rows of each account, in commit order
  journal,    \* keys with a KNOWCOIN_ADMIN_ADJUSTMENT audit record
  handler     \* the in-flight handler of each caller

ledgerVars == <<wallet, knowCoins, ledger, journal>>
vars == <<wallet, knowCoins, ledger, journal, handler>>

Wallet == [exists : BOOLEAN, balance : Int, version : Nat]
NoWallet == [exists |-> FALSE, balance |-> 0, version |-> 0]
\* An absent row as a reader of User.knowCoins would fill it.
Unopened(coins) == [exists |-> FALSE, balance |-> coins, version |-> 0]

Entry == [key : Keys, amount : Int, before : Int, after : Int]

Request == [user : Users \cup Strangers, key : Keys, amount : Amounts]

\* Where a handler is between two awaits.
Phases == {"idle", "lookup", "begin", "commit", "conflict", "audit", "open"}
Replies == {"none", "applied", "replayed", "refused", "error"}

Handler == [phase : Phases, req : Request, attempt : 0..Attempts-1,
            seen : Wallet, reply : Replies]

SomeRequest == CHOOSE r \in Request : TRUE
Idle == [phase |-> "idle", req |-> SomeRequest, attempt |-> 0,
         seen |-> NoWallet, reply |-> "none"]

Rows(u) == {ledger[u][i] : i \in 1..Len(ledger[u])}
KeyUsed(k) == \E u \in Users : \E e \in Rows(u) : e.key = k
\* assertReplayMatches: the stored row is of the same account and amount.
ReplayMatches(r) ==
  r.user \in Users /\ \E e \in Rows(r.user) : e.key = r.key /\ e.amount = r.amount

Init ==
  /\ wallet = [u \in Users |-> NoWallet]
  /\ knowCoins = Opening
  /\ ledger = [u \in Users |-> <<>>]
  /\ journal = {}
  /\ handler = [c \in Callers |-> Idle]

-----------------------------------------------------------------------------
\* Answering the caller; the handler is over.
Answer(c, reply) ==
  handler' = [handler EXCEPT ![c].phase = "idle", ![c].seen = NoWallet, ![c].reply = reply]

\* (as if assertReplayMatches were not called)
AnswerAnyReplay(c) ==
  KeyUsed(handler[c].req.key) /\ Answer(c, "replayed") /\ UNCHANGED ledgerVars

\* Answering from a row that already holds the key.
AnswerReplay(c) ==
  /\ KeyUsed(handler[c].req.key)
  /\ Answer(c, IF ReplayMatches(handler[c].req) THEN "replayed" ELSE "refused")
  /\ UNCHANGED ledgerVars

\* validateMutation: no null amount, none beyond the limit.
ValidAmount(a) == a # 0 /\ a <= MaxAmount /\ -a <= MaxAmount

\* adjust, credit and debit enter `mutate`; the amount is validated first.
Submit(c, r) ==
  /\ handler[c].phase = "idle"
  /\ handler' = [handler EXCEPT ![c] =
       IF ValidAmount(r.amount)
       THEN [Idle EXCEPT !.phase = "lookup", !.req = r]
       ELSE [Idle EXCEPT !.reply = "refused"]]
  /\ UNCHANGED ledgerVars

\* The lookup outside any transaction, before the first attempt.
Lookup(c) ==
  /\ handler[c].phase = "lookup"
  /\ \/ AnswerReplay(c)
     \/ /\ ~KeyUsed(handler[c].req.key)
        /\ handler' = [handler EXCEPT ![c].phase = "begin"]
        /\ UNCHANGED ledgerVars

\* What a transaction reads of an account: its row, or the counter from which
\* its own upsert will create the row.
Snapshot(u) == IF wallet[u].exists THEN wallet[u] ELSE Unopened(knowCoins[u])

\* What applyInTransaction reads and decides from its snapshot.  The last
\* refusal is the database's: the balance does not fit its int4 column.
BalanceAfter(r) == Snapshot(r.user).balance + r.amount

Decision(r) ==
  CASE r.user \notin Users         -> "refused"   \* Compte utilisateur introuvable
    [] BalanceAfter(r) < 0          -> "refused"   \* Solde KnowCoins insuffisant
    [] BalanceAfter(r) > MaxBalance -> "error"
    [] OTHER                        -> "write"

Begin(c) ==
  LET r == handler[c].req
  IN  /\ handler[c].phase = "begin"
      /\ \/ AnswerReplay(c)
         \/ /\ ~KeyUsed(r.key)
            /\ IF Decision(r) = "write"
               THEN handler' = [handler EXCEPT ![c].phase = "commit",
                                               ![c].seen = Snapshot(r.user)]
               ELSE Answer(c, Decision(r))
            /\ UNCHANGED ledgerVars

\* (as if the transaction ran READ COMMITTED)
SnapshotUnvalidated(c) == ~KeyUsed(handler[c].req.key)

\* (as if the key column had no unique constraint)
SnapshotWithoutKey(c) == Snapshot(handler[c].req.user) = handler[c].seen

\* Serializable validation: nothing the transaction read or writes has moved.
SnapshotHolds(c) ==
  LET r == handler[c].req
  IN  ~KeyUsed(r.key) /\ Snapshot(r.user) = handler[c].seen

\* The three writes of applyInTransaction become visible together.
Commit(c) ==
  LET r == handler[c].req
      seen == handler[c].seen
      after == seen.balance + r.amount
  IN  /\ handler[c].phase = "commit"
      /\ SnapshotHolds(c)
      /\ wallet' = [wallet EXCEPT ![r.user] =
           [exists |-> TRUE, balance |-> after, version |-> seen.version + 1]]
      /\ knowCoins' = [knowCoins EXCEPT ![r.user] = after]
      /\ ledger' = [ledger EXCEPT ![r.user] = Append(@,
           [key |-> r.key, amount |-> r.amount, before |-> seen.balance, after |-> after])]
      /\ handler' = [handler EXCEPT ![c].phase = "audit", ![c].seen = NoWallet]
      /\ UNCHANGED journal

\* adjust journals a first application, after the commit and outside it.
Audit(c) ==
  /\ handler[c].phase = "audit"
  /\ \/ /\ journal' = journal \cup {handler[c].req.key}
        /\ Answer(c, "applied")
     \/ /\ UNCHANGED journal         \* the audit insert throws
        /\ Answer(c, "error")
  /\ UNCHANGED <<wallet, knowCoins, ledger>>

\* P2034: PostgreSQL may refuse any serializable transaction; the attempt is
\* made again while the loop allows it.
Refused(c) ==
  /\ handler[c].phase = "commit"
  /\ IF handler[c].attempt + 1 < Attempts
     THEN handler' = [handler EXCEPT ![c].phase = "begin", ![c].seen = NoWallet,
                                     ![c].attempt = @ + 1]
     ELSE Answer(c, "error")
  /\ UNCHANGED ledgerVars

\* P2002: the entry's key, or the wallet row of the account, was created by
\* another transaction in the meantime.
UniqueConflict(c) ==
  /\ handler[c].phase = "commit"
  /\ \/ KeyUsed(handler[c].req.key)
     \/ wallet[handler[c].req.user].exists /\ ~handler[c].seen.exists
  /\ handler' = [handler EXCEPT ![c].phase = "conflict"]
  /\ UNCHANGED ledgerVars

\* The lookup after P2002: a replay when the key is there, else the error
\* itself, which is not one the loop retries.
Recover(c) ==
  /\ handler[c].phase = "conflict"
  /\ \/ AnswerReplay(c)
     \/ /\ ~KeyUsed(handler[c].req.key)
        /\ Answer(c, "error")
        /\ UNCHANGED ledgerVars

\* ensureWallet (me, history, adminWallet): the row is looked up, then the
\* counter is read, and the row is created from it two awaits later.
ReadForOpening(c, u) ==
  /\ handler[c].phase = "idle"
  /\ ~wallet[u].exists
  /\ handler' = [handler EXCEPT ![c] =
       [Idle EXCEPT !.phase = "open", !.seen = Unopened(knowCoins[u]),
                    !.req = [SomeRequest EXCEPT !.user = u]]]
  /\ UNCHANGED ledgerVars

\* (as if the upsert also updated the balance it read earlier)
UpsertStale(c) ==
  LET u == handler[c].req.user
  IN  /\ handler[c].phase = "open"
      /\ wallet' = [wallet EXCEPT ![u] = [handler[c].seen EXCEPT !.exists = TRUE]]
      /\ handler' = [handler EXCEPT ![c] = Idle]
      /\ UNCHANGED <<knowCoins, ledger, journal>>

\* upsert with an empty update: an existing row is left as it is.
UpsertWallet(c) ==
  LET u == handler[c].req.user
  IN  /\ handler[c].phase = "open"
      /\ wallet' = [wallet EXCEPT ![u] = IF @.exists THEN @
             ELSE [handler[c].seen EXCEPT !.exists = TRUE]]
      /\ handler' = [handler EXCEPT ![c] = Idle]
      /\ UNCHANGED <<knowCoins, ledger, journal>>

\* The process stops, or the connection is lost, with a handler in flight:
\* an uncommitted transaction leaves nothing and the caller has no answer.
Crash(c) ==
  /\ handler[c].phase # "idle"
  /\ handler' = [handler EXCEPT ![c] = Idle]
  /\ UNCHANGED ledgerVars

Progress(c) ==
  Lookup(c) \/ Begin(c) \/ Commit(c) \/ Refused(c) \/ UniqueConflict(c)
    \/ Recover(c) \/ Audit(c) \/ UpsertWallet(c)

Next ==
  \E c \in Callers :
    \/ \E r \in Request : Submit(c, r)
    \/ \E u \in Users : ReadForOpening(c, u)
    \/ Progress(c)
    \/ Crash(c)

Spec == Init /\ [][Next]_vars

-----------------------------------------------------------------------------
\* Shapes of the state.
TypeOK ==
  /\ wallet \in [Users -> Wallet]
  /\ knowCoins \in [Users -> 0..MaxBalance]
  /\ ledger \in [Users -> Seq(Entry)]
  /\ journal \subseteq Keys
  /\ handler \in [Callers -> Handler]

\* No account is ever in debt, and the historical counter User.knowCoins and
\* the wallet row agree from the moment the row exists, whoever created it.
CounterInStep ==
  \A u \in Users : wallet[u].exists =>
    /\ wallet[u].balance = knowCoins[u]
    /\ wallet[u].balance \in 0..MaxBalance

\* The rows of an account form one unbroken chain from its opening counter to
\* its present balance: concurrent movements lose no update.
ChainUnbroken ==
  \A u \in Users :
    /\ \A i \in 1..Len(ledger[u]) :
         /\ ledger[u][i].before = (IF i = 1 THEN Opening[u] ELSE ledger[u][i-1].after)
         /\ ledger[u][i].after = ledger[u][i].before + ledger[u][i].amount
    /\ knowCoins[u] = (IF ledger[u] = <<>> THEN Opening[u] ELSE ledger[u][Len(ledger[u])].after)

\* An idempotency key takes effect at most once, over all the accounts.
KeyTakesEffectOnce ==
  \A u, v \in Users : \A i \in 1..Len(ledger[u]), j \in 1..Len(ledger[v]) :
    ledger[u][i].key = ledger[v][j].key => u = v /\ i = j

\* A caller is told "applied" or "replayed" only of a row that holds exactly
\* its account and its amount, through crashes, retries and lost races.
Truthful(h) == h.reply \in {"applied", "replayed"} => ReplayMatches(h.req)
AnswersAreTrue == \A c \in Callers : Truthful(handler[c])

\* What a handler has read is still good for what it is about to write: the
\* part of the state that makes the invariants above inductive.
Sound(h) ==
  /\ h.phase = "commit" =>
       h.req.user \in Users /\ h.seen.balance + h.req.amount \in 0..MaxBalance
  /\ h.phase = "audit" => ReplayMatches(h.req)
  /\ h.phase = "open" =>
       /\ h.req.user \in Users
       /\ ~wallet[h.req.user].exists => h.seen = Unopened(knowCoins[h.req.user])
HandlersAreSound == \A c \in Callers : Sound(handler[c])

LedgerInv ==
  /\ TypeOK
  /\ CounterInStep
  /\ ChainUnbroken
  /\ KeyTakesEffectOnce
  /\ AnswersAreTrue
  /\ HandlersAreSound

\* The abstract ledger: the counter is the balance, the rows the movements.
Movements ==
  UNION {{[key |-> e.key, user |-> u, amount |-> e.amount] : e \in Rows(u)} : u \in Users}
Abstract == INSTANCE AtomicLedger WITH balance <- knowCoins, applied <- Movements
\* Concurrent, retried and interrupted handlers implement atomic movements
\* that take effect once per key.
ImplementsAtomicLedger == Abstract!Spec
=============================================================================
