---------------------------- MODULE Tournaments ----------------------------
(***************************************************************************)
(* TournamentService (apps/api/src/games/tournament.service.ts): one single- *)
(* elimination tournament, its teams of one or two, its bracket and the      *)
(* games of its matches.  Every operation is a serializable transaction and  *)
(* one step, except the deletion of an account, which reads, then writes.    *)
(***************************************************************************)
EXTENDS Integers, FiniteSets

CONSTANTS
  Captains,     \* accounts that may enter a team, in the order of their seed keys
  Owner,        \* the account that organises
  MaxEntrants,  \* the largest bracket
  TeamSizes,    \* sizes of a team
  Endings,      \* bound: how games end
  MaxGone       \* bound: accounts suspended or deleted, and deletions in flight

ASSUME TournamentAssumption ==
  /\ Captains \subseteq Nat \ {0} /\ IsFiniteSet(Captains) /\ Owner \notin Captains
  /\ TeamSizes \subseteq {1, 2}
  /\ Cardinality(Captains) <= MaxEntrants
  /\ MaxEntrants \in Nat \ {0, 1} /\ MaxGone \in Nat

VARIABLES
  tournament,   \* the Tournament row, and whether registration is closed, by time or by the start
  entrant,      \* status of the TournamentEntrant of each captain
  member,       \* TournamentEntrantMember rows: the captain and the mate of each team
  match,        \* TournamentMatch rows: the final is 1, the winner of m plays in m \div 2
  game,         \* the GameSession of each match
  account,      \* the captains' accounts
  deletion      \* the account deletion in flight

vars == <<tournament, entrant, member, match, game, account, deletion>>

Nobody == 0
Matches == 1..(MaxEntrants - 1)
Entrants == Captains \cup {Nobody}
Roles == {"CAPTAIN", "MEMBER"}

Life(m) == INSTANCE GameLifecycle WITH Players <- Captains, game <- game[m]

NoMatch == [first |-> Nobody, second |-> Nobody, winner |-> Nobody, status |-> "NONE"]
Undecided == {"PENDING", "WAITING", "ACTIVE", "REVIEW_REQUIRED"}
Decided == {"COMPLETED", "FORFEIT"}
Registering == {"DRAFT", "REGISTRATION_OPEN"}
Over == {"COMPLETED", "CANCELLED"}
NoDeletion == [who |-> Nobody, role |-> "NONE", tournament |-> "NONE", entrant |-> "NONE"]

Init ==
  /\ tournament = [status |-> "NONE", teamSize |-> 1, capacity |-> 2, size |-> 0,
                   champion |-> Nobody, closed |-> FALSE]
  /\ entrant = [c \in Captains |-> "NONE"]
  /\ member = [c \in Captains |-> [r \in Roles |-> "NONE"]]
  /\ match = [m \in Matches |-> NoMatch]
  /\ game = [m \in Matches |-> [status |-> "NONE", winner |-> Nobody]]
  /\ account = [a \in Captains \cup {Owner} |-> "OK"]
  /\ deletion = NoDeletion

-----------------------------------------------------------------------------
Slots(m) == {match[m].first, match[m].second}
Opponent(m, c) == IF match[m].first = c THEN match[m].second ELSE match[m].first
InState(states) == {c \in Captains : entrant[c] \in states}

PowerOfTwo(n) == n \in {2, 4, 8, 16, 32}

Out(status, c, es) == [es EXCEPT ![c] = IF @ \in {"PENDING", "READY"} THEN status ELSE @]

\* (as if a game that had ended were cancelled again)
EndsAgain(g) == IF g.status # "NONE" THEN [g EXCEPT !.status = "CANCELLED"] ELSE g

Ends(g) == IF g.status \in {"WAITING", "ACTIVE"} THEN [g EXCEPT !.status = "CANCELLED"] ELSE g

create ==
  /\ tournament.status = "NONE" /\ account[Owner] = "OK"
  /\ \E n \in {k \in 1..MaxEntrants : PowerOfTwo(k)}, size \in TeamSizes :
       tournament' = [tournament EXCEPT !.status = "DRAFT", !.teamSize = size, !.capacity = n]
  /\ UNCHANGED <<entrant, member, match, game, account, deletion>>

openRegistration ==
  /\ tournament.status = "DRAFT" /\ ~tournament.closed /\ account[Owner] = "OK"
  /\ tournament' = [tournament EXCEPT !.status = "REGISTRATION_OPEN"]
  /\ UNCHANGED <<entrant, member, match, game, account, deletion>>

CloseRegistration ==
  /\ tournament.status \in Registering /\ ~tournament.closed
  /\ tournament' = [tournament EXCEPT !.closed = TRUE]
  /\ UNCHANGED <<entrant, member, match, game, account, deletion>>

RegistrationOpen == tournament.status = "REGISTRATION_OPEN" /\ ~tournament.closed

TeamRoles == IF tournament.teamSize = 1 THEN {"CAPTAIN"} ELSE Roles

registerEntrant(c) ==
  /\ RegistrationOpen /\ account[c] = "OK"
  /\ Cardinality(InState({"PENDING", "READY"})) < tournament.capacity
  /\ \A r \in TeamRoles : member[c][r] = "NONE"
  /\ entrant' = [entrant EXCEPT ![c] = IF tournament.teamSize = 1 THEN "READY" ELSE "PENDING"]
  /\ member' = [member EXCEPT ![c] = [r \in Roles |-> IF r \notin TeamRoles THEN @[r]
                                                      ELSE IF r = "CAPTAIN" THEN "JOINED" ELSE "INVITED"]]
  /\ UNCHANGED <<tournament, match, game, account, deletion>>

\* The invitee was the last of the team to answer.
acceptInvitation(c) ==
  /\ RegistrationOpen /\ member[c]["MEMBER"] = "INVITED"
  /\ member' = [member EXCEPT ![c]["MEMBER"] = "JOINED"]
  /\ entrant' = [entrant EXCEPT ![c] = "READY"]
  /\ UNCHANGED <<tournament, match, game, account, deletion>>

-----------------------------------------------------------------------------
Available(c) == account[c] = "OK"

\* createMatchSessionTx throws, and with it its transaction, unless both
\* captains may play.
CanPlay(ms, m) == Available(ms[m].first) /\ Available(ms[m].second)

IsFinal(m) == m = 1

\* (as if the winner took the first free slot)
FilledFirstFree(m, w, end) ==
  LET decided == [match EXCEPT ![m] = [@ EXCEPT !.status = end, !.winner = w]]
  IN IF IsFinal(m) THEN decided
     ELSE IF match[m \div 2].first = Nobody THEN [decided EXCEPT ![m \div 2].first = w]
     ELSE [decided EXCEPT ![m \div 2].second = w]

\* The matches once w has won match m: with the slot of the next one filled.
Filled(m, w, end) ==
  LET decided == [match EXCEPT ![m] = [@ EXCEPT !.status = end, !.winner = w]]
  IN IF IsFinal(m) THEN decided
     ELSE IF m % 2 = 0 THEN [decided EXCEPT ![m \div 2].first = w]
     ELSE [decided EXCEPT ![m \div 2].second = w]

Opens(ms, n) ==
  /\ n # 0 /\ ms[n].first # Nobody /\ ms[n].second # Nobody
  /\ game[n].status = "NONE" /\ ms[n].status = "PENDING"

\* (as if the loser stayed in)
BeatenStaysIn(loser, es) == es

Beaten(loser, es) == IF loser = Nobody THEN es ELSE Out("ELIMINATED", loser, es)

\* advanceWinnerTx, after the writes that have left entrants es and games gs.
Advance(m, w, end, es, gs) ==
  LET ms == Filled(m, w, end)
      n == IF IsFinal(m) THEN 0 ELSE m \div 2
      rest == Beaten(Opponent(m, w), es)
  IN /\ w # Nobody /\ w \in Slots(m) /\ match[m].status \in Undecided
     /\ Opens(ms, n) => CanPlay(ms, n)
     /\ match' = IF Opens(ms, n) THEN [ms EXCEPT ![n].status = "WAITING"] ELSE ms
     /\ game' = IF Opens(ms, n) THEN [gs EXCEPT ![n].status = "WAITING"] ELSE gs
     /\ entrant' = IF n = 0 THEN [rest EXCEPT ![w] = "CHAMPION"] ELSE rest
     /\ tournament' = IF n = 0 THEN [tournament EXCEPT !.status = "COMPLETED", !.champion = w]
                      ELSE tournament

\* The entrants in the order of their seed keys.
Seedings(ready) ==
  {seeded \in [1..Cardinality(ready) -> ready] : \A i, j \in DOMAIN seeded : i < j => seeded[i] < seeded[j]}

\* (as if the second entrant of a match were the first of the next)
BracketOverlapping(n, seeded) ==
  LET half == n \div 2
  IN [m \in Matches |->
        IF m >= n THEN NoMatch
        ELSE IF m < half THEN [NoMatch EXCEPT !.status = "PENDING"]
        ELSE [NoMatch EXCEPT !.first = seeded[m - half + 1], !.second = seeded[m - half + 2],
                             !.status = "WAITING"]]

\* The bracket of n seeded entrants.
Bracket(n, seeded) ==
  LET half == n \div 2
  IN [m \in Matches |->
        IF m >= n THEN NoMatch
        ELSE IF m < half THEN [NoMatch EXCEPT !.status = "PENDING"]
        ELSE [NoMatch EXCEPT !.first = seeded[2 * (m - half) + 1], !.second = seeded[2 * (m - half) + 2],
                             !.status = "WAITING"]]

start ==
  LET ready == InState({"READY"})
      n == Cardinality(ready)
      opening == {m \in Matches : n \div 2 <= m /\ m < n}
  IN /\ tournament.status = "REGISTRATION_OPEN" /\ account[Owner] = "OK"
     /\ InState({"PENDING"}) = {} /\ PowerOfTwo(n)
     /\ tournament.closed \/ n >= tournament.capacity
     /\ \E seeded \in Seedings(ready) : match' = Bracket(n, seeded)
     /\ \A m \in opening : CanPlay(match', m)
     /\ game' = [m \in Matches |-> IF m \in opening THEN [game[m] EXCEPT !.status = "WAITING"] ELSE game[m]]
     /\ tournament' = [tournament EXCEPT !.status = "ACTIVE", !.size = n, !.closed = TRUE]
     /\ UNCHANGED <<entrant, member, account, deletion>>

-----------------------------------------------------------------------------
(* The games of the matches: GameSessions implements these steps.  A late    *)
(* cancellation no longer matters once the match is decided.                 *)
PlayGame(m) ==
  /\ \E g \in Life(m)!Begun(game[m]) \cup Life(m)!PlayedOut(game[m]) \cup Life(m)!Closed(game[m])
                \cup (IF match[m].status \in Undecided THEN Life(m)!LateCancelled(game[m]) ELSE {}) :
       /\ g.status \in {"ACTIVE"} \cup Endings /\ g.winner \in Slots(m) \cup {Nobody}
       /\ game' = [game EXCEPT ![m] = g]
  /\ UNCHANGED <<tournament, entrant, member, match, account, deletion>>

\* syncMatchTx on a match whose game has begun.
SyncBegun(m) ==
  /\ match[m].status \in Undecided \ {"ACTIVE"} /\ game[m].status = "ACTIVE"
  /\ match' = [match EXCEPT ![m].status = "ACTIVE"]
  /\ UNCHANGED <<tournament, entrant, member, game, account, deletion>>

HasWinner(m) == game[m].status \in {"COMPLETED", "ABANDONED"} /\ game[m].winner \in Slots(m) \ {Nobody}

\* ... whose game ended with a winner.
SyncWon(m) ==
  /\ match[m].status \in Undecided /\ HasWinner(m)
  /\ Advance(m, game[m].winner, "COMPLETED", entrant, game)
  /\ UNCHANGED <<member, account, deletion>>

\* (as if only cancelled games were looked at)
SyncReviewCancelled(m) ==
  /\ match[m].status \in Undecided \ {"REVIEW_REQUIRED"} /\ game[m].status = "CANCELLED"
  /\ match' = [match EXCEPT ![m].status = "REVIEW_REQUIRED"]
  /\ UNCHANGED <<tournament, entrant, member, game, account, deletion>>

\* ... whose game ended otherwise, is gone, or is played and was seen before.
SyncReview(m) ==
  /\ match[m].status \in Undecided \ {"REVIEW_REQUIRED"}
  /\ game[m].status \notin {"NONE", "WAITING"} /\ ~HasWinner(m)
  /\ game[m].status = "ACTIVE" => match[m].status = "ACTIVE"
  /\ match' = [match EXCEPT ![m].status = "REVIEW_REQUIRED"]
  /\ UNCHANGED <<tournament, entrant, member, game, account, deletion>>

syncMatch(m) == SyncBegun(m) \/ SyncWon(m) \/ SyncReview(m)

resolveMatch(m) ==
  /\ match[m].status = "REVIEW_REQUIRED"
  /\ \E w \in Slots(m) : Advance(m, w, "COMPLETED", entrant, game)
  /\ UNCHANGED <<member, account, deletion>>

-----------------------------------------------------------------------------
\* The undecided match of c: see OneOpenMatch.
OpenMatches(c) == {m \in Matches : match[m].status \in Undecided /\ c \in Slots(m)}

\* (as if the game of a forfeit went on)
ForfeitPlayedOn(c, gs) ==
  LET es == Out("WITHDRAWN", c, entrant)
  IN \/ OpenMatches(c) = {} /\ entrant' = es /\ game' = gs /\ UNCHANGED <<tournament, match>>
     \/ \E m \in OpenMatches(c) :
          \/ /\ Opponent(m, c) = Nobody
             /\ match' = [match EXCEPT ![m].status = "REVIEW_REQUIRED"]
             /\ entrant' = es /\ game' = gs /\ UNCHANGED tournament
          \/ Advance(m, Opponent(m, c), "FORFEIT", es, gs)

\* forfeitEntrantTx, on games gs.
Forfeit(c, gs) ==
  LET es == Out("WITHDRAWN", c, entrant)
  IN \/ OpenMatches(c) = {} /\ entrant' = es /\ game' = gs /\ UNCHANGED <<tournament, match>>
     \/ \E m \in OpenMatches(c) :
          \/ /\ Opponent(m, c) = Nobody
             /\ match' = [match EXCEPT ![m].status = "REVIEW_REQUIRED"]
             /\ entrant' = es /\ game' = gs /\ UNCHANGED tournament
          \/ Advance(m, Opponent(m, c), "FORFEIT", es, [gs EXCEPT ![m] = Ends(@)])

\* Rows of the team that are left: all that are there.
TeamLeft(c) == [member EXCEPT ![c] = [r \in Roles |-> IF @[r] \in {"INVITED", "JOINED"} THEN "LEFT" ELSE @[r]]]

\* withdraw, by either member of the team of c.
withdraw(c) ==
  /\ \E r \in Roles : member[c][r] \in {"INVITED", "JOINED"}
  /\ tournament.status \notin Over
  /\ member' = TeamLeft(c)
  /\ IF tournament.status = "ACTIVE" THEN Forfeit(c, game)
     ELSE entrant' = Out("WITHDRAWN", c, entrant) /\ UNCHANGED <<tournament, match, game>>
  /\ UNCHANGED <<account, deletion>>

\* (as if decided matches were cancelled too)
CancelEveryMatch ==
  /\ tournament' = [tournament EXCEPT !.status = "CANCELLED"]
  /\ match' = [m \in Matches |-> IF match[m].status # "NONE" THEN [match[m] EXCEPT !.status = "CANCELLED"]
                                 ELSE match[m]]
  /\ game' = [m \in Matches |-> Ends(game[m])]

\* cancelTournamentTx.
CancelTournament ==
  /\ tournament' = [tournament EXCEPT !.status = "CANCELLED"]
  /\ match' = [m \in Matches |-> IF match[m].status \in Undecided THEN [match[m] EXCEPT !.status = "CANCELLED"]
                                 ELSE match[m]]
  /\ game' = [m \in Matches |-> IF match[m].status \in Undecided THEN Ends(game[m]) ELSE game[m]]

cancel ==
  /\ tournament.status \in Registering /\ account[Owner] = "OK"
  /\ CancelTournament
  /\ UNCHANGED <<entrant, member, account, deletion>>

governCancel ==
  /\ tournament.status \notin Over \cup {"NONE"}
  /\ CancelTournament
  /\ UNCHANGED <<entrant, member, account, deletion>>

-----------------------------------------------------------------------------
Gone == {a \in DOMAIN account : account[a] # "OK"}
MateGone == {c \in Captains : member[c]["MEMBER"] = "DELETED"}
InFlight == IF deletion = NoDeletion THEN 0 ELSE 1
MoreMayGo == Cardinality(Gone) + Cardinality(MateGone) + InFlight < MaxGone

Suspend(c) ==
  /\ account[c] = "OK" /\ MoreMayGo
  /\ account' = [account EXCEPT ![c] = "SUSPENDED"]
  /\ UNCHANGED <<tournament, entrant, member, match, game, deletion>>

Restore(c) ==
  /\ account[c] = "SUSPENDED"
  /\ account' = [account EXCEPT ![c] = "OK"]
  /\ UNCHANGED <<tournament, entrant, member, match, game, deletion>>

(* deleteForAccount: what it does follows the statuses it has read.           *)
ReadDeletion(who, role) ==
  /\ deletion = NoDeletion /\ MoreMayGo
  /\ IF role = "MEMBER" THEN member[who][role] # "DELETED" ELSE account[who] # "DELETED"
  /\ LET concerned == role = "OWNER" \/ member[who][role] # "NONE"
     IN deletion' = [who |-> who, role |-> role,
                     tournament |-> IF concerned THEN tournament.status ELSE "NONE",
                     entrant |-> IF role = "OWNER" THEN "NONE" ELSE entrant[who]]
  /\ UNCHANGED <<tournament, entrant, member, match, game, account>>

\* GamePlatformService.deleteForAccount on the games gs of the account.
GamesWithout(c, gs) ==
  [m \in Matches |->
     IF c \notin Slots(m) \/ gs[m].status = "NONE" THEN gs[m]
     ELSE IF \A d \in Slots(m) \ {c} : account[d] = "DELETED" THEN [status |-> "ERASED", winner |-> Nobody]
     ELSE [Ends(gs[m]) EXCEPT !.winner = IF @ = c THEN Nobody ELSE @]]

DeleteOwner ==
  /\ deletion.role = "OWNER"
  /\ IF deletion.tournament \in Registering THEN CancelTournament ELSE UNCHANGED <<tournament, match, game>>
  /\ account' = [account EXCEPT ![Owner] = "DELETED"]
  /\ UNCHANGED <<entrant, member>>

\* The entrant of a deleted member leaves while registration is open.
Deserted == IF deletion.tournament \in Registering /\ deletion.entrant \in {"PENDING", "READY"}
            THEN [entrant EXCEPT ![deletion.who] = "WITHDRAWN"] ELSE entrant

DeleteCaptain(c) ==
  /\ deletion.role = "CAPTAIN" /\ deletion.who = c
  /\ IF deletion.tournament = "ACTIVE"
     THEN Forfeit(c, GamesWithout(c, game)) /\ member' = [TeamLeft(c) EXCEPT ![c]["CAPTAIN"] = "DELETED"]
     ELSE /\ entrant' = Deserted /\ game' = GamesWithout(c, game)
          /\ member' = [member EXCEPT ![c]["CAPTAIN"] = "DELETED"]
          /\ UNCHANGED <<tournament, match>>
  /\ account' = [account EXCEPT ![c] = "DELETED"]

DeleteMate(c) ==
  /\ deletion.role = "MEMBER" /\ deletion.who = c
  /\ entrant' = Deserted
  /\ member' = [member EXCEPT ![c]["MEMBER"] = "DELETED"]
  /\ UNCHANGED <<tournament, match, game, account>>

WriteDeletion ==
  /\ DeleteOwner \/ \E c \in Captains : DeleteCaptain(c) \/ DeleteMate(c)
  /\ deletion' = NoDeletion

\* The transaction of the deletion fails: nothing of it is kept.
AbortDeletion ==
  /\ deletion # NoDeletion /\ deletion' = NoDeletion
  /\ UNCHANGED <<tournament, entrant, member, match, game, account>>

-----------------------------------------------------------------------------
Organise == create \/ openRegistration \/ CloseRegistration \/ start \/ cancel \/ governCancel
Enter(c) == registerEntrant(c) \/ acceptInvitation(c) \/ withdraw(c) \/ Suspend(c) \/ Restore(c)
Contest(m) == PlayGame(m) \/ syncMatch(m) \/ resolveMatch(m)
Delete ==
  \/ ReadDeletion(Owner, "OWNER")
  \/ \E c \in Captains, r \in Roles : ReadDeletion(c, r)
  \/ WriteDeletion
  \/ AbortDeletion

Next ==
  \/ Organise
  \/ \E c \in Captains : Enter(c)
  \/ \E m \in Matches : Contest(m)
  \/ Delete

Spec == Init /\ [][Next]_vars

\* syncDue runs for the matches that wait or are played.
SyncDue(m) == match[m].status \in {"WAITING", "ACTIVE"} /\ syncMatch(m)
FairSpec == Spec /\ \A m \in Matches : WF_vars(SyncDue(m))

-----------------------------------------------------------------------------
Teams == {"NONE", "PENDING", "READY", "WITHDRAWN", "ELIMINATED", "CHAMPION"}
MatchRows == [first : Entrants, second : Entrants, winner : Entrants,
              status : {"NONE", "CANCELLED"} \cup Undecided \cup Decided]
TypeOK ==
  /\ tournament \in [status : {"NONE", "ACTIVE"} \cup Registering \cup Over, teamSize : {1, 2},
                     capacity : 2..MaxEntrants, size : 0..MaxEntrants, champion : Entrants, closed : BOOLEAN]
  /\ entrant \in [Captains -> Teams]
  /\ member \in [Captains -> [Roles -> {"NONE", "INVITED", "JOINED", "LEFT", "DELETED"}]]
  /\ match \in [Matches -> MatchRows]
  /\ game \in [Matches -> Life(1)!Games]
  /\ account \in [Captains \cup {Owner} -> {"OK", "SUSPENDED", "DELETED"}]

\* The slot of a match holds the winner of the match before it once that is
\* decided, and nobody until then, whichever of the two is decided first and
\* however: by play, by forfeit or by moderation. The winner of the final is champion.
FirstRound(m) == 2 * m >= tournament.size
BracketSound ==
  /\ \A m \in Matches : match[m].status # "NONE" =>
       /\ match[m].status \in Decided => match[m].winner \in Slots(m) \ {Nobody}
       /\ match[m].status \notin Decided => match[m].winner = Nobody
       /\ IF FirstRound(m) THEN Nobody \notin Slots(m) /\ match[m].first # match[m].second
          ELSE match[m].first = match[2 * m].winner /\ match[m].second = match[2 * m + 1].winner
  /\ tournament.status = "COMPLETED" => tournament.champion # Nobody
  /\ \A m \in Matches : IsFinal(m) => tournament.champion = match[m].winner

\* An entrant has at most one match to play, so a forfeit finds it.
OneOpenMatch == \A c \in Captains : Cardinality(OpenMatches(c)) <= 1

\* Whoever is still in the running of a tournament under way has a match to play,
\* unless moderation gave that match, before they reached it, to the entrant who
\* waited there and withdrew.
Forestalled(c) ==
  \E m \in Matches : /\ match[m].status = "COMPLETED" /\ c \in Slots(m)
                     /\ match[m].winner # Nobody /\ entrant[match[m].winner] = "WITHDRAWN"
InTheRunning ==
  tournament.status = "ACTIVE" => \A c \in InState({"READY"}) : OpenMatches(c) # {} \/ Forestalled(c)

\* A game is played only between two entrants, and no longer once its match
\* is forfeited or cancelled.
LiveGameIsOfMatch ==
  \A m \in Matches : game[m].status \in {"WAITING", "ACTIVE"} =>
    match[m].status \in (Undecided \ {"PENDING"}) \cup {"COMPLETED"} /\ Nobody \notin Slots(m)

\* A decided match is never decided again.
DecidedOnce ==
  [][\A m \in Matches : match[m].status \in Decided =>
       match'[m].status = match[m].status /\ match'[m].winner = match[m].winner]_vars

\* Each game lives the life GameSessions implements, the tournament's own
\* cancellations included.
GamesLiveOnce == [][\A m \in Matches : game'[m] = game[m] \/ Life(m)!Next]_vars

\* Only a match whose game cannot decide it is handed to moderation (as
\* operations and the tests promise: see the README).
ReviewIsExceptional ==
  \A m \in Matches : match[m].status = "REVIEW_REQUIRED" => game[m].status # "ACTIVE"

\* A match whose game has ended is decided or handed to moderation, unless
\* some captain may not play.
MatchIsSettled ==
  \A m \in Matches :
    (match[m].status \in {"WAITING", "ACTIVE"} /\ game[m].status \notin {"WAITING", "ACTIVE"})
      ~> (match[m].status \notin {"WAITING", "ACTIVE"} \/ \E c \in Captains : ~Available(c))
=============================================================================
