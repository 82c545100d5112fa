------------------------- MODULE TournamentsProofs -------------------------
(***************************************************************************)
(* Theorems about Tournaments, for any number of captains and any bracket    *)
(* the code allows.                                                          *)
(***************************************************************************)
EXTENDS Tournaments, FiniteSetTheorems, TLAPS

Live(g) == g.status \in {"WAITING", "ACTIVE"}
NoGame == [status |-> "NONE", winner |-> Nobody]
Games == [status : {"NONE", "ERASED", "WAITING", "ACTIVE", "COMPLETED", "ABANDONED", "CANCELLED", "EXPIRED"},
          winner : Entrants]

\* What the rows of a tournament are before and after its bracket is drawn.
Drawn ==
  /\ tournament.size # 0 => PowerOfTwo(tournament.size)
  /\ tournament.status \in {"NONE"} \cup Registering => tournament.size = 0
  /\ \A m \in Matches : match[m].status = "NONE" <=> m >= tournament.size
  /\ \A m \in Matches : match[m].status = "NONE" => match[m] = NoMatch
  /\ tournament.size = 0 => \A m \in Matches : game[m] = NoGame

\* Match m is on the way from match k to the final: a bracket has five rounds at most.
Above(m, k) == m \in {k \div 2, k \div 4, k \div 8, k \div 16}

\* The matches of an entrant are on one way to the final.
OneWay ==
  \A m, k \in Matches : \A c \in Captains :
    c \in Slots(m) /\ c \in Slots(k) => m = k \/ Above(m, k) \/ Above(k, m)

OneOpen == \A c \in Captains : \A m, k \in OpenMatches(c) : m = k

\* A game that is not over, or that was erased, has no winner.
WinnersAreLate == \A m \in Matches : game[m].status \in {"NONE", "WAITING", "ACTIVE", "ERASED"} => game[m].winner = Nobody

\* The games of an account end before the account goes.
NobodyPlaysDeleted == \A m \in Matches : Live(game[m]) => \A c \in Slots(m) : account[c] # "DELETED"

Core == Drawn /\ BracketSound /\ OneWay /\ OneOpen /\ LiveGameIsOfMatch /\ WinnersAreLate /\ NobodyPlaysDeleted

Inv == TypeOK /\ Core

-----------------------------------------------------------------------------
(* Arithmetic of the bracket.                                                *)

\* The bracket's sizes.
LEMMA Sizes ==
  ASSUME NEW n \in Nat, PowerOfTwo(n)
  PROVE  n \in 2..32 /\ n \div 2 \in 1..16 /\ n = 2 * (n \div 2)
BY DEF PowerOfTwo

\* A match and the one its winner plays in.
LEMMA Next2 ==
  ASSUME NEW m \in Nat, m > 1
  PROVE  /\ m \div 2 \in Nat /\ m \div 2 >= 1 /\ m \div 2 < m
         /\ m % 2 = 0 => m = 2 * (m \div 2)
         /\ m % 2 # 0 => m = 2 * (m \div 2) + 1
OBVIOUS

\* What is on the way from a match is on the way from where its winner plays, or is that.
LEMMA AboveUp ==
  ASSUME NEW k \in 1..31, NEW m \in 2..31, Above(k, m)
  PROVE  k = m \div 2 \/ Above(k, m \div 2)
BY DEF Above

\* And the way from a match goes on.
LEMMA AboveDown ==
  ASSUME NEW k \in 1..31, NEW m \in 2..31, Above(m, k)
  PROVE  Above(m \div 2, k)
BY DEF Above

\* Of two matches that feed one, neither is on the way of the other.
LEMMA Siblings ==
  ASSUME NEW k \in 1..31, NEW m \in 1..31, k # m, k \div 2 = m \div 2
  PROVE  ~Above(k, m)
BY DEF Above


-----------------------------------------------------------------------------
(* Steps that draw, mark or decide matches, each with the games that end.    *)

\* The games of gs are those there are, except that some have ended.
Ending(gs) ==
  /\ gs \in [Matches -> Games]
  /\ \A m \in Matches : gs[m] = game[m] \/ (~Live(gs[m]) /\ gs[m].status # "NONE" /\ game[m].status # "NONE")
  /\ \A m \in Matches : gs[m].status = "ERASED" => gs[m].winner = Nobody

\* The captains whose accounts go have no game left among gs.
GoesFrom(gs) ==
  \A c \in Captains, m \in Matches :
    account'[c] = "DELETED" /\ c \in Slots(m) /\ Live(gs[m]) => account[c] = "DELETED"

\* The games the abstract life of a game allows.
LEMMA GamesAre == Life(1)!Games = Games
BY DEF Life!Games, Life!Open, Life!Ended, Games, Entrants

\* The types, in the terms of this module.
LEMMA TypesAre ==
  ASSUME TypeOK
  PROVE  /\ match \in [Matches -> MatchRows]
         /\ tournament.size \in Nat /\ tournament.size <= MaxEntrants
         /\ game \in [Matches -> Games]
         /\ \A m \in Matches : game[m] \in Games /\ Slots(m) \subseteq Entrants
BY GamesAre, TournamentAssumption DEF TypeOK, MatchRows, Slots

\* No entrant is named nobody.
LEMMA Somebody == Nobody \notin Captains /\ Matches \subseteq Nat \ {0}
BY TournamentAssumption DEF Nobody, Matches

\* The matches of a bracket are numbered from one to thirty-one at most.
LEMMA FewMatches ==
  ASSUME Inv, NEW m \in Matches, match[m].status # "NONE"
  PROVE  m \in 1..31 /\ m < tournament.size /\ PowerOfTwo(tournament.size)
<1>1. tournament.size \in Nat /\ m \in Nat \ {0}
  BY TypesAre, Somebody DEF Inv
<1>2. m < tournament.size
  BY <1>1 DEF Inv, Core, Drawn
<1>3. PowerOfTwo(tournament.size)
  BY <1>1, <1>2 DEF Inv, Core, Drawn
<1> QED BY <1>1, <1>2, <1>3, Sizes

\* Only the first round has no matches before it.
LEMMA Feeders ==
  ASSUME Inv, NEW m \in Matches, match[m].status # "NONE", ~FirstRound(m)
  PROVE  \A k \in {2 * m, 2 * m + 1} : k \in Matches /\ match[k].status # "NONE"
<1> DEFINE n == tournament.size
<1>1. m \in 1..31 /\ m < n /\ PowerOfTwo(n) /\ n \in Nat /\ n <= MaxEntrants /\ MaxEntrants \in Nat
  BY FewMatches, TypesAre, TournamentAssumption DEF Inv
<1>2. n = 2 * (n \div 2) /\ n \div 2 \in Nat
  BY <1>1, Sizes
<1>3. 2 * m < n
  BY <1>1 DEF FirstRound
<1>4. 2 * m + 1 < n
  BY <1>1, <1>2, <1>3
<1>5. \A k \in {2 * m, 2 * m + 1} : k \in Matches /\ ~(k >= n)
  BY <1>1, <1>3, <1>4 DEF Matches
<1> QED BY <1>5 DEF Inv, Core, Drawn

\* Nothing changes but accounts, entrants and how far the tournament is.
LEMMA QuietKeeps ==
  ASSUME Inv, UNCHANGED match, tournament'.size = tournament.size, tournament'.champion = tournament.champion,
         tournament'.status \in {"NONE"} \cup Registering => tournament.status \in {"NONE"} \cup Registering,
         tournament'.status = "COMPLETED" => tournament.status = "COMPLETED",
         Ending(game'), GoesFrom(game')
  PROVE  Core'
<1> USE DEF Inv, Core
<1>1. Drawn'
  BY DEF Drawn, Ending, NoGame
<1>2. BracketSound'
  BY DEF BracketSound, FirstRound, Slots
<1>3. OneWay' /\ OneOpen'
  BY DEF OneWay, OneOpen, OpenMatches, Slots
<1>4. LiveGameIsOfMatch'
  BY DEF LiveGameIsOfMatch, Slots, Ending, Live
<1>5. WinnersAreLate'
  BY DEF WinnersAreLate, Ending, Live
<1>6. NobodyPlaysDeleted'
  <2> SUFFICES ASSUME NEW m \in Matches, Live(game'[m]), NEW c \in Slots(m), account'[c] = "DELETED" PROVE FALSE
    BY DEF NobodyPlaysDeleted, Slots
  <2>1. game'[m] = game[m]
    BY DEF Ending
  <2>2. c \in Captains
    BY <2>1, TypesAre DEF LiveGameIsOfMatch, Live, Entrants
  <2>3. account[c] = "DELETED"
    BY <2>2 DEF GoesFrom
  <2> QED BY <2>1, <2>3 DEF NobodyPlaysDeleted
<1> QED BY <1>1, <1>2, <1>3, <1>4, <1>5, <1>6

\* A match is marked as played or handed to moderation.
LEMMA MarkKeeps ==
  ASSUME Inv, NEW m \in Matches, match[m].status \in Undecided, NEW s \in {"ACTIVE", "REVIEW_REQUIRED"},
         match' = [match EXCEPT ![m].status = s], UNCHANGED tournament, Ending(game'), GoesFrom(game')
  PROVE  Core'
<1> USE DEF Inv, Core
<1>0. \A k \in Matches : /\ match'[k].first = match[k].first /\ match'[k].second = match[k].second
                          /\ match'[k].winner = match[k].winner
                          /\ k # m => match'[k] = match[k]
  BY TypesAre DEF MatchRows
<1>1. match'[m].status = s /\ s \in Undecided \ {"PENDING"} /\ s # "NONE" /\ match[m].status # "NONE"
  BY TypesAre DEF Undecided, MatchRows
<1>s. \A k \in Matches : Slots(k)' = Slots(k)
  BY <1>0 DEF Slots
<1>2. Drawn'
  BY <1>0, <1>1, FewMatches, TypesAre, Somebody DEF Drawn
<1>3. BracketSound'
  BY <1>0, <1>1, <1>s DEF BracketSound, FirstRound, Undecided, Decided, IsFinal
<1>4. OneWay'
  BY <1>s DEF OneWay
<1>5. OneOpen'
  <2>1. \A c \in Captains : OpenMatches(c)' = OpenMatches(c)
    BY <1>0, <1>1, <1>s DEF OpenMatches
  <2> QED BY <2>1 DEF OneOpen
<1>6. LiveGameIsOfMatch'
  BY <1>0, <1>1, <1>s DEF LiveGameIsOfMatch, Ending, Live
<1>7. WinnersAreLate'
  BY DEF WinnersAreLate, Ending, Live
<1>8. NobodyPlaysDeleted'
  <2> SUFFICES ASSUME NEW k \in Matches, Live(game'[k]), NEW c \in Slots(k), account'[c] = "DELETED" PROVE FALSE
    BY <1>s DEF NobodyPlaysDeleted
  <2>1. game'[k] = game[k]
    BY DEF Ending
  <2>2. c \in Captains
    BY <2>1, TypesAre DEF LiveGameIsOfMatch, Live, Entrants
  <2>3. account[c] = "DELETED"
    BY <2>2 DEF GoesFrom
  <2> QED BY <2>1, <2>3 DEF NobodyPlaysDeleted
<1> QED BY <1>2, <1>3, <1>4, <1>5, <1>6, <1>7, <1>8

\* cancelTournamentTx.
LEMMA CancelKeeps ==
  ASSUME Inv, CancelTournament, \A c \in Captains : account'[c] = account[c]
  PROVE  Core'
<1> USE DEF Inv, Core
<1>0. \A k \in Matches :
        /\ match'[k].first = match[k].first /\ match'[k].second = match[k].second
        /\ match'[k].winner = match[k].winner
        /\ match'[k].status = IF match[k].status \in Undecided THEN "CANCELLED" ELSE match[k].status
        /\ match[k].status \notin Undecided => match'[k] = match[k]
  BY TypesAre DEF CancelTournament, MatchRows
<1>s. \A k \in Matches : Slots(k)' = Slots(k)
  BY <1>0 DEF Slots
<1>t. tournament'.status = "CANCELLED" /\ tournament'.size = tournament.size /\ tournament'.champion = tournament.champion
  BY DEF CancelTournament, TypeOK
<1>g. \A k \in Matches : game'[k] = IF match[k].status \in Undecided THEN Ends(game[k]) ELSE game[k]
  BY DEF CancelTournament
<1>1. Drawn'
  <2>1. tournament.size = 0 => \A k \in Matches : match[k].status \notin Undecided
    BY FewMatches, Somebody DEF Drawn, Undecided
  <2> QED BY <2>1, <1>0, <1>t, <1>g DEF Drawn, Undecided, Registering
<1>2. BracketSound'
  <2>1. \A k \in Matches : match'[k].status # "NONE" => match[k].status # "NONE"
    BY <1>0 DEF Undecided
  <2>2. \A k \in Matches : match'[k].status \in Decided <=> match[k].status \in Decided
    BY <1>0 DEF Undecided, Decided
  <2>3. \A k \in Matches : FirstRound(k)' <=> FirstRound(k)
    BY <1>t DEF FirstRound
  <2>4. \A k \in Matches : match[k].status # "NONE" /\ ~FirstRound(k) => 2 * k \in Matches /\ 2 * k + 1 \in Matches
    BY Feeders
  <2>5. ASSUME NEW k \in Matches, match'[k].status # "NONE"
        PROVE  /\ match'[k].status \in Decided => match'[k].winner \in Slots(k)' \ {Nobody}
               /\ match'[k].status \notin Decided => match'[k].winner = Nobody
               /\ FirstRound(k)' => Nobody \notin Slots(k)' /\ match'[k].first # match'[k].second
    BY <1>0, <1>s, <2>1, <2>2, <2>3, <2>5 DEF BracketSound
  <2>6. ASSUME NEW k \in Matches, match'[k].status # "NONE", ~FirstRound(k)'
        PROVE  match'[k].first = match'[2 * k].winner /\ match'[k].second = match'[2 * k + 1].winner
    BY <1>0, <2>1, <2>3, <2>4, <2>6 DEF BracketSound
  <2>7. \A k \in Matches : IsFinal(k) => tournament'.champion = match'[k].winner
    BY <1>0, <1>t DEF BracketSound
  <2> QED BY <1>t, <2>5, <2>6, <2>7 DEF BracketSound, IsFinal
<1>3. OneWay'
  BY <1>s DEF OneWay
<1>4. OneOpen'
  BY <1>0, <1>s DEF OneOpen, OpenMatches, Undecided
<1>5. \A k \in Matches : Live(game'[k]) => game'[k] = game[k] /\ match[k].status \notin Undecided
  BY <1>g, TypesAre DEF Ends, Live, Games
<1>6. LiveGameIsOfMatch'
  BY <1>0, <1>s, <1>5 DEF LiveGameIsOfMatch, Live
<1>7. WinnersAreLate'
  BY <1>g, TypesAre DEF WinnersAreLate, Ends, Games
<1>8. NobodyPlaysDeleted'
  BY <1>s, <1>5, TypesAre DEF NobodyPlaysDeleted, LiveGameIsOfMatch, Live, Entrants
<1> QED BY <1>1, <1>2, <1>3, <1>4, <1>6, <1>7, <1>8

-----------------------------------------------------------------------------
(* A match is decided.                                                       *)

\* What advanceWinnerTx makes of the rows when w has won m, whose winner plays in n.
Advanced(m, w, end, gs, n) ==
  /\ w \in Captains /\ w \in Slots(m) /\ match[m].status \in Undecided
  /\ match'[m] = [match[m] EXCEPT !.status = end, !.winner = w]
  /\ match' \in [Matches -> MatchRows]
  /\ \A k \in Matches \ {m, n} : match'[k] = match[k]
  /\ m = 1 => /\ tournament' = [tournament EXCEPT !.status = "COMPLETED", !.champion = w]
              /\ game' = gs
  /\ m # 1 => /\ n \in Matches /\ n < m /\ n \in Nat /\ tournament' = tournament
              /\ match'[n].winner = match[n].winner
              /\ match'[n].first = (IF m = 2 * n THEN w ELSE match[n].first)
              /\ match'[n].second = (IF m = 2 * n THEN match[n].second ELSE w)
              /\ \/ match'[n].status = match[n].status /\ game' = gs
                 \/ /\ match[n].status = "PENDING" /\ match'[n].status = "WAITING"
                    /\ Nobody \notin Slots(n)' /\ game[n].status = "NONE"
                    /\ \A c \in Slots(n)' : account[c] = "OK"
                    /\ game' = [gs EXCEPT ![n].status = "WAITING"]

\* advanceWinnerTx makes that of them.
LEMMA AdvancedMatches ==
  ASSUME TypeOK, NEW m \in Matches, NEW w, NEW end \in Decided, NEW es, NEW gs, Advance(m, w, end, es, gs),
         NEW n, n = m \div 2
  PROVE  Advanced(m, w, end, gs, n)
<1>1. match \in [Matches -> MatchRows] /\ m \in Nat \ {0}
  BY TypesAre, Somebody
<1>2. w \in Captains /\ w \in Slots(m) /\ match[m].status \in Undecided
  BY <1>1 DEF Advance, Slots, MatchRows, Entrants
<1> DEFINE decided == [match EXCEPT ![m] = [@ EXCEPT !.status = end, !.winner = w]]
<1>3. decided \in [Matches -> MatchRows] /\ decided[m] = [match[m] EXCEPT !.status = end, !.winner = w]
      /\ \A k \in Matches \ {m} : decided[k] = match[k]
  BY <1>1, <1>2 DEF MatchRows, Entrants
<1>4. CASE m = 1
  <2>1. Filled(m, w, end) = decided
    BY <1>4 DEF Filled, IsFinal
  <2>2. match' = decided /\ game' = gs /\ tournament' = [tournament EXCEPT !.status = "COMPLETED", !.champion = w]
    BY <1>4, <2>1 DEF Advance, IsFinal, Opens
  <2> QED BY <1>2, <1>3, <1>4, <2>2 DEF Advanced
<1>5. CASE m # 1
  <2>1. /\ n \in Nat /\ n >= 1 /\ n < m
        /\ m % 2 = 0 => m = 2 * n
        /\ m % 2 # 0 => m = 2 * n + 1
    BY <1>1, <1>5, Next2
  <2>2. n \in Matches /\ n # m
    BY <2>1, <1>1, TournamentAssumption DEF Matches
  <2> DEFINE ms == Filled(m, w, end)
  <2>3. ms = IF m % 2 = 0 THEN [decided EXCEPT ![n].first = w] ELSE [decided EXCEPT ![n].second = w]
    BY <1>5 DEF Filled, IsFinal
  <2> HIDE DEF decided
  <2>4. /\ ms \in [Matches -> MatchRows] /\ ms[m] = decided[m]
        /\ \A k \in Matches \ {m, n} : ms[k] = match[k]
        /\ ms[n].winner = match[n].winner /\ ms[n].status = match[n].status
        /\ ms[n].first = (IF m = 2 * n THEN w ELSE match[n].first)
        /\ ms[n].second = (IF m = 2 * n THEN match[n].second ELSE w)
    <3>1. CASE m % 2 = 0
      <4>1. ms = [decided EXCEPT ![n].first = w]
        BY <2>3, <3>1
      <4> HIDE DEF ms
      <4> QED BY <3>1, <4>1, <2>1, <2>2, <1>2, <1>3 DEF MatchRows, Entrants
    <3>2. CASE m % 2 # 0
      <4>1. ms = [decided EXCEPT ![n].second = w] /\ m # 2 * n
        BY <2>3, <3>2, <2>1
      <4> HIDE DEF ms
      <4> QED BY <3>2, <4>1, <2>1, <2>2, <1>2, <1>3 DEF MatchRows, Entrants
    <3> QED BY <3>1, <3>2
  <2> HIDE DEF ms
  <2>5. /\ Opens(ms, n) => CanPlay(ms, n)
        /\ match' = IF Opens(ms, n) THEN [ms EXCEPT ![n].status = "WAITING"] ELSE ms
        /\ game' = IF Opens(ms, n) THEN [gs EXCEPT ![n].status = "WAITING"] ELSE gs
        /\ tournament' = tournament
    BY <1>5, <2>1 DEF Advance, IsFinal, ms
  <2>6. CASE ~Opens(ms, n)
    <3>1. match' = ms /\ game' = gs
      BY <2>5, <2>6
    <3> QED BY <1>2, <1>3, <1>5, <2>1, <2>2, <2>4, <2>5, <3>1 DEF Advanced
  <2>7. CASE Opens(ms, n)
    <3>1. match' = [ms EXCEPT ![n].status = "WAITING"] /\ game' = [gs EXCEPT ![n].status = "WAITING"]
      BY <2>5, <2>7
    <3>2. /\ match' \in [Matches -> MatchRows]
          /\ match'[n].first = ms[n].first /\ match'[n].second = ms[n].second /\ match'[n].winner = ms[n].winner
          /\ match'[n].status = "WAITING" /\ \A k \in Matches \ {n} : match'[k] = ms[k]
      BY <3>1, <2>2, <2>4 DEF MatchRows, Undecided
    <3>3. match[n].status = "PENDING" /\ game[n].status = "NONE" /\ ms[n].first # Nobody /\ ms[n].second # Nobody
          /\ account[ms[n].first] = "OK" /\ account[ms[n].second] = "OK"
      BY <2>4, <2>5, <2>7 DEF Opens, CanPlay, Available
    <3>4. Nobody \notin Slots(n)' /\ \A c \in Slots(n)' : account[c] = "OK"
      BY <3>2, <3>3 DEF Slots
    <3> QED BY <1>2, <1>3, <1>5, <2>1, <2>2, <2>4, <2>5, <3>1, <3>2, <3>3, <3>4 DEF Advanced
  <2> QED BY <2>6, <2>7
<1> QED BY <1>4, <1>5

\* Deciding a match keeps everything, whatever ends with it; an account that goes
\* with it is of the entrant who lost.
LEMMA AdvanceKeeps ==
  ASSUME Inv, NEW m \in Matches, NEW w, NEW end \in Decided, NEW es, NEW gs, Advance(m, w, end, es, gs),
         Ending(gs), end = "FORFEIT" => ~Live(gs[m]),
         GoesFrom(gs),
         \A c \in Captains : account'[c] = "DELETED" /\ account[c] # "DELETED" => c # w /\ c \in Slots(m)
  PROVE  Core'
<1>p. PICK n : n = m \div 2
  OBVIOUS
<1>a. Advanced(m, w, end, gs, n)
  <2>1. TypeOK
    BY DEF Inv
  <2> QED BY <1>p, <2>1, AdvancedMatches
<1> USE DEF Advanced
<1>b. match[m].status # "NONE" /\ m \in 1..31 /\ m < tournament.size /\ tournament.size \in Nat /\ tournament.size # 0
  BY <1>a, FewMatches, TypesAre DEF Inv, Undecided
<1>c. m # 1 => m \in 2..31 /\ n \in 1..31 /\ (m = 2 * n \/ m = 2 * n + 1)
  <2>1. ASSUME m # 1 PROVE m \in 2..31 /\ n \in 1..31 /\ (m = 2 * n \/ m = 2 * n + 1)
    BY <1>b, <1>p, <2>1, Next2
  <2> QED BY <2>1
<1>d. match \in [Matches -> MatchRows] /\ match'[m].first = match[m].first /\ match'[m].second = match[m].second
      /\ match'[m].winner = w /\ match'[m].status = end
  BY <1>a, TypesAre DEF Inv, MatchRows
<1>e. tournament'.size = tournament.size
  BY <1>a DEF Inv, TypeOK
<1>u. m = 1 => tournament'.champion = w
  BY <1>a DEF Inv, TypeOK
<1>z. m # 1 => Above(n, m)
  BY <1>c DEF Above
<1>0. Nobody \notin Captains /\ Matches \subseteq Nat \ {0}
  BY Somebody
<1>f. m # 1 => /\ match[n].status # "NONE" /\ ~FirstRound(n)
               /\ match[n].first = match[2 * n].winner /\ match[n].second = match[2 * n + 1].winner
               /\ 2 * n \in Matches /\ 2 * n + 1 \in Matches
               /\ match[2 * n].status # "NONE" /\ match[2 * n + 1].status # "NONE"
  <2>1. ASSUME m # 1 PROVE match[n].status # "NONE" /\ ~FirstRound(n)
    BY <1>a, <1>b, <1>c, <2>1 DEF Inv, Core, Drawn, FirstRound
  <2>2. ASSUME m # 1 PROVE match[n].first = match[2 * n].winner /\ match[n].second = match[2 * n + 1].winner
    BY <1>a, <2>1, <2>2 DEF Inv, Core, BracketSound
  <2>3. ASSUME m # 1 PROVE \A k \in {2 * n, 2 * n + 1} : k \in Matches /\ match[k].status # "NONE"
    BY <1>a, <2>1, <2>3, Feeders
  <2> QED BY <2>1, <2>2, <2>3
<1>g. match[m].winner = Nobody
  BY <1>a, <1>b DEF Inv, Core, BracketSound, Undecided, Decided
<1>h. m # 1 => Nobody \in Slots(n) /\ (\A c \in Slots(n) \ {Nobody} : c \in Slots(n)') /\ Slots(n)' \subseteq Slots(n) \cup {w}
  BY <1>a, <1>c, <1>f, <1>g DEF Slots
<1>s. \A k \in Matches \ {n} : Slots(k)' = Slots(k)
  BY <1>a, <1>d DEF Slots
<1>n. m = 1 => n \notin Matches
  BY <1>0, <1>p
<1>t. \A k \in Matches : match'[k].status = "NONE" <=> match[k].status = "NONE"
  <2>1. CASE m = 1
    BY <2>1, <1>0, <1>a, <1>b, <1>d, <1>n DEF Decided
  <2>2. CASE m # 1
    BY <2>2, <1>a, <1>b, <1>d DEF Decided
  <2> QED BY <2>1, <2>2
<1>1. Drawn'
  <2>1. tournament'.status \in {"NONE"} \cup Registering => tournament'.size = 0
    BY <1>a, <1>e DEF Inv, Core, Drawn, Registering, TypeOK
  <2>2. \A k \in Matches : match'[k].status = "NONE" => match'[k] = NoMatch
    BY <1>a, <1>b, <1>f, <1>t, <1>n DEF Inv, Core, Drawn
  <2> QED BY <1>b, <1>e, <1>t, <2>1, <2>2 DEF Inv, Core, Drawn
<1>2. BracketSound'
  <2>1. ASSUME NEW k \in Matches, match'[k].status # "NONE"
        PROVE  /\ match'[k].status \in Decided => match'[k].winner \in Slots(k)' \ {Nobody}
               /\ match'[k].status \notin Decided => match'[k].winner = Nobody
    <3>1. CASE k = m
      BY <3>1, <1>0, <1>a, <1>c, <1>d, <1>s, <1>n
    <3>2. CASE k # m /\ k = n
      BY <3>2, <1>n, <1>a, <1>f, <1>h DEF Inv, Core, BracketSound, Decided
    <3>3. CASE k # m /\ k # n
      BY <3>3, <1>a, <1>s, <2>1 DEF Inv, Core, BracketSound
    <3> QED BY <3>1, <3>2, <3>3
  <2>2. ASSUME NEW k \in Matches, match'[k].status # "NONE", FirstRound(k)'
        PROVE  Nobody \notin Slots(k)' /\ match'[k].first # match'[k].second
    <3>1. FirstRound(k) /\ k # n
      BY <2>2, <1>e, <1>f, <1>n DEF FirstRound
    <3>2. Nobody \notin Slots(k) /\ match[k].first # match[k].second
      BY <3>1, <2>2, <1>t DEF Inv, Core, BracketSound
    <3> QED BY <3>1, <3>2, <1>s, <1>a, <1>d
  <2>3. ASSUME NEW k \in Matches, match'[k].status # "NONE", ~FirstRound(k)'
        PROVE  match'[k].first = match'[2 * k].winner /\ match'[k].second = match'[2 * k + 1].winner
    <3>1. ~FirstRound(k) /\ match[k].status # "NONE"
      BY <2>3, <1>e, <1>t DEF FirstRound
    <3>2. 2 * k \in Matches /\ 2 * k + 1 \in Matches
      BY <3>1, Feeders
    <3>3. match[k].first = match[2 * k].winner /\ match[k].second = match[2 * k + 1].winner
      BY <3>1 DEF Inv, Core, BracketSound
    <3>4. \A j \in Matches \ {m} : match'[j].winner = match[j].winner
      BY <1>a, <1>n
    <3>5. CASE k = n
      <4>1. m # 1
        BY <3>5, <1>n
      <4>2. CASE m = 2 * n
        BY <4>1, <4>2, <3>2, <3>3, <3>4, <3>5, <1>a, <1>c, <1>d
      <4>3. CASE m = 2 * n + 1
        BY <4>1, <4>3, <3>2, <3>3, <3>4, <3>5, <1>a, <1>c, <1>d
      <4> QED BY <4>1, <4>2, <4>3, <1>c
    <3>6. CASE k # n
      <4>1. 2 * k # m /\ 2 * k + 1 # m
        BY <3>6, <1>0, <1>b, <1>p
      <4>2. match'[k].first = match[k].first /\ match'[k].second = match[k].second
        BY <3>6, <1>a, <1>d
      <4> QED BY <4>1, <4>2, <3>2, <3>3, <3>4
    <3> QED BY <3>5, <3>6
  <2>4. \A k \in Matches : IsFinal(k) => tournament'.champion = match'[k].winner
    <3>1. CASE m = 1
      BY <3>1, <1>u, <1>d DEF IsFinal
    <3>2. CASE m # 1
      BY <3>2, <1>a DEF IsFinal, Inv, Core, BracketSound
    <3> QED BY <3>1, <3>2
  <2>5. tournament'.status = "COMPLETED" => tournament'.champion # Nobody
    <3>1. CASE m = 1
      BY <3>1, <1>0, <1>a, <1>u
    <3>2. CASE m # 1
      BY <3>2, <1>a DEF Inv, Core, BracketSound
    <3> QED BY <3>1, <3>2
  <2> QED BY <2>1, <2>2, <2>3, <2>4, <2>5 DEF BracketSound
<1>w. \A k \in Matches, c \in Captains : c \in Slots(k) => match[k].status # "NONE" /\ k \in 1..31
  <2> SUFFICES ASSUME NEW k \in Matches, NEW c \in Captains, c \in Slots(k) PROVE match[k].status # "NONE" /\ k \in 1..31
    OBVIOUS
  <2>1. match[k].status # "NONE"
    BY <1>0 DEF Inv, Core, Drawn, NoMatch, Slots
  <2> QED BY <2>1, FewMatches
<1>3. OneWay'
  <2>1. ASSUME m # 1, NEW b \in Matches, w \in Slots(b) PROVE n = b \/ Above(n, b) \/ Above(b, n)
    <3>1. b \in 1..31
      BY <1>a, <1>w, <2>1
    <3>2. m = b \/ Above(m, b) \/ Above(b, m)
      BY <1>a, <2>1 DEF Inv, Core, OneWay
    <3>3. CASE m = b
      BY <3>3, <1>z, <2>1
    <3>4. CASE Above(m, b)
      BY <3>1, <3>4, <1>c, <2>1, <1>p, AboveDown
    <3>5. CASE Above(b, m)
      BY <3>1, <3>5, <1>c, <2>1, <1>p, AboveUp
    <3> QED BY <3>2, <3>3, <3>4, <3>5
  <2>2. ASSUME NEW a \in Matches, NEW b \in Matches, NEW c \in Captains, c \in Slots(a)', c \in Slots(b)'
        PROVE  a = b \/ Above(a, b) \/ Above(b, a)
    <3>1. CASE c \in Slots(a) /\ c \in Slots(b)
      BY <3>1 DEF Inv, Core, OneWay
    <3>2. CASE c \notin Slots(a)
      BY <3>2, <2>2, <2>1, <1>s, <1>h, <1>n
    <3>3. CASE c \notin Slots(b)
      BY <3>3, <2>2, <2>1, <1>s, <1>h, <1>n
    <3> QED BY <3>1, <3>2, <3>3
  <2> QED BY <2>2 DEF OneWay
<1>4. OneOpen'
  <2> SUFFICES ASSUME NEW c \in Captains, NEW a \in Matches, NEW b \in Matches, c \in Slots(a)', c \in Slots(b)',
                      match'[a].status \in Undecided, match'[b].status \in Undecided, a # b
               PROVE  FALSE
    BY DEF OneOpen, OpenMatches
  <2>1. a # m /\ b # m
    BY <1>d DEF Undecided, Decided
  <2>2. \A k \in Matches \ {m} : match'[k].status \in Undecided => match[k].status \in Undecided
    BY <1>a, <1>n DEF Undecided
  <2>3. match[a].status \in Undecided /\ match[b].status \in Undecided
    BY <2>1, <2>2
  <2>4. CASE c \in Slots(a) /\ c \in Slots(b)
    BY <2>3, <2>4 DEF Inv, Core, OneOpen, OpenMatches
  <2>5. CASE c \notin Slots(a)
    <3>1. a = n /\ c = w /\ b # n
      BY <2>5, <1>s, <1>h, <1>n
    <3>2. b \in OpenMatches(w) /\ m \in OpenMatches(w)
      BY <3>1, <2>3, <1>s, <1>a DEF OpenMatches
    <3> QED BY <3>2, <2>1, <1>a DEF Inv, Core, OneOpen
  <2>6. CASE c \notin Slots(b)
    <3>1. b = n /\ c = w /\ a # n
      BY <2>6, <1>s, <1>h, <1>n
    <3>2. a \in OpenMatches(w) /\ m \in OpenMatches(w)
      BY <3>1, <2>3, <1>s, <1>a DEF OpenMatches
    <3> QED BY <3>2, <2>1, <1>a DEF Inv, Core, OneOpen
  <2> QED BY <2>4, <2>5, <2>6
<1>o. \A k \in Matches : \/ game'[k] = gs[k] /\ (Live(gs[k]) => k # n)
                       \/ /\ k = n /\ m # 1 /\ match'[n].status = "WAITING" /\ Nobody \notin Slots(n)'
                          /\ game[n].status = "NONE" /\ (\A c \in Slots(n)' : account[c] = "OK")
                          /\ game'[n].winner = Nobody /\ game'[n].status = "WAITING"
  <2>1. ~Live(gs[n]) \/ m = 1
    BY <1>a, <1>h DEF Inv, Core, LiveGameIsOfMatch, Ending, Live
  <2>2. CASE game' = gs
    BY <2>1, <2>2, <1>n
  <2>3. CASE game' # gs
    <3>1. /\ m # 1 /\ match'[n].status = "WAITING" /\ Nobody \notin Slots(n)' /\ game[n].status = "NONE"
          /\ n \in Matches /\ game' = [gs EXCEPT ![n].status = "WAITING"] /\ (\A c \in Slots(n)' : account[c] = "OK")
      BY <2>3, <1>a
    <3>2. gs[n] = game[n] /\ gs[n] \in Games /\ gs[n].winner = Nobody /\ gs \in [Matches -> Games]
      BY <3>1 DEF Ending, Inv, Core, WinnersAreLate
    <3>3. game'[n].status = "WAITING" /\ game'[n].winner = Nobody /\ \A k \in Matches \ {n} : game'[k] = gs[k]
      BY <3>1, <3>2 DEF Games
    <3> QED BY <3>1, <3>3
  <2> QED BY <2>2, <2>3
<1>5. LiveGameIsOfMatch'
  <2> SUFFICES ASSUME NEW k \in Matches, Live(game'[k])
               PROVE  match'[k].status \in (Undecided \ {"PENDING"}) \cup {"COMPLETED"} /\ Nobody \notin Slots(k)'
    BY DEF LiveGameIsOfMatch, Live
  <2>1. CASE k = n /\ match'[n].status = "WAITING" /\ Nobody \notin Slots(n)'
    BY <2>1 DEF Undecided
  <2>2. CASE game'[k] = gs[k] /\ k # n
    <3>1. game[k] = gs[k] /\ match[k].status \in (Undecided \ {"PENDING"}) \cup {"COMPLETED"} /\ Nobody \notin Slots(k)
      BY <2>2 DEF Ending, Live, Inv, Core, LiveGameIsOfMatch
    <3>2. CASE k = m
      BY <2>2, <3>1, <3>2, <1>d, <1>s DEF Decided
    <3>3. CASE k # m
      BY <2>2, <3>1, <3>3, <1>a, <1>s
    <3> QED BY <3>2, <3>3
  <2> QED BY <1>o, <2>1, <2>2
<1>6. WinnersAreLate'
  <2> SUFFICES ASSUME NEW k \in Matches, game'[k].status \in {"NONE", "WAITING", "ACTIVE", "ERASED"} PROVE game'[k].winner = Nobody
    BY DEF WinnersAreLate
  <2>1. CASE game'[k] = gs[k]
    BY <2>1 DEF Ending, Live, Inv, Core, WinnersAreLate
  <2> QED BY <1>o, <2>1
<1>7. NobodyPlaysDeleted'
  <2> SUFFICES ASSUME NEW k \in Matches, Live(game'[k]), NEW c, c \in Slots(k)', account'[c] = "DELETED" PROVE FALSE
    BY DEF NobodyPlaysDeleted
  <2>1. c \in Captains
    BY <1>5, <1>a DEF LiveGameIsOfMatch, Live, Slots, MatchRows, Entrants
  <2>2. CASE game'[k] = gs[k] /\ k # n
    <3>1. game[k] = gs[k] /\ c \in Slots(k)
      BY <2>2, <1>s DEF Ending
    <3>2. account[c] = "DELETED"
      BY <2>1, <2>2, <3>1 DEF GoesFrom
    <3> QED BY <2>2, <3>1, <3>2 DEF Inv, Core, NobodyPlaysDeleted
  <2>3. CASE k = n /\ m # 1 /\ \A d \in Slots(n)' : account[d] = "OK"
    <3>1. c # w /\ c \in Slots(m)
      BY <2>1, <2>3
    <3>2. \E s \in {2 * n, 2 * n + 1} : s # m /\ c = match[s].winner
      BY <3>1, <2>3, <1>a, <1>c, <1>f DEF Slots
    <3>3. PICK s \in {2 * n, 2 * n + 1} : s # m /\ c = match[s].winner
      BY <3>2
    <3>4. s \in Matches /\ match[s].status # "NONE"
      BY <2>3, <1>f
    <3>5. c \in Slots(s)
      BY <3>3, <3>4, <2>1, <1>0 DEF Inv, Core, BracketSound
    <3>6. m = s \/ Above(m, s) \/ Above(s, m)
      BY <3>1, <3>4, <3>5, <2>1 DEF Inv, Core, OneWay
    <3>7. s \in 1..31 /\ s \div 2 = n /\ m \div 2 = n
      BY <3>4, <3>5, <2>1, <2>3, <1>c, <1>p, <1>w
    <3> QED BY <3>3, <3>6, <3>7, <1>b, Siblings
  <2> QED BY <1>o, <2>2, <2>3
<1> QED BY <1>1, <1>2, <1>3, <1>4, <1>5, <1>6, <1>7 DEF Core

-----------------------------------------------------------------------------
(* The bracket is drawn, and games are played.                               *)

\* What start writes for n entrants in the order seeded.
Draws(n, seeded) ==
  /\ PowerOfTwo(n) /\ n <= MaxEntrants
  /\ \A i, j \in 1..n : i < j => seeded[i] < seeded[j]
  /\ match' = Bracket(n, seeded)
  /\ \A m \in Matches : n \div 2 <= m /\ m < n => CanPlay(match', m)
  /\ game' = [m \in Matches |-> IF n \div 2 <= m /\ m < n THEN [game[m] EXCEPT !.status = "WAITING"] ELSE game[m]]
  /\ tournament' = [tournament EXCEPT !.status = "ACTIVE", !.size = n, !.closed = TRUE]
  /\ UNCHANGED account

\* The rows start draws.
LEMMA StartRows ==
  ASSUME Inv, start
  PROVE  \E n \in Nat : \E seeded \in [1..n -> Captains] : Draws(n, seeded)
<1> DEFINE ready == InState({"READY"})
           n == Cardinality(ready)
<1>1. ready \subseteq Captains /\ IsFiniteSet(Captains)
  BY TournamentAssumption DEF InState
<1>2. n \in Nat /\ n <= MaxEntrants
  <2>1. IsFiniteSet(ready) /\ n <= Cardinality(Captains)
    BY <1>1, FS_Subset
  <2> QED BY <2>1, <1>1, FS_CardinalityType, TournamentAssumption
<1>3. PICK seeded \in Seedings(ready) : match' = Bracket(n, seeded)
  BY DEF start
<1>4. seeded \in [1..n -> Captains] /\ \A i, j \in 1..n : i < j => seeded[i] < seeded[j]
  BY <1>1, <1>3 DEF Seedings
<1>5. /\ PowerOfTwo(n)
      /\ \A m \in Matches : n \div 2 <= m /\ m < n => CanPlay(match', m)
      /\ game' = [m \in Matches |-> IF n \div 2 <= m /\ m < n THEN [game[m] EXCEPT !.status = "WAITING"] ELSE game[m]]
      /\ tournament' = [tournament EXCEPT !.status = "ACTIVE", !.size = n, !.closed = TRUE]
      /\ UNCHANGED account
  BY DEF start
<1>6. Draws(n, seeded)
  BY <1>2, <1>3, <1>4, <1>5 DEF Draws
<1> QED BY <1>2, <1>4, <1>6

\* A bracket of n entrants, half as many first matches, and every entrant in one of them.
WellDrawn(ms, n, half) ==
  /\ ms \in [Matches -> MatchRows]
  /\ \A m \in Matches : m >= n => ms[m] = NoMatch
  /\ \A m \in Matches : m < half => ms[m] = [NoMatch EXCEPT !.status = "PENDING"]
  /\ \A m \in Matches : half <= m /\ m < n =>
       /\ ms[m].status = "WAITING" /\ ms[m].winner = Nobody
       /\ ms[m].first \in Captains /\ ms[m].second \in Captains
       /\ ms[m].first # ms[m].second
  /\ \A k, m \in Matches : \A c \in Captains :
       c \in {ms[m].first, ms[m].second} /\ c \in {ms[k].first, ms[k].second} => k = m

\* The entrants of the first round are all different.
LEMMA BracketRows ==
  ASSUME NEW n \in Nat, PowerOfTwo(n), n <= MaxEntrants, NEW seeded \in [1..n -> Captains],
         \A i, j \in 1..n : i < j => seeded[i] < seeded[j]
  PROVE  WellDrawn(Bracket(n, seeded), n, n \div 2)
<1> DEFINE ms == Bracket(n, seeded)
           half == n \div 2
<1>1. half \in 1..16 /\ n = 2 * half
  BY Sizes
<1> HIDE DEF half
<1>2. \A i, j \in 1..n : i # j => seeded[i] # seeded[j]
  <2> SUFFICES ASSUME NEW i \in 1..n, NEW j \in 1..n, i # j, seeded[i] = seeded[j] PROVE FALSE
    OBVIOUS
  <2>1. seeded[i] \in Nat
    BY TournamentAssumption
  <2>2. i < j \/ j < i
    OBVIOUS
  <2> QED BY <2>1, <2>2
<1>3. Matches \subseteq Nat \ {0}
  BY Somebody
<1>4. ms = [m \in Matches |->
        IF m >= n THEN NoMatch
        ELSE IF m < half THEN [NoMatch EXCEPT !.status = "PENDING"]
        ELSE [NoMatch EXCEPT !.first = seeded[2 * (m - half) + 1], !.second = seeded[2 * (m - half) + 2],
                             !.status = "WAITING"]]
  BY DEF Bracket, half
<1> HIDE DEF ms
<1>5. \A m \in Matches : m >= n => ms[m] = NoMatch
  BY <1>4
<1>6. \A m \in Matches : m < half => ms[m] = [NoMatch EXCEPT !.status = "PENDING"]
  <2> SUFFICES ASSUME NEW m \in Matches, m < half PROVE ms[m] = [NoMatch EXCEPT !.status = "PENDING"]
    OBVIOUS
  <2>1. ~(m >= n)
    BY <1>1, <1>3
  <2> QED BY <2>1, <1>4
<1> DEFINE one(m) == 2 * (m - half) + 1
           two(m) == 2 * (m - half) + 2
<1>o. \A m \in Matches : half <= m /\ m < n => one(m) \in 1..n /\ two(m) \in 1..n /\ one(m) # two(m)
  BY <1>1, <1>3
<1>q. \A k, m \in Matches : (one(m) = one(k) \/ two(m) = two(k) => m = k) /\ one(m) # two(k)
  BY <1>1, <1>3
<1>r. ms = [m \in Matches |->
        IF m >= n THEN NoMatch
        ELSE IF m < half THEN [NoMatch EXCEPT !.status = "PENDING"]
        ELSE [NoMatch EXCEPT !.first = seeded[one(m)], !.second = seeded[two(m)], !.status = "WAITING"]]
  BY <1>4
<1> HIDE DEF one, two
<1>7. \A m \in Matches : half <= m /\ m < n =>
        ms[m] = [first |-> seeded[one(m)], second |-> seeded[two(m)], winner |-> Nobody, status |-> "WAITING"]
  <2> SUFFICES ASSUME NEW m \in Matches, half <= m, m < n
               PROVE  ms[m] = [first |-> seeded[one(m)], second |-> seeded[two(m)],
                               winner |-> Nobody, status |-> "WAITING"]
    OBVIOUS
  <2>1. ~(m >= n) /\ ~(m < half)
    BY <1>1, <1>3
  <2>2. ms[m] = [NoMatch EXCEPT !.first = seeded[one(m)], !.second = seeded[two(m)], !.status = "WAITING"]
    BY <1>r, <2>1
  <2> QED BY <2>2 DEF NoMatch
<1>8. \A m \in Matches : half <= m /\ m < n =>
        /\ ms[m].status = "WAITING" /\ ms[m].winner = Nobody
        /\ ms[m].first \in Captains /\ ms[m].second \in Captains
        /\ ms[m].first # ms[m].second
        /\ ms[m].first = seeded[one(m)] /\ ms[m].second = seeded[two(m)]
  <2> SUFFICES ASSUME NEW m \in Matches, half <= m, m < n
               PROVE  /\ ms[m].status = "WAITING" /\ ms[m].winner = Nobody
                      /\ ms[m].first \in Captains /\ ms[m].second \in Captains
                      /\ ms[m].first # ms[m].second
                      /\ ms[m].first = seeded[one(m)] /\ ms[m].second = seeded[two(m)]
    OBVIOUS
  <2>1. ms[m] = [first |-> seeded[one(m)], second |-> seeded[two(m)], winner |-> Nobody, status |-> "WAITING"]
    BY <1>7
  <2>2. one(m) \in 1..n /\ two(m) \in 1..n /\ one(m) # two(m)
    BY <1>o
  <2>3. ms[m].status = "WAITING" /\ ms[m].winner = Nobody /\ ms[m].first = seeded[one(m)] /\ ms[m].second = seeded[two(m)]
    BY <2>1
  <2> QED BY <2>2, <2>3, <1>2
<1>9. ms \in [Matches -> MatchRows]
  <2>1. \A m \in Matches : ms[m] \in MatchRows
    <3> SUFFICES ASSUME NEW m \in Matches PROVE ms[m] \in MatchRows
      OBVIOUS
    <3>1. CASE m >= n
      BY <3>1, <1>5 DEF NoMatch, MatchRows, Entrants
    <3>2. CASE m < half
      BY <3>2, <1>6 DEF NoMatch, MatchRows, Entrants, Undecided
    <3>3. CASE half <= m /\ m < n
      <4>1. ms[m] = [first |-> seeded[one(m)], second |-> seeded[two(m)], winner |-> Nobody, status |-> "WAITING"]
        BY <1>7, <3>3
      <4>2. seeded[one(m)] \in Captains /\ seeded[two(m)] \in Captains
        BY <1>o, <3>3
      <4> QED BY <4>1, <4>2 DEF MatchRows, Entrants, Undecided
    <3> QED BY <3>1, <3>2, <3>3, <1>1, <1>3
  <2> QED BY <2>1, <1>4
<1>10. ASSUME NEW k \in Matches, NEW m \in Matches, NEW c \in Captains,
              c \in {ms[m].first, ms[m].second}, c \in {ms[k].first, ms[k].second}
       PROVE  k = m
  <2>1. half <= m /\ m < n /\ half <= k /\ k < n
    BY <1>1, <1>3, <1>5, <1>6, <1>10, Somebody DEF NoMatch
  <2>2. /\ c = seeded[one(m)] \/ c = seeded[two(m)]
        /\ c = seeded[one(k)] \/ c = seeded[two(k)]
    BY <2>1, <1>8, <1>10
  <2> QED BY <2>1, <2>2, <1>2, <1>o, <1>q
<1>11. WellDrawn(ms, n, half)
  BY <1>5, <1>6, <1>8, <1>9, <1>10 DEF WellDrawn
<1> QED BY <1>11 DEF ms, half

\* Nothing of the bracket was there before start.
LEMMA Undrawn ==
  ASSUME Inv, tournament.status \in {"NONE"} \cup Registering
  PROVE  tournament.size = 0 /\ \A m \in Matches : match[m] = NoMatch /\ game[m] = NoGame
<1>1. tournament.size = 0
  BY DEF Inv, Core, Drawn
<1>2. \A m \in Matches : m >= tournament.size
  BY <1>1, Somebody
<1> QED BY <1>1, <1>2 DEF Inv, Core, Drawn

\* The bracket is drawn as the rest needs it.
LEMMA StartKeeps == ASSUME Inv, start PROVE Core' /\ match' \in [Matches -> MatchRows]
<1>n. PICK n \in Nat : \E seeded \in [1..n -> Captains] : Draws(n, seeded)
  BY StartRows
<1>1. PICK seeded \in [1..n -> Captains] : Draws(n, seeded)
  BY <1>n
<1> USE DEF Draws
<1>2. PICK half \in 1..16 : half = n \div 2 /\ n = 2 * half
  BY <1>1, Sizes
<1>3. WellDrawn(match', n, half)
  BY <1>1, <1>2, BracketRows
<1>a. match' \in [Matches -> MatchRows]
  BY <1>3 DEF WellDrawn
<1>b. \A m \in Matches : m \in Nat \ {0} /\ (m >= n \/ m < half \/ (half <= m /\ m < n))
                          /\ (m >= n => ~(m < half)) /\ (half <= m => ~(m < half)) /\ (m < n => ~(m >= n))
  BY <1>2, Somebody
<1>c. ASSUME NEW m \in Matches, m >= n PROVE match'[m] = NoMatch
  BY <1>3, <1>c DEF WellDrawn
<1>d. ASSUME NEW m \in Matches, m < half
      PROVE  match'[m].status = "PENDING" /\ match'[m].winner = Nobody /\ match'[m].first = Nobody /\ match'[m].second = Nobody
  <2>1. match'[m] = [NoMatch EXCEPT !.status = "PENDING"]
    BY <1>3, <1>d DEF WellDrawn
  <2> QED BY <2>1 DEF NoMatch
<1>e. ASSUME NEW m \in Matches, half <= m, m < n
      PROVE  /\ match'[m].status = "WAITING" /\ match'[m].winner = Nobody
             /\ match'[m].first \in Captains /\ match'[m].second \in Captains
             /\ match'[m].first # match'[m].second
  BY <1>3, <1>e DEF WellDrawn
<1>f. \A m \in Matches : /\ match'[m].status \in {"NONE", "PENDING", "WAITING"} /\ match'[m].winner = Nobody
                         /\ match'[m].status = "NONE" <=> m >= n
                         /\ match'[m].status = "WAITING" <=> half <= m /\ m < n
  BY <1>b, <1>c, <1>d, <1>e DEF NoMatch
<1>4. tournament.status = "REGISTRATION_OPEN" /\ tournament.champion \in Entrants
  BY DEF start, Inv, TypeOK
<1>5. tournament.size = 0 /\ \A m \in Matches : match[m] = NoMatch /\ game[m] = NoGame
  BY <1>4, Undrawn DEF Registering
<1>6. tournament'.status = "ACTIVE" /\ tournament'.size = n /\ tournament'.champion = tournament.champion
  BY <1>1 DEF Inv, TypeOK
<1>8. \A m \in Matches : game'[m] = IF half <= m /\ m < n THEN [status |-> "WAITING", winner |-> Nobody] ELSE NoGame
  <2>1. \A m \in Matches : game'[m] = IF half <= m /\ m < n THEN [game[m] EXCEPT !.status = "WAITING"] ELSE game[m]
    BY <1>1, <1>2
  <2> QED BY <2>1, <1>5 DEF NoGame
<1>9. Drawn'
  <2>1. \A m \in Matches : match'[m].status = "NONE" <=> m >= n
    BY <1>f
  <2>2. \A m \in Matches : match'[m].status = "NONE" => match'[m] = NoMatch
    BY <1>c, <2>1
  <2>3. n # 0
    BY <1>2
  <2> QED BY <2>1, <2>2, <2>3, <1>1, <1>6 DEF Drawn, Registering
<1>10. BracketSound'
  <2>1. \A m \in Matches : match'[m].status \notin Decided /\ match'[m].winner = Nobody
    BY <1>f DEF Decided
  <2>2. \A m \in Matches : FirstRound(m)' <=> half <= m
    BY <1>2, <1>6, <1>b DEF FirstRound
  <2>3. ASSUME NEW m \in Matches, match'[m].status # "NONE", half <= m
        PROVE  Nobody \notin Slots(m)' /\ match'[m].first # match'[m].second
    <3>1. m < n
      BY <2>3, <1>b, <1>f
    <3> QED BY <2>3, <3>1, <1>e, Somebody DEF Slots
  <2>4. ASSUME NEW m \in Matches, match'[m].status # "NONE", ~(half <= m)
        PROVE  match'[m].first = match'[2 * m].winner /\ match'[m].second = match'[2 * m + 1].winner
    <3>1. m < half /\ match'[m].first = Nobody /\ match'[m].second = Nobody
      BY <2>4, <1>b, <1>d, <1>f
    <3>2. 2 * m \in Matches /\ 2 * m + 1 \in Matches
      <4>1. n <= MaxEntrants /\ MaxEntrants \in Nat /\ 2 * m + 1 < n /\ m \in Nat \ {0}
        BY <3>1, <1>1, <1>2, <1>b, TournamentAssumption
      <4> QED BY <4>1 DEF Matches
    <3> QED BY <3>1, <3>2, <2>1
  <2>5. \A m \in Matches : IsFinal(m) => tournament'.champion = match'[m].winner
    BY <1>5, <1>6, <2>1 DEF Inv, Core, BracketSound, NoMatch
  <2> QED BY <1>6, <2>1, <2>2, <2>3, <2>4, <2>5 DEF BracketSound, IsFinal
<1>11. OneWay' /\ OneOpen'
  BY <1>3 DEF WellDrawn, OneWay, OneOpen, OpenMatches, Slots
<1>12. LiveGameIsOfMatch'
  <2> SUFFICES ASSUME NEW m \in Matches, game'[m].status \in {"WAITING", "ACTIVE"}
               PROVE  match'[m].status \in (Undecided \ {"PENDING"}) \cup {"COMPLETED"} /\ Nobody \notin Slots(m)'
    BY DEF LiveGameIsOfMatch
  <2>1. half <= m /\ m < n
    BY <1>8 DEF NoGame
  <2> QED BY <2>1, <1>e, Somebody DEF Undecided, Slots
<1>13. WinnersAreLate'
  BY <1>8 DEF WinnersAreLate, NoGame
<1>14. NobodyPlaysDeleted'
  <2> SUFFICES ASSUME NEW m \in Matches, Live(game'[m]), NEW c, c \in Slots(m)', account'[c] = "DELETED" PROVE FALSE
    BY DEF NobodyPlaysDeleted
  <2>1. half <= m /\ m < n
    BY <1>8 DEF Live, NoGame
  <2>2. account[match'[m].first] = "OK" /\ account[match'[m].second] = "OK"
    BY <1>1, <1>2, <2>1 DEF CanPlay, Available
  <2> QED BY <2>2, <1>1 DEF Slots
<1> QED BY <1>a, <1>9, <1>10, <1>11, <1>12, <1>13, <1>14 DEF Core

\* What a game may become by play or by its own handlers.
LEMMA PlayedGames ==
  ASSUME Inv, NEW m \in Matches, PlayGame(m)
  PROVE  \E g \in Games :
           /\ game' = [game EXCEPT ![m] = g] /\ g \in Life(m)!After(game[m])
           /\ g.status \notin {"NONE", "WAITING", "ERASED"} /\ game[m].status # "NONE"
           /\ g.status = "ACTIVE" => game[m].status = "WAITING" /\ g.winner = Nobody
           /\ UNCHANGED <<tournament, entrant, member, match, account, deletion>>
<1>1. PICK g \in Life(m)!Begun(game[m]) \cup Life(m)!PlayedOut(game[m]) \cup Life(m)!Closed(game[m])
                 \cup (IF match[m].status \in Undecided THEN Life(m)!LateCancelled(game[m]) ELSE {}) :
        game' = [game EXCEPT ![m] = g]
  BY DEF PlayGame
<1>2. g \in Life(m)!After(game[m])
  BY <1>1 DEF Life!After
<1>3. game[m] \in Games /\ (game[m].status = "WAITING" => game[m].winner = Nobody)
  BY TypesAre DEF Inv, Core, WinnersAreLate
<1>4. CASE g \in Life(m)!Begun(game[m])
  <2>1. game[m].status = "WAITING" /\ g = [game[m] EXCEPT !.status = "ACTIVE"]
    BY <1>4 DEF Life!Begun
  <2>2. g \in Games /\ g.status = "ACTIVE" /\ g.winner = Nobody
    BY <2>1, <1>3 DEF Games
  <2> QED BY <1>1, <1>2, <2>1, <2>2 DEF PlayGame
<1>5. CASE g \in Life(m)!PlayedOut(game[m])
  <2>1. g \in Games /\ g.status \in {"COMPLETED", "ABANDONED"} /\ game[m].status # "NONE"
    BY <1>5 DEF Life!PlayedOut, Games, Entrants
  <2> QED BY <1>1, <1>2, <2>1 DEF PlayGame
<1>6. CASE g \in Life(m)!Closed(game[m]) \cup Life(m)!LateCancelled(game[m])
  <2>1. \E s \in {"CANCELLED", "EXPIRED"} : g = [game[m] EXCEPT !.status = s] /\ game[m].status # "NONE"
    BY <1>6 DEF Life!Closed, Life!LateCancelled, Life!Open, Life!Ended
  <2>2. g \in Games /\ g.status \in {"CANCELLED", "EXPIRED"} /\ game[m].status # "NONE"
    BY <2>1, <1>3 DEF Games
  <2> QED BY <1>1, <1>2, <2>2 DEF PlayGame
<1> QED BY <1>1, <1>4, <1>5, <1>6

\* Playing a game keeps everything.
LEMMA PlayKeeps == ASSUME Inv, NEW m \in Matches, PlayGame(m) PROVE Core'
<1>1. PICK g \in Games :
           /\ game' = [game EXCEPT ![m] = g] /\ g \in Life(m)!After(game[m])
           /\ g.status \notin {"NONE", "WAITING", "ERASED"} /\ game[m].status # "NONE"
           /\ g.status = "ACTIVE" => game[m].status = "WAITING" /\ g.winner = Nobody
           /\ UNCHANGED <<tournament, entrant, member, match, account, deletion>>
  BY PlayedGames
<1>2. game'[m] = g /\ \A k \in Matches \ {m} : game'[k] = game[k]
  BY <1>1, TypesAre DEF Inv
<1>3. \A k \in Matches : Slots(k)' = Slots(k)
  BY <1>1 DEF Slots
<1>4. Drawn'
  BY <1>1 DEF Inv, Core, Drawn, NoGame
<1>5. BracketSound' /\ OneWay' /\ OneOpen'
  BY <1>1, <1>3 DEF Inv, Core, BracketSound, FirstRound, OneWay, OneOpen, OpenMatches
<1>6. \A k \in Matches : Live(game'[k]) => Live(game[k])
  BY <1>1, <1>2 DEF Live
<1>7. LiveGameIsOfMatch'
  BY <1>1, <1>3, <1>6 DEF Inv, Core, LiveGameIsOfMatch, Live
<1>8. WinnersAreLate'
  BY <1>1, <1>2 DEF Inv, Core, WinnersAreLate
<1>9. NobodyPlaysDeleted'
  BY <1>1, <1>3, <1>6 DEF Inv, Core, NobodyPlaysDeleted
<1> QED BY <1>4, <1>5, <1>7, <1>8, <1>9 DEF Core

-----------------------------------------------------------------------------
(* The actions, by what they do to the bracket.                              *)

\* Each of gs is a game that the abstract life makes of the one there is.
Lawful(gs) == \A m \in Matches : gs[m] = game[m] \/ gs[m] \in Life(m)!After(game[m])

\* Of the captains only those of cs may go.
OnlyGo(cs) == \A c \in Captains : account'[c] = "DELETED" /\ account[c] # "DELETED" => c \in cs

Calm ==
  /\ UNCHANGED match /\ tournament'.size = tournament.size /\ tournament'.champion = tournament.champion
  /\ tournament'.status \in {"NONE"} \cup Registering => tournament.status \in {"NONE"} \cup Registering
  /\ tournament'.status = "COMPLETED" => tournament.status = "COMPLETED"
  /\ Ending(game') /\ Lawful(game') /\ GoesFrom(game')

Marks(m) ==
  /\ match[m].status \in Undecided
  /\ \E s \in {"ACTIVE", "REVIEW_REQUIRED"} : match' = [match EXCEPT ![m].status = s]
  /\ UNCHANGED tournament /\ Ending(game') /\ Lawful(game') /\ GoesFrom(game')

Decides(m, w, end, es, gs) ==
  /\ Advance(m, w, end, es, gs) /\ end \in Decided
  /\ Ending(gs) /\ Lawful(gs) /\ GoesFrom(gs)
  /\ end = "FORFEIT" => ~Live(gs[m])
  /\ OnlyGo(Slots(m) \ {w}) /\ es \in [Captains -> Teams] /\ gs \in [Matches -> Games]

Cancels == CancelTournament /\ \A c \in Captains : account'[c] = account[c]

\* A game that is played has two players.
LEMMA SlotsDiffer ==
  ASSUME Inv, NEW m \in Matches, match[m].status # "NONE", Nobody \notin Slots(m)
  PROVE  match[m].first # match[m].second
<1>1. CASE FirstRound(m)
  BY <1>1 DEF Inv, Core, BracketSound
<1>2. CASE ~FirstRound(m)
  <2> SUFFICES ASSUME match[m].first = match[m].second PROVE FALSE
    OBVIOUS
  <2>1. /\ 2 * m \in Matches /\ match[2 * m].status # "NONE"
        /\ 2 * m + 1 \in Matches /\ match[2 * m + 1].status # "NONE"
    BY <1>2, Feeders
  <2>2. match[m].first = match[2 * m].winner /\ match[m].second = match[2 * m + 1].winner
    BY <1>2 DEF Inv, Core, BracketSound
  <2>3. match[m].first \in Captains
    BY TypesAre DEF Inv, MatchRows, Entrants, Slots
  <2>4. match[m].first \in Slots(2 * m) /\ match[m].first \in Slots(2 * m + 1)
    BY <2>1, <2>2, <2>3, Somebody DEF Inv, Core, BracketSound
  <2>5. 2 * m = 2 * m + 1 \/ Above(2 * m, 2 * m + 1) \/ Above(2 * m + 1, 2 * m)
    BY <2>1, <2>3, <2>4 DEF Inv, Core, OneWay
  <2>6. m \in 1..31 /\ 2 * m \in 1..31 /\ 2 * m + 1 \in 1..31
    BY <2>1, FewMatches
  <2>7. (2 * m) \div 2 = m /\ (2 * m + 1) \div 2 = m /\ 2 * m # 2 * m + 1
    BY <2>6
  <2> QED BY <2>5, <2>6, <2>7, Siblings
<1> QED BY <1>1, <1>2

\* Cancelling a game that is open.
LEMMA EndsGames ==
  ASSUME Inv, NEW m \in Matches
  PROVE  /\ Ends(game[m]) \in Games /\ ~Live(Ends(game[m]))
         /\ Ends(game[m]) = game[m] \/ (game[m].status # "NONE" /\ Ends(game[m]).status = "CANCELLED"
                                        /\ Ends(game[m]) \in Life(m)!After(game[m]))
<1>1. game[m] \in Games
  BY TypesAre DEF Inv
<1>2. CASE Live(game[m])
  <2>1. Ends(game[m]) = [game[m] EXCEPT !.status = "CANCELLED"]
    BY <1>2 DEF Ends, Live
  <2>2. Ends(game[m]) \in Life(m)!Closed(game[m])
    BY <1>2, <2>1 DEF Life!Closed, Life!Open, Live
  <2>3. Ends(game[m]) \in Games /\ Ends(game[m]).status = "CANCELLED"
    BY <1>1, <2>1 DEF Games
  <2> QED BY <1>2, <2>2, <2>3 DEF Life!After, Live
<1>3. CASE ~Live(game[m])
  BY <1>1, <1>3 DEF Ends, Live
<1> QED BY <1>2, <1>3

\* The games stay as they are.
LEMMA SameGames == ASSUME Inv PROVE Ending(game) /\ Lawful(game)
BY TypesAre DEF Inv, Core, WinnersAreLate, Ending, Lawful

\* The game of a forfeit ends.
LEMMA ForfeitedGames ==
  ASSUME Inv, NEW m \in Matches
  PROVE  LET gs == [game EXCEPT ![m] = Ends(@)] IN Ending(gs) /\ Lawful(gs) /\ ~Live(gs[m])
<1> DEFINE gs == [game EXCEPT ![m] = Ends(@)]
<1>1. game \in [Matches -> Games]
  BY TypesAre DEF Inv
<1>2. gs \in [Matches -> Games] /\ gs[m] = Ends(game[m]) /\ \A k \in Matches \ {m} : gs[k] = game[k]
  BY <1>1, EndsGames
<1> HIDE DEF gs
<1>3. Ending(gs)
  BY <1>2, EndsGames DEF Ending, Inv, Core, WinnersAreLate
<1>4. Lawful(gs) /\ ~Live(gs[m])
  BY <1>2, EndsGames DEF Lawful
<1> QED BY <1>3, <1>4 DEF gs

\* The games of an account that goes.
LEMMA GamesLeft ==
  ASSUME Inv, NEW c \in Captains
  PROVE  LET gs == GamesWithout(c, game)
         IN Ending(gs) /\ Lawful(gs) /\ \A m \in Matches : c \in Slots(m) => Ends(gs[m]) = gs[m] /\ ~Live(gs[m])
<1> DEFINE gs == GamesWithout(c, game)
<1>1. gs = [m \in Matches |->
     IF c \notin Slots(m) \/ game[m].status = "NONE" THEN game[m]
     ELSE IF \A d \in Slots(m) \ {c} : account[d] = "DELETED" THEN [status |-> "ERASED", winner |-> Nobody]
     ELSE [Ends(game[m]) EXCEPT !.winner = IF @ = c THEN Nobody ELSE @]]
  BY DEF GamesWithout
<1> HIDE DEF gs
<1>2. ASSUME NEW m \in Matches
      PROVE  /\ gs[m] \in Games
             /\ gs[m] = game[m] \/ (~Live(gs[m]) /\ gs[m].status # "NONE" /\ game[m].status # "NONE")
             /\ gs[m].status = "ERASED" => gs[m].winner = Nobody
             /\ gs[m] = game[m] \/ gs[m] \in Life(m)!After(game[m])
             /\ c \in Slots(m) => ~Live(gs[m])
  <2>0. game[m] \in Games /\ (game[m].status \in {"NONE", "WAITING", "ACTIVE", "ERASED"} => game[m].winner = Nobody)
    BY TypesAre DEF Inv, Core, WinnersAreLate
  <2>1. CASE c \notin Slots(m) \/ game[m].status = "NONE"
    <3>1. gs[m] = game[m]
      BY <2>1, <1>1
    <3> QED BY <3>1, <2>0, <2>1 DEF Live
  <2>2. CASE c \in Slots(m) /\ game[m].status # "NONE" /\ \A d \in Slots(m) \ {c} : account[d] = "DELETED"
    <3>1. gs[m] = [status |-> "ERASED", winner |-> Nobody]
      BY <2>2, <1>1
    <3>2. ~Live(game[m])
      <4> SUFFICES ASSUME Live(game[m]) PROVE FALSE
        OBVIOUS
      <4>1. match[m].status # "NONE" /\ Nobody \notin Slots(m)
        BY DEF Inv, Core, LiveGameIsOfMatch, Live, Undecided
      <4>2. PICK d \in Slots(m) : d # c
        BY <4>1, SlotsDiffer DEF Slots
      <4> QED BY <2>2, <4>2 DEF Inv, Core, NobodyPlaysDeleted
    <3>3. gs[m] \in Games
      BY <3>1 DEF Games, Entrants
    <3>4. gs[m] = game[m] \/ gs[m] \in Life(m)!After(game[m])
      <4>1. CASE game[m].status = "ERASED"
        BY <4>1, <3>1, <2>0 DEF Games
      <4>2. CASE game[m].status # "ERASED"
        <5>1. game[m].status \in Life(m)!Ended
          BY <4>2, <3>2, <2>0, <2>2 DEF Life!Ended, Games, Live
        <5>2. gs[m] \in Life(m)!Forgotten(game[m])
          BY <5>1, <3>1 DEF Life!Forgotten
        <5> QED BY <5>2 DEF Life!After
      <4> QED BY <4>1, <4>2
    <3> QED BY <3>1, <3>3, <3>4, <2>2 DEF Live
  <2>3. CASE c \in Slots(m) /\ game[m].status # "NONE" /\ ~\A d \in Slots(m) \ {c} : account[d] = "DELETED"
    <3>1. gs[m] = [Ends(game[m]) EXCEPT !.winner = IF @ = c THEN Nobody ELSE @]
      BY <2>3, <1>1
    <3>2. CASE Live(game[m])
      <4>1. Ends(game[m]) = [game[m] EXCEPT !.status = "CANCELLED"] /\ game[m].winner = Nobody
        BY <3>2, <2>0 DEF Ends, Live
      <4>2. gs[m] = [game[m] EXCEPT !.status = "CANCELLED"]
        BY <4>1, <3>1, <2>0 DEF Games
      <4>3. gs[m] \in Life(m)!Closed(game[m])
        BY <4>2, <3>2 DEF Life!Closed, Life!Open, Live
      <4>4. gs[m] \in Games /\ gs[m].status = "CANCELLED"
        BY <4>2, <2>0 DEF Games
      <4> QED BY <4>3, <4>4, <2>3 DEF Life!After, Live
    <3>3. CASE ~Live(game[m])
      <4>1. gs[m] = [game[m] EXCEPT !.winner = IF game[m].winner = c THEN Nobody ELSE game[m].winner]
        BY <3>1, <3>3 DEF Ends, Live
      <4>2. CASE game[m].winner # c
        <5>1. gs[m] = game[m]
          BY <4>1, <4>2, <2>0 DEF Games
        <5> QED BY <5>1, <3>3, <2>0
      <4>3. CASE game[m].winner = c
        <5>1. gs[m] = [game[m] EXCEPT !.winner = Nobody]
          BY <4>1, <4>3
        <5>2. game[m].status \in Life(m)!Ended
          BY <4>3, <2>0, Somebody DEF Life!Ended, Games
        <5>3. gs[m] \in Life(m)!Forgotten(game[m])
          BY <5>1, <5>2 DEF Life!Forgotten
        <5>4. gs[m] \in Games /\ gs[m].status = game[m].status
          BY <5>1, <2>0 DEF Games, Entrants
        <5> QED BY <5>2, <5>3, <5>4, <2>3, <3>3 DEF Life!After, Life!Ended, Live
      <4> QED BY <4>2, <4>3
    <3> QED BY <3>2, <3>3
  <2> QED BY <2>1, <2>2, <2>3
<1>3. Ending(gs)
  <2>1. gs \in [Matches -> Games]
    BY <1>1, <1>2
  <2> QED BY <1>2, <2>1 DEF Ending
<1>4. Lawful(gs) /\ \A m \in Matches : c \in Slots(m) => Ends(gs[m]) = gs[m] /\ ~Live(gs[m])
  BY <1>2 DEF Lawful, Ends, Live
<1> QED BY <1>3, <1>4 DEF gs

\* What a step does to the bracket.
Kind ==
  \/ Calm \/ start \/ Cancels
  \/ \E m \in Matches : PlayGame(m) \/ Marks(m)
  \/ \E m \in Matches, w \in Captains, end \in Decided : \E es, gs : Decides(m, w, end, es, gs)

\* The games gs of an entrant who leaves, whichever match is forfeited.
Leaving(c, gs) ==
  /\ Ending(gs) /\ Lawful(gs) /\ GoesFrom(gs)
  /\ \A m \in Matches : c \in Slots(m) =>
       LET fs == [gs EXCEPT ![m] = Ends(@)] IN Ending(fs) /\ Lawful(fs) /\ GoesFrom(fs) /\ ~Live(fs[m])

\* An entrant is set aside.
LEMMA OutTyped ==
  ASSUME TypeOK, NEW s \in Teams, NEW c \in Captains, NEW es \in [Captains -> Teams]
  PROVE  Out(s, c, es) \in [Captains -> Teams]
BY DEF Out

\* forfeitEntrantTx changes nothing, or hands a match to moderation, or decides one.
LEMMA ForfeitKind ==
  ASSUME Inv, NEW c \in Captains, NEW gs, Forfeit(c, gs), Leaving(c, gs), OnlyGo({c})
  PROVE  Kind
<1> DEFINE es == Out("WITHDRAWN", c, entrant)
<1>1. es \in [Captains -> Teams]
  BY OutTyped DEF Inv, TypeOK, Teams
<1> HIDE DEF es
<1>2. CASE OpenMatches(c) = {} /\ entrant' = es /\ game' = gs /\ UNCHANGED <<tournament, match>>
  <2>1. Calm
    BY <1>2 DEF Leaving, Calm
  <2> QED BY <2>1 DEF Kind
<1>3. ASSUME NEW m \in OpenMatches(c), Opponent(m, c) = Nobody,
             match' = [match EXCEPT ![m].status = "REVIEW_REQUIRED"], entrant' = es, game' = gs, UNCHANGED tournament
      PROVE  Kind
  <2>1. m \in Matches /\ Marks(m)
    BY <1>3 DEF OpenMatches, Leaving, Marks
  <2> QED BY <2>1 DEF Kind
<1>4. ASSUME NEW m \in OpenMatches(c), Advance(m, Opponent(m, c), "FORFEIT", es, [gs EXCEPT ![m] = Ends(@)])
      PROVE  Kind
  <2> DEFINE fs == [gs EXCEPT ![m] = Ends(@)]
             w == Opponent(m, c)
  <2>1. m \in Matches /\ c \in Slots(m) /\ match[m].status \in Undecided
    BY DEF OpenMatches
  <2>2. Ending(fs) /\ Lawful(fs) /\ GoesFrom(fs) /\ ~Live(fs[m])
    BY <2>1 DEF Leaving
  <2> HIDE DEF fs
  <2>3. w # Nobody /\ w \in Slots(m) /\ Slots(m) \subseteq Entrants
    BY <1>4, <2>1, TypesAre DEF Advance, fs, Inv
  <2>4. w \in Captains
    BY <2>3 DEF Entrants
  <2>5. c # w
    <3>1. match[m].status # "NONE"
      BY <2>1 DEF Undecided
    <3>2. CASE Nobody \notin Slots(m)
      <4>1. match[m].first # match[m].second
        BY <2>1, <3>1, <3>2, SlotsDiffer
      <4> QED BY <4>1 DEF Opponent
    <3>3. CASE Nobody \in Slots(m)
      BY <2>1, <2>3, <3>3, Somebody DEF Slots, Opponent
    <3> QED BY <3>2, <3>3
  <2>6. OnlyGo(Slots(m) \ {w})
    BY <2>1, <2>5 DEF OnlyGo
  <2>7. fs \in [Matches -> Games]
    BY <2>2 DEF Ending
  <2>8. Advance(m, w, "FORFEIT", es, fs)
    BY <1>4 DEF fs
  <2> HIDE DEF w
  <2>9. Decides(m, w, "FORFEIT", es, fs)
    BY <1>1, <2>2, <2>6, <2>7, <2>8 DEF Decides, Decided
  <2> QED BY <2>1, <2>4, <2>9 DEF Kind, Decided
<1> QED BY <1>2, <1>3, <1>4 DEF Forfeit, es

\* Accounts stay.
LEMMA NobodyGoes ==
  ASSUME UNCHANGED account, NEW gs, NEW cs
  PROVE  GoesFrom(gs) /\ OnlyGo(cs)
BY DEF GoesFrom, OnlyGo

\* Steps that leave the bracket and its games alone.
LEMMA CalmSteps ==
  ASSUME Inv, UNCHANGED <<match, game>>, tournament'.size = tournament.size, tournament'.champion = tournament.champion,
         tournament'.status \in {"NONE"} \cup Registering => tournament.status \in {"NONE"} \cup Registering,
         tournament'.status = "COMPLETED" => tournament.status = "COMPLETED", OnlyGo({})
  PROVE  Kind
<1>1. Ending(game') /\ Lawful(game')
  BY SameGames
<1>2. GoesFrom(game')
  BY DEF OnlyGo, GoesFrom
<1>3. Calm
  BY <1>1, <1>2 DEF Calm
<1> QED BY <1>3 DEF Kind

\* The organiser's steps.
LEMMA OrganiseKind == ASSUME Inv, Organise PROVE Kind
<1>t. tournament.status \in {"NONE", "ACTIVE"} \cup Registering \cup Over
  BY DEF Inv, TypeOK
<1>1. CASE create \/ openRegistration \/ CloseRegistration
  <2>1. UNCHANGED <<match, game, account>>
    BY <1>1 DEF create, openRegistration, CloseRegistration
  <2>2. tournament'.size = tournament.size /\ tournament'.champion = tournament.champion
    BY <1>1 DEF create, openRegistration, CloseRegistration, Inv, TypeOK
  <2>3. tournament.status \in {"NONE"} \cup Registering /\ tournament'.status \in Registering
    BY <1>1 DEF create, openRegistration, CloseRegistration, Inv, TypeOK, Registering
  <2> QED BY <2>1, <2>2, <2>3, NobodyGoes, CalmSteps DEF Registering
<1>2. CASE start
  BY <1>2 DEF Kind
<1>3. CASE cancel \/ governCancel
  <2>1. Cancels
    BY <1>3 DEF cancel, governCancel, Cancels
  <2> QED BY <2>1 DEF Kind
<1> QED BY <1>1, <1>2, <1>3 DEF Organise

\* What a captain, a mate or moderation does with a team.
LEMMA EnterKind == ASSUME Inv, NEW c \in Captains, Enter(c) PROVE Kind
<1>1. CASE registerEntrant(c) \/ acceptInvitation(c) \/ Suspend(c) \/ Restore(c)
  <2>1. UNCHANGED <<tournament, match, game>>
    BY <1>1 DEF registerEntrant, acceptInvitation, Suspend, Restore
  <2>2. OnlyGo({})
    <3> SUFFICES ASSUME NEW d \in Captains, account'[d] = "DELETED", account[d] # "DELETED" PROVE FALSE
      BY DEF OnlyGo
    <3> QED BY <1>1 DEF registerEntrant, acceptInvitation, Suspend, Restore, Inv, TypeOK
  <2> QED BY <2>1, <2>2, CalmSteps
<1>2. CASE withdraw(c)
  <2>1. UNCHANGED account
    BY <1>2 DEF withdraw
  <2>2. CASE tournament.status = "ACTIVE"
    <3>1. Forfeit(c, game)
      BY <1>2, <2>2 DEF withdraw
    <3>2. Leaving(c, game)
      BY <2>1, NobodyGoes, SameGames, ForfeitedGames DEF Leaving
    <3>3. OnlyGo({c})
      BY <2>1, NobodyGoes
    <3> QED BY <3>1, <3>2, <3>3, ForfeitKind
  <2>3. CASE tournament.status # "ACTIVE"
    <3>1. UNCHANGED <<tournament, match, game>> /\ OnlyGo({})
      BY <1>2, <2>1, <2>3, NobodyGoes DEF withdraw
    <3> QED BY <3>1, CalmSteps
  <2> QED BY <2>2, <2>3
<1> QED BY <1>1, <1>2 DEF Enter

\* What becomes of a match.
LEMMA ContestKind == ASSUME Inv, NEW m \in Matches, Contest(m) PROVE Kind
<1>1. CASE PlayGame(m)
  BY <1>1 DEF Kind
<1>2. CASE SyncBegun(m) \/ SyncReview(m)
  <2>1. UNCHANGED <<account, game, tournament>>
    BY <1>2 DEF SyncBegun, SyncReview
  <2>2. match[m].status \in Undecided /\ \E s \in {"ACTIVE", "REVIEW_REQUIRED"} : match' = [match EXCEPT ![m].status = s]
    BY <1>2 DEF SyncBegun, SyncReview
  <2>3. Marks(m)
    BY <2>1, <2>2, NobodyGoes, SameGames DEF Marks
  <2> QED BY <2>3 DEF Kind
<1>3. CASE SyncWon(m) \/ resolveMatch(m)
  <2>1. UNCHANGED account
    BY <1>3 DEF SyncWon, resolveMatch
  <2>2. PICK w \in Slots(m) : Advance(m, w, "COMPLETED", entrant, game)
    BY <1>3 DEF SyncWon, resolveMatch, HasWinner
  <2>3. w \in Captains
    BY <2>2, TypesAre DEF Inv, Advance, Entrants
  <2>4. entrant \in [Captains -> Teams] /\ game \in [Matches -> Games]
    BY TypesAre DEF Inv, TypeOK
  <2>5. Ending(game) /\ Lawful(game) /\ GoesFrom(game) /\ OnlyGo(Slots(m) \ {w})
    BY <2>1, NobodyGoes, SameGames
  <2>6. Decides(m, w, "COMPLETED", entrant, game)
    BY <2>2, <2>4, <2>5 DEF Decides, Decided
  <2> QED BY <2>3, <2>6 DEF Kind, Decided
<1> QED BY <1>1, <1>2, <1>3 DEF Contest, syncMatch

\* The deletion of a captain's account.
LEMMA DeleteCaptainKind == ASSUME Inv, NEW c \in Captains, DeleteCaptain(c) PROVE Kind
<1> DEFINE gs == GamesWithout(c, game)
<1>1. Ending(gs) /\ Lawful(gs) /\ \A m \in Matches : c \in Slots(m) => Ends(gs[m]) = gs[m] /\ ~Live(gs[m])
  BY GamesLeft
<1>g. gs \in [Matches -> Games]
  BY <1>1 DEF Ending
<1>2. OnlyGo({c})
  BY DEF OnlyGo, DeleteCaptain, Inv, TypeOK
<1>3. CASE deletion.tournament = "ACTIVE"
  <2>1. Forfeit(c, gs)
    BY <1>3 DEF DeleteCaptain
  <2> HIDE DEF gs
  <2>2. GoesFrom(gs)
    BY <1>1, <1>2 DEF GoesFrom, OnlyGo
  <2>3. ASSUME NEW m \in Matches, c \in Slots(m) PROVE [gs EXCEPT ![m] = Ends(@)] = gs
    BY <1>1, <1>g, <2>3
  <2>4. Leaving(c, gs)
    BY <1>1, <2>2, <2>3 DEF Leaving
  <2> QED BY <1>2, <2>1, <2>4, ForfeitKind
<1>4. CASE deletion.tournament # "ACTIVE"
  <2>1. game' = gs /\ UNCHANGED <<tournament, match>>
    BY <1>4 DEF DeleteCaptain
  <2> HIDE DEF gs
  <2>2. GoesFrom(gs)
    BY <1>1, <1>2 DEF GoesFrom, OnlyGo
  <2>3. Calm
    BY <1>1, <2>1, <2>2 DEF Calm
  <2> QED BY <2>3 DEF Kind
<1> QED BY <1>3, <1>4

\* Deletions.
LEMMA DeleteKind == ASSUME Inv, Delete PROVE Kind
<1>1. CASE UNCHANGED <<tournament, match, game, account>>
  BY <1>1, NobodyGoes, CalmSteps
<1>2. CASE DeleteOwner
  <2>1. \A c \in Captains : account'[c] = account[c]
    BY <1>2, TournamentAssumption DEF DeleteOwner, Inv, TypeOK
  <2>2. CASE deletion.tournament \in Registering
    <3>1. Cancels
      BY <1>2, <2>1, <2>2 DEF DeleteOwner, Cancels
    <3> QED BY <3>1 DEF Kind
  <2>3. CASE deletion.tournament \notin Registering
    <3>1. UNCHANGED <<tournament, match, game>> /\ OnlyGo({})
      BY <1>2, <2>1, <2>3 DEF DeleteOwner, OnlyGo
    <3> QED BY <3>1, CalmSteps
  <2> QED BY <2>2, <2>3
<1>3. CASE \E c \in Captains : DeleteCaptain(c)
  BY <1>3, DeleteCaptainKind
<1>4. \/ UNCHANGED <<tournament, match, game, account>> \/ DeleteOwner \/ \E c \in Captains : DeleteCaptain(c)
  BY DEF Delete, ReadDeletion, AbortDeletion, WriteDeletion, DeleteMate
<1> QED BY <1>1, <1>2, <1>3, <1>4

\* Every step.
LEMMA StepKind == ASSUME Inv, [Next]_vars PROVE Kind
<1>1. CASE UNCHANGED vars
  BY <1>1, NobodyGoes, CalmSteps DEF vars
<1>2. CASE Next
  BY <1>2, OrganiseKind, EnterKind, ContestKind, DeleteKind DEF Next
<1> QED BY <1>1, <1>2

-----------------------------------------------------------------------------
(* The invariant holds, and keeps holding.                                   *)

\* Nothing is drawn at first.
LEMMA InitInv == Init => Inv
<1> SUFFICES ASSUME Init PROVE Inv
  OBVIOUS
<1> USE DEF Init
<1>0. \A m \in Matches : match[m] = NoMatch /\ game[m] = NoGame /\ Slots(m) = {Nobody}
  BY DEF NoGame, NoMatch, Slots
<1>1. TypeOK
  <2>1. match \in [Matches -> MatchRows] /\ game \in [Matches -> Games]
    BY DEF MatchRows, NoMatch, Games, Entrants
  <2>2. tournament \in [status : {"NONE", "ACTIVE"} \cup Registering \cup Over, teamSize : {1, 2},
                     capacity : 2..MaxEntrants, size : 0..MaxEntrants, champion : Entrants, closed : BOOLEAN]
    BY TournamentAssumption DEF Entrants
  <2> QED BY <2>1, <2>2, GamesAre DEF TypeOK, Teams
<1>2. Drawn
  <2>1. \A m \in Matches : match[m].status = "NONE" /\ m >= 0
    BY <1>0, Somebody DEF NoMatch
  <2> QED BY <1>0, <2>1 DEF Drawn
<1>3. BracketSound
  BY <1>0 DEF BracketSound, NoMatch
<1>4. OneWay /\ OneOpen
  BY <1>0, Somebody DEF OneWay, OneOpen, OpenMatches
<1>5. LiveGameIsOfMatch /\ WinnersAreLate /\ NobodyPlaysDeleted
  BY <1>0 DEF LiveGameIsOfMatch, WinnersAreLate, NobodyPlaysDeleted, NoGame, Live
<1> QED BY <1>1, <1>2, <1>3, <1>4, <1>5 DEF Inv, Core

\* Each kind of step keeps the invariant of the bracket.
LEMMA CoreStep == Inv /\ [Next]_vars => Core'
<1> SUFFICES ASSUME Inv, [Next]_vars PROVE Core'
  OBVIOUS
<1>1. Kind
  BY StepKind
<1>2. CASE Calm
  BY <1>2, QuietKeeps DEF Calm
<1>3. CASE start
  BY <1>3, StartKeeps
<1>4. CASE Cancels
  BY <1>4, CancelKeeps DEF Cancels
<1>5. ASSUME NEW m \in Matches, PlayGame(m) PROVE Core'
  BY <1>5, PlayKeeps
<1>6. ASSUME NEW m \in Matches, Marks(m) PROVE Core'
  <2>1. PICK s \in {"ACTIVE", "REVIEW_REQUIRED"} : match' = [match EXCEPT ![m].status = s]
    BY <1>6 DEF Marks
  <2> QED BY <1>6, <2>1, MarkKeeps DEF Marks
<1>7. ASSUME NEW m \in Matches, NEW w \in Captains, NEW end \in Decided, NEW es, NEW gs, Decides(m, w, end, es, gs)
      PROVE  Core'
  <2>1. \A c \in Captains : account'[c] = "DELETED" /\ account[c] # "DELETED" => c # w /\ c \in Slots(m)
    BY <1>7 DEF Decides, OnlyGo
  <2>2. /\ Advance(m, w, end, es, gs) /\ Ending(gs) /\ GoesFrom(gs)
        /\ end = "FORFEIT" => ~Live(gs[m])
    BY <1>7 DEF Decides
  <2> QED BY <2>1, <2>2, AdvanceKeeps
<1> QED BY <1>1, <1>2, <1>3, <1>4, <1>5, <1>6, <1>7 DEF Kind

-----------------------------------------------------------------------------
(* Types.                                                                    *)

\* The rows of matches and games.
BracketRowsOK == match \in [Matches -> MatchRows] /\ game \in [Matches -> Games]

\* The other rows.
TournamentRows == [status : {"NONE", "ACTIVE"} \cup Registering \cup Over, teamSize : {1, 2},
                   capacity : 2..MaxEntrants, size : 0..MaxEntrants, champion : Entrants, closed : BOOLEAN]
PeopleOK ==
  /\ tournament \in TournamentRows
  /\ entrant \in [Captains -> Teams]
  /\ member \in [Captains -> [Roles -> {"NONE", "INVITED", "JOINED", "LEFT", "DELETED"}]]
  /\ account \in [Captains \cup {Owner} -> {"OK", "SUSPENDED", "DELETED"}]

\* The two parts of the types.
LEMMA TypesSplit == /\ TypeOK <=> BracketRowsOK /\ PeopleOK
                    /\ TypeOK' <=> BracketRowsOK' /\ PeopleOK'
BY GamesAre DEF TypeOK, BracketRowsOK, PeopleOK, TournamentRows

\* Each kind of step keeps the rows of matches and games.
LEMMA BracketTyped == Inv /\ [Next]_vars => BracketRowsOK'
<1> SUFFICES ASSUME Inv, [Next]_vars PROVE BracketRowsOK'
  OBVIOUS
<1>0. match \in [Matches -> MatchRows] /\ game \in [Matches -> Games]
  BY TypesAre DEF Inv
<1>1. Kind
  BY StepKind
<1>2. CASE Calm
  BY <1>0, <1>2 DEF Calm, Ending, BracketRowsOK
<1>3. CASE start
  <2>1. \A m \in Matches : game[m] = NoGame
    BY <1>3, Undrawn DEF start, Registering
  <2>2. game' \in [Matches -> Games]
    BY <1>3, <2>1 DEF start, NoGame, Games, Entrants
  <2> QED BY <1>3, <2>2, StartKeeps DEF BracketRowsOK
<1>4. CASE Cancels
  <2>1. game' \in [Matches -> Games]
    BY <1>0, <1>4, EndsGames DEF Cancels, CancelTournament
  <2>2. match' \in [Matches -> MatchRows]
    BY <1>0, <1>4 DEF Cancels, CancelTournament, MatchRows
  <2> QED BY <2>1, <2>2 DEF BracketRowsOK
<1>5. ASSUME NEW m \in Matches, PlayGame(m) PROVE BracketRowsOK'
  <2>1. PICK g \in Games : game' = [game EXCEPT ![m] = g] /\ UNCHANGED match
    BY <1>5, PlayedGames
  <2> QED BY <1>0, <2>1 DEF BracketRowsOK
<1>6. ASSUME NEW m \in Matches, Marks(m) PROVE BracketRowsOK'
  <2>1. PICK s \in {"ACTIVE", "REVIEW_REQUIRED"} : match' = [match EXCEPT ![m].status = s]
    BY <1>6 DEF Marks
  <2>2. match' \in [Matches -> MatchRows]
    BY <1>0, <2>1 DEF MatchRows, Undecided
  <2> QED BY <1>6, <2>2 DEF BracketRowsOK, Marks, Ending
<1>7. ASSUME NEW m \in Matches, NEW w \in Captains, NEW end \in Decided, NEW es, NEW gs, Decides(m, w, end, es, gs)
      PROVE  BracketRowsOK'
  <2>1. PICK n : n = m \div 2
    OBVIOUS
  <2>2. Advanced(m, w, end, gs, n)
    BY <1>7, <2>1, AdvancedMatches DEF Inv, Decides
  <2>3. gs \in [Matches -> Games]
    BY <1>7 DEF Decides
  <2>4. game' = gs \/ game' = [gs EXCEPT ![n].status = "WAITING"]
    BY <2>2 DEF Advanced
  <2>5. game' \in [Matches -> Games]
    BY <2>3, <2>4 DEF Games
  <2> QED BY <2>2, <2>5 DEF BracketRowsOK, Advanced
<1> QED BY <1>1, <1>2, <1>3, <1>4, <1>5, <1>6, <1>7 DEF Kind

\* The tournament and the entrants after advanceWinnerTx.
LEMMA AdvancePeople ==
  ASSUME TypeOK, NEW m \in Matches, NEW w, NEW end, NEW es \in [Captains -> Teams], NEW gs, Advance(m, w, end, es, gs)
  PROVE  tournament' \in TournamentRows /\ entrant' \in [Captains -> Teams]
<1> DEFINE rest == Beaten(Opponent(m, w), es)
<1>1. w \in Captains /\ w # Nobody
  BY TypesAre DEF Advance, Entrants
<1>2. Opponent(m, w) \in Captains \cup {Nobody}
  BY TypesAre DEF Opponent, Slots, Entrants
<1>3. rest \in [Captains -> Teams]
  <2>1. CASE Opponent(m, w) = Nobody
    BY <2>1 DEF Beaten
  <2>2. CASE Opponent(m, w) # Nobody
    BY <1>2, <2>2, OutTyped DEF Beaten, Teams
  <2> QED BY <2>1, <2>2
<1> HIDE DEF rest
<1>4. tournament' = [tournament EXCEPT !.status = "COMPLETED", !.champion = w] \/ tournament' = tournament
  BY DEF Advance
<1>5. entrant' = [rest EXCEPT ![w] = "CHAMPION"] \/ entrant' = rest
  BY DEF Advance, rest
<1>6. tournament' \in TournamentRows
  BY <1>1, <1>4 DEF TypeOK, TournamentRows, Over, Entrants
<1>7. entrant' \in [Captains -> Teams]
  BY <1>1, <1>3, <1>5 DEF Teams
<1> QED BY <1>6, <1>7

\* ... after forfeitEntrantTx.
LEMMA ForfeitPeople ==
  ASSUME TypeOK, NEW c \in Captains, NEW gs, Forfeit(c, gs)
  PROVE  tournament' \in TournamentRows /\ entrant' \in [Captains -> Teams]
<1> DEFINE es == Out("WITHDRAWN", c, entrant)
<1>1. es \in [Captains -> Teams] /\ tournament \in TournamentRows
  BY OutTyped DEF TypeOK, Teams, TournamentRows
<1> HIDE DEF es
<1>2. CASE UNCHANGED tournament /\ entrant' = es
  BY <1>1, <1>2
<1>3. ASSUME NEW m \in OpenMatches(c), NEW w, NEW fs, Advance(m, w, "FORFEIT", es, fs)
      PROVE  tournament' \in TournamentRows /\ entrant' \in [Captains -> Teams]
  <2>1. m \in Matches
    BY DEF OpenMatches
  <2> QED BY <1>1, <1>3, <2>1, AdvancePeople
<1> QED BY <1>2, <1>3 DEF Forfeit, es

\* A team, with some of its members changed.
LEMMA MemberTyped ==
  ASSUME TypeOK, NEW c \in Captains
  PROVE  LET rows == [Captains -> [Roles -> {"NONE", "INVITED", "JOINED", "LEFT", "DELETED"}]]
         IN /\ TeamLeft(c) \in rows
            /\ \A ms \in rows, r \in Roles, s \in {"JOINED", "DELETED"} : [ms EXCEPT ![c] = [@ EXCEPT ![r] = s]] \in rows
BY DEF TypeOK, TeamLeft

\* The organiser's steps and the other rows.
LEMMA OrganisePeople == ASSUME Inv, Organise PROVE PeopleOK'
<1> USE DEF PeopleOK
<1>t. PeopleOK
  BY TypesSplit DEF Inv
<1>1. CASE create
  <2>1. PICK n \in {k \in 1..MaxEntrants : PowerOfTwo(k)}, size \in TeamSizes :
          tournament' = [tournament EXCEPT !.status = "DRAFT", !.teamSize = size, !.capacity = n]
    BY <1>1 DEF create
  <2>2. n \in 2..MaxEntrants /\ size \in {1, 2}
    BY TournamentAssumption DEF PowerOfTwo
  <2>3. tournament' \in TournamentRows
    BY <1>t, <2>1, <2>2 DEF TournamentRows, Registering
  <2> QED BY <1>t, <1>1, <2>3 DEF create
<1>2. CASE openRegistration \/ CloseRegistration
  <2>1. tournament' \in TournamentRows
    BY <1>t, <1>2 DEF TournamentRows, Registering, openRegistration, CloseRegistration
  <2> QED BY <1>t, <1>2, <2>1 DEF openRegistration, CloseRegistration
<1>3. CASE start
  <2>1. PICK n \in Nat : \E seeded \in [1..n -> Captains] : Draws(n, seeded)
    BY <1>3, StartRows
  <2>2. n \in 0..MaxEntrants /\ tournament' = [tournament EXCEPT !.status = "ACTIVE", !.size = n, !.closed = TRUE]
    BY <2>1, TournamentAssumption DEF Draws
  <2>3. tournament' \in TournamentRows
    BY <1>t, <2>2 DEF TournamentRows
  <2> QED BY <1>t, <1>3, <2>3 DEF start
<1>4. CASE cancel \/ governCancel
  <2>1. tournament' \in TournamentRows
    BY <1>t, <1>4 DEF TournamentRows, cancel, governCancel, CancelTournament, Over
  <2> QED BY <1>t, <1>4, <2>1 DEF cancel, governCancel
<1> QED BY <1>1, <1>2, <1>3, <1>4 DEF Organise

\* A team's steps.
LEMMA EnterPeople == ASSUME Inv, NEW c \in Captains, Enter(c) PROVE PeopleOK'
<1> USE DEF PeopleOK
<1>t. PeopleOK /\ TypeOK
  BY TypesSplit DEF Inv
<1>1. CASE registerEntrant(c)
  <2>1. entrant' \in [Captains -> Teams]
    BY <1>t, <1>1 DEF registerEntrant, Teams
  <2>2. member' \in [Captains -> [Roles -> {"NONE", "INVITED", "JOINED", "LEFT", "DELETED"}]]
    BY <1>t, <1>1 DEF registerEntrant
  <2> QED BY <1>t, <1>1, <2>1, <2>2 DEF registerEntrant
<1>2. CASE acceptInvitation(c)
  <2>1. entrant' \in [Captains -> Teams]
    BY <1>t, <1>2 DEF acceptInvitation, Teams
  <2>2. member' = [member EXCEPT ![c] = [@ EXCEPT !["MEMBER"] = "JOINED"]]
    BY <1>2 DEF acceptInvitation
  <2>3. member' \in [Captains -> [Roles -> {"NONE", "INVITED", "JOINED", "LEFT", "DELETED"}]]
    BY <1>t, <2>2, MemberTyped DEF Roles
  <2> QED BY <1>t, <1>2, <2>1, <2>3 DEF acceptInvitation
<1>3. CASE withdraw(c)
  <2>1. member' \in [Captains -> [Roles -> {"NONE", "INVITED", "JOINED", "LEFT", "DELETED"}]] /\ UNCHANGED account
    BY <1>t, <1>3, MemberTyped DEF withdraw
  <2>2. CASE tournament.status = "ACTIVE"
    BY <1>t, <1>3, <2>1, <2>2, ForfeitPeople DEF withdraw
  <2>3. CASE tournament.status # "ACTIVE"
    BY <1>t, <1>3, <2>1, <2>3, OutTyped DEF withdraw, Teams
  <2> QED BY <2>2, <2>3
<1>4. CASE Suspend(c) \/ Restore(c)
  BY <1>t, <1>4 DEF Suspend, Restore
<1> QED BY <1>1, <1>2, <1>3, <1>4 DEF Enter

\* A match's steps.
LEMMA ContestPeople == ASSUME Inv, NEW m \in Matches, Contest(m) PROVE PeopleOK'
<1> USE DEF PeopleOK
<1>t. PeopleOK /\ TypeOK
  BY TypesSplit DEF Inv
<1>1. CASE PlayGame(m) \/ SyncBegun(m) \/ SyncReview(m)
  BY <1>t, <1>1 DEF PlayGame, SyncBegun, SyncReview
<1>2. CASE SyncWon(m) \/ resolveMatch(m)
  <2>1. UNCHANGED <<account, member>> /\ \E w : Advance(m, w, "COMPLETED", entrant, game)
    BY <1>2 DEF SyncWon, resolveMatch
  <2> QED BY <1>t, <2>1, AdvancePeople
<1> QED BY <1>1, <1>2 DEF Contest, syncMatch

\* Deletions.
LEMMA DeletePeople == ASSUME Inv, Delete PROVE PeopleOK'
<1> USE DEF PeopleOK
<1>t. PeopleOK /\ TypeOK
  BY TypesSplit DEF Inv
<1>1. CASE UNCHANGED <<tournament, entrant, member, account>>
  BY <1>t, <1>1
<1>2. CASE DeleteOwner
  <2>1. tournament' \in TournamentRows
    BY <1>t, <1>2 DEF DeleteOwner, CancelTournament, TournamentRows, Over
  <2> QED BY <1>t, <1>2, <2>1 DEF DeleteOwner
<1>3. ASSUME NEW c \in Captains, DeleteCaptain(c) \/ DeleteMate(c) PROVE PeopleOK'
  <2>1. Deserted \in [Captains -> Teams]
    BY <1>t, <1>3 DEF Deserted, DeleteCaptain, DeleteMate, Teams
  <2>2. CASE DeleteMate(c)
    <3>1. member' = [member EXCEPT ![c] = [@ EXCEPT !["MEMBER"] = "DELETED"]]
      BY <2>2 DEF DeleteMate
    <3>2. member' \in [Captains -> [Roles -> {"NONE", "INVITED", "JOINED", "LEFT", "DELETED"}]]
      BY <1>t, <3>1, MemberTyped DEF Roles
    <3> QED BY <1>t, <2>1, <2>2, <3>2 DEF DeleteMate
  <2>3. CASE DeleteCaptain(c)
    <3>1. account' \in [Captains \cup {Owner} -> {"OK", "SUSPENDED", "DELETED"}]
      BY <1>t, <2>3 DEF DeleteCaptain
    <3>2. CASE deletion.tournament = "ACTIVE"
      <4>1. Forfeit(c, GamesWithout(c, game)) /\ member' = [TeamLeft(c) EXCEPT ![c] = [@ EXCEPT !["CAPTAIN"] = "DELETED"]]
        BY <2>3, <3>2 DEF DeleteCaptain
      <4>2. tournament' \in TournamentRows /\ entrant' \in [Captains -> Teams]
        BY <1>t, <4>1, ForfeitPeople
      <4>3. member' \in [Captains -> [Roles -> {"NONE", "INVITED", "JOINED", "LEFT", "DELETED"}]]
        BY <1>t, <4>1, MemberTyped DEF Roles
      <4> QED BY <3>1, <4>2, <4>3
    <3>3. CASE deletion.tournament # "ACTIVE"
      <4>1. member' = [member EXCEPT ![c] = [@ EXCEPT !["CAPTAIN"] = "DELETED"]]
        BY <2>3, <3>3 DEF DeleteCaptain
      <4>2. member' \in [Captains -> [Roles -> {"NONE", "INVITED", "JOINED", "LEFT", "DELETED"}]]
        BY <1>t, <4>1, MemberTyped DEF Roles
      <4>3. entrant' \in [Captains -> Teams] /\ UNCHANGED tournament
        BY <2>1, <2>3, <3>3 DEF DeleteCaptain
      <4> QED BY <1>t, <3>1, <4>2, <4>3
    <3> QED BY <3>2, <3>3
  <2> QED BY <1>3, <2>2, <2>3
<1> QED BY <1>1, <1>2, <1>3 DEF Delete, WriteDeletion, ReadDeletion, AbortDeletion

\* Every step keeps the invariant.
LEMMA InvStep == Inv /\ [Next]_vars => Inv'
<1> SUFFICES ASSUME Inv, [Next]_vars PROVE Inv'
  OBVIOUS
<1>1. PeopleOK'
  <2>1. CASE UNCHANGED vars
    BY <2>1, TypesSplit DEF vars, Inv, PeopleOK
  <2>2. CASE Next
    BY <2>2, OrganisePeople, EnterPeople, ContestPeople, DeletePeople DEF Next
  <2> QED BY <2>1, <2>2
<1> QED BY <1>1, BracketTyped, CoreStep, TypesSplit DEF Inv

\* So it holds throughout.
LEMMA InvHolds == Spec => []Inv
<1> QED BY InitInv, InvStep, PTL DEF Spec

-----------------------------------------------------------------------------
(* What is proved.                                                           *)

\* Every row of a tournament keeps its type.
THEOREM TypesHold == Spec => []TypeOK
<1>1. Inv => TypeOK
  BY DEF Inv
<1> QED BY <1>1, InvHolds, PTL

\* Winners reach the slot of their next match whichever of its two matches is
\* decided first and however, and the winner of the final is champion: advanceWinnerTx
\* after play, forfeit, moderation or the deletion of an account.
THEOREM BracketIsSound == Spec => []BracketSound
<1>1. Inv => BracketSound
  BY DEF Inv, Core
<1> QED BY <1>1, InvHolds, PTL

\* An entrant has one match to play at most: the findFirst of forfeitEntrantTx
\* has nothing to choose from.
THEOREM EntrantsHaveOneMatch == Spec => []OneOpenMatch
<1>1. ASSUME Inv PROVE OneOpenMatch
  <2> SUFFICES ASSUME NEW c \in Captains PROVE Cardinality(OpenMatches(c)) <= 1
    BY DEF OneOpenMatch
  <2>1. CASE OpenMatches(c) = {}
    BY <2>1, FS_EmptySet
  <2>2. CASE OpenMatches(c) # {}
    <3>1. PICK m \in OpenMatches(c) : TRUE
      BY <2>2
    <3>2. OpenMatches(c) = {m}
      BY <1>1, <3>1 DEF Inv, Core, OneOpen, OpenMatches
    <3> QED BY <3>2, FS_Singleton
  <2> QED BY <2>1, <2>2
<1> QED BY <1>1, InvHolds, PTL

\* A game is open only for a match with two entrants, and for none that was
\* forfeited or cancelled.
THEOREM GamesAreOfMatches == Spec => []LiveGameIsOfMatch
<1>1. Inv => LiveGameIsOfMatch
  BY DEF Inv, Core
<1> QED BY <1>1, InvHolds, PTL

\* Neither a late answer of syncDue, nor a second resolution, nor a forfeit, nor
\* a cancellation decides a decided match again.
THEOREM MatchesAreDecidedOnce == Spec => DecidedOnce
<1>1. ASSUME Inv, [Next]_vars, NEW k \in Matches, match[k].status \in Decided
      PROVE  match'[k].status = match[k].status /\ match'[k].winner = match[k].winner
  <2>0. match \in [Matches -> MatchRows] /\ match[k].status \notin Undecided
    BY <1>1, TypesAre DEF Inv, Decided, Undecided
  <2>1. Kind
    BY <1>1, StepKind
  <2>2. CASE Calm
    BY <2>2 DEF Calm
  <2>3. CASE start
    <3>1. match[k] = NoMatch
      BY <1>1, <2>3, Undrawn DEF start, Registering
    <3> QED BY <1>1, <3>1 DEF NoMatch, Decided
  <2>4. CASE Cancels
    BY <2>0, <2>4 DEF Cancels, CancelTournament
  <2>5. ASSUME NEW m \in Matches, PlayGame(m) \/ Marks(m)
        PROVE  match'[k].status = match[k].status /\ match'[k].winner = match[k].winner
    BY <2>0, <2>5 DEF PlayGame, Marks
  <2>6. ASSUME NEW m \in Matches, NEW w \in Captains, NEW end \in Decided, NEW es, NEW gs, Decides(m, w, end, es, gs)
        PROVE  match'[k].status = match[k].status /\ match'[k].winner = match[k].winner
    <3>1. PICK n : n = m \div 2
      OBVIOUS
    <3>2. Advanced(m, w, end, gs, n)
      BY <1>1, <2>6, <3>1, AdvancedMatches DEF Inv, Decides
    <3>3. k # m
      BY <2>0, <3>2 DEF Advanced
    <3>4. CASE k # n
      BY <3>2, <3>3, <3>4 DEF Advanced
    <3>5. CASE k = n
      <4>1. m # 1
        BY <3>1, <3>5, Somebody
      <4>2. match[n].status # "PENDING"
        BY <1>1, <3>5 DEF Decided
      <4> QED BY <3>2, <3>5, <4>1, <4>2 DEF Advanced
    <3> QED BY <3>4, <3>5
  <2> QED BY <2>1, <2>2, <2>3, <2>4, <2>5, <2>6 DEF Kind
<1>2. Inv /\ [Next]_vars => [\A m \in Matches : match[m].status \in Decided =>
                               match'[m].status = match[m].status /\ match'[m].winner = match[m].winner]_vars
  BY <1>1
<1> QED BY <1>2, InvHolds, PTL DEF Spec, DecidedOnce

\* The games of the matches live the life the game platform promises: what a
\* tournament does to them, forfeits and deletions included, is a step of it.
THEOREM TournamentGamesLiveOnce == Spec => GamesLiveOnce
<1>1. ASSUME Inv, [Next]_vars, NEW k \in Matches PROVE game'[k] = game[k] \/ game'[k] \in Life(k)!After(game[k])
  <2>0. game \in [Matches -> Games]
    BY <1>1, TypesAre DEF Inv
  <2>1. Kind
    BY <1>1, StepKind
  <2>2. CASE Calm
    BY <2>2 DEF Calm, Lawful
  <2>3. CASE start
    <3>1. game[k].status = "NONE"
      BY <1>1, <2>3, Undrawn DEF start, Registering, NoGame
    <3>2. game'[k] = game[k] \/ game'[k] = [game[k] EXCEPT !.status = "WAITING"]
      BY <2>3 DEF start
    <3> QED BY <3>1, <3>2 DEF Life!After, Life!Offered
  <2>4. CASE Cancels
    BY <1>1, <2>4, EndsGames DEF Cancels, CancelTournament
  <2>5. ASSUME NEW m \in Matches, PlayGame(m) PROVE game'[k] = game[k] \/ game'[k] \in Life(k)!After(game[k])
    <3>1. PICK g \in Games : game' = [game EXCEPT ![m] = g] /\ g \in Life(m)!After(game[m])
      BY <1>1, <2>5, PlayedGames
    <3>2. CASE k = m
      BY <2>0, <3>1, <3>2
    <3>3. CASE k # m
      BY <2>0, <3>1, <3>3
    <3> QED BY <3>2, <3>3
  <2>6. ASSUME NEW m \in Matches, Marks(m) PROVE game'[k] = game[k] \/ game'[k] \in Life(k)!After(game[k])
    BY <2>6 DEF Marks, Lawful
  <2>7. ASSUME NEW m \in Matches, NEW w \in Captains, NEW end \in Decided, NEW es, NEW gs, Decides(m, w, end, es, gs)
        PROVE  game'[k] = game[k] \/ game'[k] \in Life(k)!After(game[k])
    <3>1. PICK n : n = m \div 2
      OBVIOUS
    <3>2. Advanced(m, w, end, gs, n)
      BY <1>1, <2>7, <3>1, AdvancedMatches DEF Inv, Decides
    <3>3. Lawful(gs) /\ Ending(gs) /\ gs \in [Matches -> Games]
      BY <2>7 DEF Decides
    <3>4. game' = gs \/ (game[n].status = "NONE" /\ game' = [gs EXCEPT ![n].status = "WAITING"])
      BY <3>2 DEF Advanced
    <3>5. CASE game'[k] = gs[k]
      BY <3>3, <3>5 DEF Lawful
    <3>6. CASE game'[k] # gs[k]
      <4>1. k = n /\ game[k].status = "NONE" /\ game'[k] = [gs[k] EXCEPT !.status = "WAITING"]
        BY <3>3, <3>4, <3>6
      <4>2. gs[k] = game[k]
        BY <3>3, <4>1 DEF Ending
      <4> QED BY <4>1, <4>2 DEF Life!After, Life!Offered
    <3> QED BY <3>5, <3>6
  <2> QED BY <2>1, <2>2, <2>3, <2>4, <2>5, <2>6, <2>7 DEF Kind
<1>2. Inv /\ [Next]_vars => [\A m \in Matches : game'[m] = game[m] \/ Life(m)!Next]_vars
  BY <1>1 DEF Life!Next
<1> QED BY <1>2, InvHolds, PTL DEF Spec, GamesLiveOnce

-----------------------------------------------------------------------------
(* Who is still in the running.                                              *)

\* A match is not played before both its entrants are known.
Played == \A m \in Matches : game[m].status # "NONE" => Nobody \notin Slots(m)

\* While the tournament is under way: whoever plays in an undecided match is ready or
\* has withdrawn; a match that waits for no game has been given up by the one entrant it
\* has; and one that was decided without an opponent was decided for an entrant who withdrew.
Running ==
  tournament.status = "ACTIVE" =>
    \A m \in Matches :
      /\ match[m].status # "CANCELLED"
      /\ match[m].status \in Undecided => \A c \in Slots(m) \ {Nobody} : entrant[c] \in {"READY", "WITHDRAWN"}
      /\ match[m].status \in Undecided \ {"PENDING"} /\ Nobody \in Slots(m) =>
           \E c \in Slots(m) \ {Nobody} : entrant[c] = "WITHDRAWN"
      /\ match[m].status \in Decided /\ Nobody \in Slots(m) =>
           match[m].status = "COMPLETED" /\ entrant[match[m].winner] = "WITHDRAWN"

RunInv == Inv /\ Played /\ Running /\ InTheRunning

\* The entrants stay what they are, but for some who withdraw.
Leave(es) == es \in [Captains -> Teams] /\ \A c \in Captains : es[c] \in {entrant[c], "WITHDRAWN"}

\* What start draws, in the order of the seeds: every ready entrant has a match.
LEMMA SeatsDrawn ==
  ASSUME Inv, start
  PROVE  /\ \A c \in InState({"READY"}) : \E m \in Matches : match'[m].status = "WAITING" /\ c \in Slots(m)'
         /\ \A m \in Matches : \/ match'[m].status = "NONE"
                               \/ match'[m].status = "PENDING" /\ Slots(m)' = {Nobody}
                               \/ match'[m].status = "WAITING" /\ Slots(m)' \subseteq InState({"READY"})
<1> DEFINE ready == InState({"READY"})
           n == Cardinality(ready)
<1>1. ready \subseteq Captains /\ IsFiniteSet(Captains)
  BY TournamentAssumption DEF InState
<1>2. IsFiniteSet(ready) /\ n \in Nat /\ n <= MaxEntrants /\ MaxEntrants \in Nat
  <2>1. IsFiniteSet(ready) /\ n <= Cardinality(Captains)
    BY <1>1, FS_Subset
  <2> QED BY <2>1, <1>1, FS_CardinalityType, TournamentAssumption
<1>3. PICK seeded \in Seedings(ready) : match' = Bracket(n, seeded)
  BY DEF start
<1>4. seeded \in [1..n -> ready] /\ \A i, j \in 1..n : i < j => seeded[i] < seeded[j]
  BY <1>3 DEF Seedings
<1>5. PowerOfTwo(n)
  BY DEF start
<1>s. \A m \in Matches : Slots(m)' = {match'[m].first, match'[m].second}
  BY DEF Slots
<1> HIDE DEF n, ready
<1>6. PICK half \in 1..16 : half = n \div 2 /\ n = 2 * half
  BY <1>2, <1>5, Sizes
<1>7. match' = [m \in Matches |->
        IF m >= n THEN NoMatch
        ELSE IF m < half THEN [NoMatch EXCEPT !.status = "PENDING"]
        ELSE [NoMatch EXCEPT !.first = seeded[2 * (m - half) + 1], !.second = seeded[2 * (m - half) + 2],
                             !.status = "WAITING"]]
  BY <1>3, <1>6 DEF Bracket
<1>8. ASSUME NEW m \in Matches, m < n, ~(m < half)
      PROVE  /\ 2 * (m - half) + 1 \in 1..n /\ 2 * (m - half) + 2 \in 1..n
             /\ match'[m].status = "WAITING"
             /\ match'[m].first = seeded[2 * (m - half) + 1] /\ match'[m].second = seeded[2 * (m - half) + 2]
  <2>1. m \in Nat
    BY Somebody
  <2>2. ~(m >= n)
    BY <1>6, <1>8, <2>1
  <2>3. match'[m] = [NoMatch EXCEPT !.first = seeded[2 * (m - half) + 1], !.second = seeded[2 * (m - half) + 2],
                                    !.status = "WAITING"]
    BY <1>7, <1>8, <2>2
  <2>4. 2 * (m - half) + 1 \in 1..n /\ 2 * (m - half) + 2 \in 1..n
    BY <1>6, <1>8, <2>1
  <2> QED BY <2>3, <2>4 DEF NoMatch
<1>9. \A m \in Matches : \/ match'[m].status = "NONE"
                         \/ match'[m].status = "PENDING" /\ Slots(m)' = {Nobody}
                         \/ match'[m].status = "WAITING" /\ Slots(m)' \subseteq ready
  <2> SUFFICES ASSUME NEW m \in Matches
               PROVE  \/ match'[m].status = "NONE"
                      \/ match'[m].status = "PENDING" /\ Slots(m)' = {Nobody}
                      \/ match'[m].status = "WAITING" /\ Slots(m)' \subseteq ready
    OBVIOUS
  <2>1. CASE m >= n
    BY <1>7, <2>1 DEF NoMatch
  <2>2. CASE ~(m >= n) /\ m < half
    <3>1. match'[m] = [NoMatch EXCEPT !.status = "PENDING"]
      BY <1>7, <2>2
    <3> QED BY <3>1, <1>s DEF NoMatch
  <2>3. CASE ~(m >= n) /\ ~(m < half)
    <3>1. m < n
      BY <1>6, <2>3, Somebody
    <3> QED BY <3>1, <2>3, <1>8, <1>4, <1>s
  <2> QED BY <2>1, <2>2, <2>3
<1>10. ASSUME NEW c \in ready PROVE \E i \in 1..n : seeded[i] = c
  <2> SUFFICES ASSUME \A i \in 1..n : seeded[i] # c PROVE FALSE
    OBVIOUS
  <2>1. IsFiniteSet(ready \ {c}) /\ Cardinality(ready \ {c}) = n - 1
    BY <1>2, FS_RemoveElement DEF n
  <2>2. IsFiniteSet(1..n) /\ Cardinality(1..n) = n
    <3>1. IsFiniteSet(1..n) /\ Cardinality(1..n) = IF 1 > n THEN 0 ELSE n - 1 + 1
      BY <1>2, FS_Interval
    <3> QED BY <3>1, <1>6
  <2>3. seeded \in [1..n -> ready \ {c}]
    BY <1>4
  <2>4. Cardinality(ready \ {c}) < Cardinality(1..n)
    BY <2>1, <2>2, <1>2
  <2> DEFINE S == 1..n
             T == ready \ {c}
  <2>a. IsFiniteSet(S) /\ IsFiniteSet(T) /\ Cardinality(T) < Cardinality(S) /\ seeded \in [S -> T]
    BY <2>1, <2>2, <2>3, <2>4
  <2> HIDE DEF S, T
  <2>b. \E i, j \in S : i # j /\ seeded[i] = seeded[j]
    BY <2>a, FS_PigeonHole
  <2>5. PICK i \in 1..n, j \in 1..n : i # j /\ seeded[i] = seeded[j]
    BY <2>b DEF S
  <2>6. seeded[i] \in Nat
    BY <1>1, <1>4, TournamentAssumption
  <2>7. i < j \/ j < i
    BY <2>5, <1>2
  <2> QED BY <2>5, <2>6, <2>7, <1>4
<1>11. ASSUME NEW c \in ready PROVE \E m \in Matches : match'[m].status = "WAITING" /\ c \in Slots(m)'
  <2>1. PICK i \in 1..n : seeded[i] = c
    BY <1>10
  <2>2. PICK j \in 0..15 : j < half /\ (i = 2 * j + 1 \/ i = 2 * j + 2)
    <3>1. i \in 1..32
      BY <1>6
    <3>2. (i - 1) \div 2 \in 0..15 /\ (i - 1) \div 2 < half
          /\ (i = 2 * ((i - 1) \div 2) + 1 \/ i = 2 * ((i - 1) \div 2) + 2)
      BY <3>1, <1>6
    <3> QED BY <3>2
  <2>3. half + j \in Matches /\ half + j < n /\ ~(half + j < half) /\ (half + j) - half = j
    BY <2>2, <1>2, <1>6 DEF Matches
  <2>4. /\ match'[half + j].status = "WAITING"
        /\ match'[half + j].first = seeded[2 * j + 1] /\ match'[half + j].second = seeded[2 * j + 2]
    BY <2>3, <1>8
  <2> QED BY <2>1, <2>2, <2>3, <2>4, <1>s
<1> QED BY <1>9, <1>11 DEF ready

\* A match is marked, and given up by the one entrant it has when it has one.
GivesUp(m) ==
  /\ match[m].status \in Undecided /\ Slots(m) # {Nobody}
  /\ \E s \in {"ACTIVE", "REVIEW_REQUIRED"} : match' = [match EXCEPT ![m].status = s]
  /\ Leave(entrant')
  /\ Nobody \in Slots(m) => \E c \in Slots(m) \ {Nobody} : entrant'[c] = "WITHDRAWN"

\* A match is decided, and by moderation when it has one entrant.
Wins(m, w, end, es, gs) ==
  /\ Advance(m, w, end, es, gs) /\ end \in Decided /\ Leave(es)
  /\ Nobody \in Slots(m) => end = "COMPLETED" /\ entrant[w] = "WITHDRAWN"

\* What a step of a tournament that goes on does to those in the running.
GoesOn ==
  \/ UNCHANGED match /\ Leave(entrant')
  \/ \E m \in Matches : GivesUp(m)
  \/ \E m \in Matches, w \in Captains, end \in Decided : \E es, gs : Wins(m, w, end, es, gs)

UnderWay == RunInv /\ tournament.status = "ACTIVE" /\ tournament'.status = "ACTIVE"

\* An entrant who is set aside withdraws.
LEMMA OutLeaves ==
  ASSUME UnderWay, NEW c \in Captains
  PROVE  /\ Leave(Out("WITHDRAWN", c, entrant))
         /\ entrant[c] \in {"READY", "WITHDRAWN"} => Out("WITHDRAWN", c, entrant)[c] = "WITHDRAWN"
<1> DEFINE es == Out("WITHDRAWN", c, entrant)
<1>1. entrant \in [Captains -> Teams]
  BY DEF UnderWay, RunInv, Inv, TypeOK
<1>2. es = [entrant EXCEPT ![c] = IF entrant[c] \in {"PENDING", "READY"} THEN "WITHDRAWN" ELSE entrant[c]]
  BY DEF Out
<1> HIDE DEF es
<1>3. es \in [Captains -> Teams]
  BY <1>1, <1>2 DEF Teams
<1>4. \A d \in Captains : es[d] \in {entrant[d], "WITHDRAWN"}
  BY <1>1, <1>2
<1>5. entrant[c] \in {"READY", "WITHDRAWN"} => es[c] = "WITHDRAWN"
  BY <1>1, <1>2
<1> QED BY <1>3, <1>4, <1>5 DEF Leave, es

\* Entrants who stay what they are are among those some of whom may have withdrawn.
LEMMA StayLeaves == ASSUME UnderWay PROVE Leave(entrant)
BY DEF Leave, UnderWay, RunInv, Inv, TypeOK

\* forfeitEntrantTx.
LEMMA ForfeitGoesOn ==
  ASSUME UnderWay, NEW c \in Captains, NEW gs, Forfeit(c, gs)
  PROVE  GoesOn
<1> DEFINE es == Out("WITHDRAWN", c, entrant)
<1>1. Leave(es) /\ (entrant[c] \in {"READY", "WITHDRAWN"} => es[c] = "WITHDRAWN")
  BY OutLeaves
<1> HIDE DEF es
<1>2. \A m \in OpenMatches(c) : m \in Matches /\ c \in Slots(m) /\ match[m].status \in Undecided
  BY DEF OpenMatches
<1>n. c # Nobody
  BY Somebody
<1>3. CASE UNCHANGED match /\ entrant' = es
  BY <1>1, <1>3 DEF GoesOn
<1>4. ASSUME NEW m \in OpenMatches(c), match' = [match EXCEPT ![m].status = "REVIEW_REQUIRED"], entrant' = es
      PROVE  GoesOn
  <2>1. entrant[c] \in {"READY", "WITHDRAWN"}
    BY <1>2, <1>n DEF UnderWay, RunInv, Running
  <2>2. GivesUp(m)
    BY <1>1, <1>2, <1>4, <1>n, <2>1 DEF GivesUp
  <2> QED BY <1>2, <2>2 DEF GoesOn
<1>5. ASSUME NEW m \in OpenMatches(c), NEW fs, Advance(m, Opponent(m, c), "FORFEIT", es, fs) PROVE GoesOn
  <2>1. PICK w : w = Opponent(m, c)
    OBVIOUS
  <2>2. w # Nobody /\ w \in Slots(m) /\ Slots(m) \subseteq Entrants
    BY <1>2, <1>5, <2>1, TypesAre DEF Advance, UnderWay, RunInv, Inv
  <2>3. Nobody \notin Slots(m)
    BY <1>2, <1>n, <2>1, <2>2 DEF Slots, Opponent
  <2>4. Wins(m, w, "FORFEIT", es, fs)
    BY <1>1, <1>5, <2>1, <2>3 DEF Wins, Decided
  <2> QED BY <1>2, <2>2, <2>4 DEF GoesOn, Entrants, Decided
<1> QED BY <1>3, <1>4, <1>5 DEF Forfeit, es

\* The organiser's steps do not go on with a tournament.
LEMMA OrganiseStops == ASSUME UnderWay, Organise PROVE FALSE
<1>1. tournament \in TournamentRows
  BY TypesSplit DEF UnderWay, RunInv, Inv, PeopleOK
<1> QED BY <1>1 DEF UnderWay, Organise, create, openRegistration, CloseRegistration, start, cancel, governCancel,
       CancelTournament, Registering, TournamentRows

\* What an entrant does while the tournament is under way is to withdraw, at most.
LEMMA EnterGoesOn == ASSUME UnderWay, NEW c \in Captains, Enter(c) PROVE GoesOn
<1>1. CASE Suspend(c) \/ Restore(c)
  BY <1>1, StayLeaves DEF Suspend, Restore, GoesOn
<1>2. CASE registerEntrant(c) \/ acceptInvitation(c)
  BY <1>2 DEF registerEntrant, acceptInvitation, RegistrationOpen, UnderWay
<1>3. CASE withdraw(c)
  <2>1. Forfeit(c, game)
    BY <1>3 DEF withdraw, UnderWay
  <2> QED BY <2>1, ForfeitGoesOn
<1> QED BY <1>1, <1>2, <1>3 DEF Enter

\* A contest is played, is opened, or is decided for one of its entrants.
LEMMA ContestGoesOn == ASSUME UnderWay, NEW m \in Matches, Contest(m) PROVE GoesOn
<1>1. CASE PlayGame(m)
  BY <1>1, StayLeaves DEF PlayGame, GoesOn
<1>2. CASE SyncBegun(m) \/ SyncReview(m)
  <2>1. game[m].status # "NONE"
    BY <1>2 DEF SyncBegun, SyncReview
  <2>2. Nobody \notin Slots(m)
    BY <2>1 DEF UnderWay, RunInv, Played
  <2>3. GivesUp(m)
    BY <1>2, <2>2, StayLeaves DEF GivesUp, SyncBegun, SyncReview
  <2> QED BY <2>3 DEF GoesOn
<1>3. CASE SyncWon(m) \/ resolveMatch(m)
  <2>1. PICK w \in Slots(m) : Advance(m, w, "COMPLETED", entrant, game)
    BY <1>3 DEF SyncWon, resolveMatch, HasWinner
  <2>2. w \in Captains
    BY <2>1, TypesAre DEF UnderWay, RunInv, Inv, Advance, Entrants
  <2>3. ASSUME Nobody \in Slots(m) PROVE entrant[w] = "WITHDRAWN"
    <3>1. match[m].status = "REVIEW_REQUIRED"
      BY <1>3, <2>3 DEF UnderWay, RunInv, Played, SyncWon, HasWinner, resolveMatch
    <3>2. PICK c \in Slots(m) \ {Nobody} : entrant[c] = "WITHDRAWN"
      BY <2>3, <3>1 DEF UnderWay, RunInv, Running, Undecided
    <3>3. w # Nobody
      BY <2>1 DEF Advance
    <3> QED BY <2>3, <3>2, <3>3 DEF Slots
  <2>4. Wins(m, w, "COMPLETED", entrant, game)
    BY <2>1, <2>3, StayLeaves DEF Wins, Decided
  <2> QED BY <2>2, <2>4 DEF GoesOn, Decided
<1> QED BY <1>1, <1>2, <1>3 DEF Contest, syncMatch

\* A deletion withdraws its account, gives its matches up or decides them.
LEMMA DeleteGoesOn == ASSUME UnderWay, Delete PROVE GoesOn
<1>0. entrant \in [Captains -> Teams]
  BY DEF UnderWay, RunInv, Inv, TypeOK
<1>1. CASE UNCHANGED <<match, entrant>>
  BY <1>1, StayLeaves DEF GoesOn
<1>2. CASE DeleteOwner
  <2>1. deletion.tournament \notin Registering
    BY <1>2, TypesSplit DEF DeleteOwner, CancelTournament, UnderWay, RunInv, Inv, PeopleOK, TournamentRows
  <2>2. UNCHANGED <<match, entrant>>
    BY <1>2, <2>1 DEF DeleteOwner
  <2> QED BY <1>1, <2>2
<1>3. ASSUME NEW c \in Captains, DeleteCaptain(c) \/ DeleteMate(c) PROVE GoesOn
  <2>1. Leave(Deserted)
    BY <1>0, <1>3 DEF Leave, Deserted, DeleteCaptain, DeleteMate, Teams
  <2>2. CASE DeleteCaptain(c) /\ deletion.tournament = "ACTIVE"
    BY <2>2, ForfeitGoesOn DEF DeleteCaptain
  <2>3. CASE entrant' = Deserted /\ UNCHANGED match
    BY <2>1, <2>3 DEF GoesOn
  <2> QED BY <1>3, <2>2, <2>3 DEF DeleteCaptain, DeleteMate
<1> QED BY <1>1, <1>2, <1>3 DEF Delete, WriteDeletion, ReadDeletion, AbortDeletion

\* Whatever happens under way is one of these.
LEMMA StepGoesOn == ASSUME UnderWay, [Next]_vars PROVE GoesOn
<1>1. CASE UNCHANGED vars
  BY <1>1, StayLeaves DEF vars, GoesOn
<1>2. CASE Next
  BY <1>2, OrganiseStops, EnterGoesOn, ContestGoesOn, DeleteGoesOn DEF Next
<1> QED BY <1>1, <1>2

\* Nothing is played before both are known, whatever the step.
LEMMA PlayedStep == ASSUME Inv, Played, [Next]_vars PROVE Played'
<1>0. match \in [Matches -> MatchRows] /\ game \in [Matches -> Games]
  BY TypesAre DEF Inv
<1>1. Kind
  BY StepKind
<1>2. CASE Calm
  BY <1>2 DEF Calm, Ending, Played, Slots
<1>3. CASE start
  <2>1. \A m \in Matches : game[m].status = "NONE"
    BY <1>3, Undrawn DEF start, Registering, NoGame
  <2>2. PICK n \in Nat : \E seeded \in [1..n -> Captains] : Draws(n, seeded)
    BY <1>3, StartRows
  <2>3. PICK seeded \in [1..n -> Captains] : Draws(n, seeded)
    BY <2>2
  <2>4. WellDrawn(match', n, n \div 2)
    BY <2>3, BracketRows DEF Draws
  <2> QED BY <2>1, <2>3, <2>4, Somebody DEF WellDrawn, Draws, Played, Slots
<1>4. CASE Cancels
  <2>1. \A m \in Matches : Slots(m)' = Slots(m)
    BY <1>0, <1>4 DEF Cancels, CancelTournament, MatchRows, Slots
  <2>2. \A m \in Matches : game'[m].status # "NONE" => game[m].status # "NONE"
    BY <1>4 DEF Cancels, CancelTournament, Ends
  <2> QED BY <2>1, <2>2 DEF Played
<1>5. ASSUME NEW m \in Matches, PlayGame(m) PROVE Played'
  <2>1. PICK g \in Games : game' = [game EXCEPT ![m] = g] /\ game[m].status # "NONE" /\ UNCHANGED match
    BY <1>5, PlayedGames
  <2> QED BY <1>0, <2>1 DEF Played, Slots
<1>6. ASSUME NEW m \in Matches, Marks(m) PROVE Played'
  <2>1. \A k \in Matches : Slots(k)' = Slots(k)
    BY <1>0, <1>6 DEF Marks, MatchRows, Slots
  <2> QED BY <1>6, <2>1 DEF Marks, Ending, Played
<1>7. ASSUME NEW m \in Matches, NEW w \in Captains, NEW end \in Decided, NEW es, NEW gs, Decides(m, w, end, es, gs)
      PROVE  Played'
  <2>1. PICK n : n = m \div 2
    OBVIOUS
  <2>2. Advanced(m, w, end, gs, n)
    BY <1>7, <2>1, AdvancedMatches DEF Inv, Decides
  <2> SUFFICES ASSUME NEW k \in Matches, game'[k].status # "NONE" PROVE Nobody \notin Slots(k)'
    BY DEF Played
  <2>3. CASE k # n \/ m = 1
    <3>1. Slots(k)' = Slots(k)
      <4>1. k # n
        BY <2>1, <2>3, Somebody
      <4>2. CASE k = m
        <5>1. match'[k] = [match[k] EXCEPT !.status = end, !.winner = w]
          BY <2>2, <4>2 DEF Advanced
        <5> QED BY <1>0, <5>1 DEF MatchRows, Slots
      <4>3. CASE k # m
        BY <2>2, <4>1, <4>3 DEF Advanced, Slots
      <4> QED BY <4>2, <4>3
    <3>2. game'[k] = gs[k]
      BY <1>7, <2>2, <2>3 DEF Advanced, Decides
    <3>3. game[k].status # "NONE"
      BY <1>7, <3>2 DEF Decides, Ending
    <3> QED BY <3>1, <3>3 DEF Played
  <2>4. CASE k = n /\ m # 1
    <3>1. CASE game' = gs
      <4>1. Nobody \notin Slots(n)
        BY <1>7, <2>4, <3>1 DEF Decides, Ending, Played
      <4> QED BY <2>2, <2>4, <4>1, Somebody DEF Advanced, Slots
    <3>2. CASE game' # gs
      BY <2>2, <2>4, <3>2 DEF Advanced
    <3> QED BY <3>1, <3>2
  <2> QED BY <2>3, <2>4
<1> QED BY <1>1, <1>2, <1>3, <1>4, <1>5, <1>6, <1>7 DEF Kind

\* The bracket drawn, all who are ready have a match to play.
LEMMA StartRuns == ASSUME Inv, start PROVE Running' /\ InTheRunning'
<1>1. entrant' = entrant
  BY DEF start
<1>2. \A c \in Captains : c \in InState({"READY"}) => \E m \in Matches : match'[m].status = "WAITING" /\ c \in Slots(m)'
  BY SeatsDrawn
<1>3. \A m \in Matches : \/ match'[m].status = "NONE"
                         \/ match'[m].status = "PENDING" /\ Slots(m)' = {Nobody}
                         \/ match'[m].status = "WAITING" /\ Slots(m)' \subseteq InState({"READY"})
  BY SeatsDrawn
<1>4. \A c \in Captains : c \in InState({"READY"}) <=> entrant'[c] = "READY"
  BY <1>1 DEF InState
<1>5. Running'
  <2>1. \A m \in Matches : match'[m].status \in {"NONE", "PENDING"} \/ Nobody \notin Slots(m)'
    BY <1>3, Somebody DEF InState
  <2>2. \A m \in Matches : match'[m].status \in Undecided => \A c \in Slots(m)' \ {Nobody} : entrant'[c] = "READY"
    BY <1>3, <1>4 DEF InState, Undecided
  <2>3. \A m \in Matches : match'[m].status \notin {"CANCELLED"} \cup Decided
    BY <1>3 DEF Decided
  <2> QED BY <2>1, <2>2, <2>3 DEF Running, Undecided
<1>6. InTheRunning'
  <2> SUFFICES ASSUME NEW c \in Captains, entrant'[c] = "READY" PROVE OpenMatches(c)' # {}
    BY DEF InTheRunning, InState
  <2>1. PICK m \in Matches : match'[m].status = "WAITING" /\ c \in Slots(m)'
    BY <1>2, <1>4
  <2> QED BY <2>1 DEF OpenMatches, Undecided
<1> QED BY <1>5, <1>6

\* A step that gives up a match at most.
LEMMA QuietRuns ==
  ASSUME UnderWay, Leave(entrant'), UNCHANGED match \/ \E m \in Matches : GivesUp(m)
  PROVE  Running' /\ InTheRunning'
<1>0. match \in [Matches -> MatchRows]
  BY TypesAre DEF UnderWay, RunInv, Inv
<1>1. \A k \in Matches : Slots(k)' = Slots(k) /\ match'[k].winner = match[k].winner
  BY <1>0 DEF GivesUp, MatchRows, Slots
<1>2. \A k \in Matches : Slots(k) \subseteq Captains \cup {Nobody}
  BY TypesAre DEF UnderWay, RunInv, Inv, Entrants
<1>3. \A k \in Matches : \/ match'[k] = match[k]
                         \/ /\ match[k].status \in Undecided /\ match'[k].status \in {"ACTIVE", "REVIEW_REQUIRED"}
                            /\ Nobody \in Slots(k) => \E c \in Slots(k) \ {Nobody} : entrant'[c] = "WITHDRAWN"
  BY <1>0 DEF GivesUp, MatchRows
<1>4. \A c \in Captains : /\ entrant[c] = "WITHDRAWN" => entrant'[c] = "WITHDRAWN"
                          /\ entrant'[c] = "READY" => entrant[c] = "READY"
                          /\ entrant[c] \in {"READY", "WITHDRAWN"} => entrant'[c] \in {"READY", "WITHDRAWN"}
  BY DEF Leave
<1>w. \A k \in Matches : match[k].status \in Decided => match[k].winner \in Captains
  <2>1. ASSUME NEW k \in Matches, match[k].status \in Decided PROVE match[k].winner \in Slots(k) \ {Nobody}
    BY <2>1 DEF UnderWay, RunInv, Inv, Core, BracketSound, Decided
  <2> QED BY <1>2, <2>1
<1>5. Running'
  <2> SUFFICES ASSUME NEW k \in Matches
               PROVE  /\ match'[k].status # "CANCELLED"
                      /\ match'[k].status \in Undecided => \A c \in Slots(k) \ {Nobody} : entrant'[c] \in {"READY", "WITHDRAWN"}
                      /\ match'[k].status \in Undecided \ {"PENDING"} /\ Nobody \in Slots(k) =>
                           \E c \in Slots(k) \ {Nobody} : entrant'[c] = "WITHDRAWN"
                      /\ match'[k].status \in Decided /\ Nobody \in Slots(k) =>
                           match'[k].status = "COMPLETED" /\ entrant'[match'[k].winner] = "WITHDRAWN"
    BY <1>1 DEF Running
  <2>1. CASE match'[k] = match[k]
    BY <1>2, <1>4, <1>w, <2>1 DEF UnderWay, RunInv, Running
  <2>2. CASE match'[k] # match[k]
    BY <1>2, <1>3, <1>4, <2>2 DEF UnderWay, RunInv, Running, Undecided, Decided
  <2> QED BY <2>1, <2>2
<1>6. InTheRunning'
  <2> SUFFICES ASSUME NEW c \in Captains, entrant'[c] = "READY" PROVE OpenMatches(c)' # {} \/ Forestalled(c)'
    BY DEF InTheRunning, InState
  <2>1. OpenMatches(c) # {} \/ Forestalled(c)
    BY <1>4 DEF UnderWay, RunInv, InTheRunning, InState
  <2>2. CASE OpenMatches(c) # {}
    BY <1>1, <1>3, <2>2 DEF OpenMatches, Undecided
  <2>3. CASE Forestalled(c)
    <3>1. PICK m \in Matches : /\ match[m].status = "COMPLETED" /\ c \in Slots(m)
                               /\ match[m].winner # Nobody /\ entrant[match[m].winner] = "WITHDRAWN"
      BY <2>3 DEF Forestalled
    <3>2. match'[m] = match[m]
      BY <1>3, <3>1 DEF Undecided
    <3> QED BY <1>1, <1>4, <1>w, <3>1, <3>2 DEF Forestalled, Decided
  <2> QED BY <2>1, <2>2, <2>3
<1> QED BY <1>5, <1>6

\* What the entrants are once w has won m from opponent o.
Eliminates(o) ==
  /\ \A c \in Captains \ {o} : entrant'[c] \in {entrant[c], "WITHDRAWN"}
  /\ \A c \in Captains : entrant[c] = "WITHDRAWN" => entrant'[c] = "WITHDRAWN"
  /\ o \in Captains => entrant'[o] # "READY"

\* A win that is not of the final puts at most the loser out.
LEMMA WinEliminates ==
  ASSUME UnderWay, NEW m \in Matches, NEW w \in Captains, NEW end \in Decided, NEW es, NEW gs, Wins(m, w, end, es, gs)
  PROVE  Eliminates(Opponent(m, w)) /\ m # 1
<1>1. m # 1
  <2> SUFFICES ASSUME m = 1 PROVE FALSE
    OBVIOUS
  <2>1. PICK n : n = m \div 2
    OBVIOUS
  <2>2. Advanced(m, w, end, gs, n)
    BY <2>1, AdvancedMatches DEF Wins, UnderWay, RunInv, Inv
  <2>3. tournament'.status = "COMPLETED"
    BY <2>2 DEF Advanced, UnderWay, RunInv, Inv, TypeOK
  <2> QED BY <2>3 DEF UnderWay
<1>2. PICK o : o = Opponent(m, w)
  OBVIOUS
<1>3. m \div 2 # 0
  BY <1>1, Somebody, Next2
<1>4. entrant' = Beaten(o, es)
  BY <1>1, <1>2, <1>3 DEF Wins, Advance, IsFinal
<1>5. es \in [Captains -> Teams] /\ \A c \in Captains : es[c] \in {entrant[c], "WITHDRAWN"}
  BY DEF Wins, Leave
<1>e. Eliminates(o)
  <2>1. \A c \in Captains \ {o} : entrant'[c] = es[c]
    <3>1. CASE o = Nobody
      <4>1. entrant' = es
        BY <1>4, <3>1 DEF Beaten
      <4> QED BY <4>1
    <3>2. CASE o # Nobody
      <4>1. entrant' = [es EXCEPT ![o] = IF es[o] \in {"PENDING", "READY"} THEN "ELIMINATED" ELSE es[o]]
        BY <1>4, <3>2 DEF Beaten, Out
      <4> QED BY <1>5, <4>1
    <3> QED BY <3>1, <3>2
  <2>2. o \in Captains => entrant'[o] # "READY" /\ (es[o] = "WITHDRAWN" => entrant'[o] = "WITHDRAWN")
    <3> SUFFICES ASSUME o \in Captains
                 PROVE  entrant'[o] # "READY" /\ (es[o] = "WITHDRAWN" => entrant'[o] = "WITHDRAWN")
      OBVIOUS
    <3>1. o # Nobody
      BY Somebody
    <3>2. entrant' = [es EXCEPT ![o] = IF es[o] \in {"PENDING", "READY"} THEN "ELIMINATED" ELSE es[o]]
      BY <1>4, <3>1 DEF Beaten, Out
    <3> QED BY <1>5, <3>2
  <2>3. \A c \in Captains \ {o} : entrant'[c] \in {entrant[c], "WITHDRAWN"}
    BY <1>5, <2>1
  <2>4. ASSUME NEW c \in Captains, entrant[c] = "WITHDRAWN" PROVE entrant'[c] = "WITHDRAWN"
    <3>1. es[c] = "WITHDRAWN"
      BY <1>5, <2>4
    <3>2. CASE c = o
      BY <2>2, <3>1, <3>2
    <3>3. CASE c # o
      BY <2>1, <3>1, <3>3
    <3> QED BY <3>2, <3>3
  <2>5. o \in Captains => entrant'[o] # "READY"
    BY <2>2
  <2>6. \A c \in Captains : entrant[c] = "WITHDRAWN" => entrant'[c] = "WITHDRAWN"
    BY <2>4
  <2> QED BY <2>3, <2>5, <2>6 DEF Eliminates
<1> QED BY <1>1, <1>2, <1>e

\* The winner goes on, and only the loser is out.
LEMMA WinRuns ==
  ASSUME UnderWay, NEW m \in Matches, NEW w \in Captains, NEW end \in Decided, NEW es, NEW gs, Wins(m, w, end, es, gs)
  PROVE  Running' /\ InTheRunning'
<1>n. PICK n : n = m \div 2
  OBVIOUS
<1>o. PICK o : o = Opponent(m, w)
  OBVIOUS
<1>1. Eliminates(o) /\ m # 1
  BY <1>o, WinEliminates
<1>2. Advanced(m, w, end, gs, n)
  BY <1>n, AdvancedMatches DEF Wins, UnderWay, RunInv, Inv
<1>3. /\ n \in Matches /\ n < m /\ n \in Nat /\ n # m
      /\ w \in Slots(m) /\ match[m].status \in Undecided
      /\ match'[m] = [match[m] EXCEPT !.status = end, !.winner = w]
      /\ \A k \in Matches \ {m, n} : match'[k] = match[k]
      /\ match'[n].winner = match[n].winner
      /\ match'[n].first = (IF m = 2 * n THEN w ELSE match[n].first)
      /\ match'[n].second = (IF m = 2 * n THEN match[n].second ELSE w)
      /\ match'[n].status = match[n].status \/ (match[n].status = "PENDING" /\ match'[n].status = "WAITING" /\ Nobody \notin Slots(n)')
  <2>1. n \in Matches /\ n < m /\ n \in Nat
    BY <1>1, <1>2 DEF Advanced
  <2> QED BY <1>1, <1>2, <2>1 DEF Advanced
<1>4. match \in [Matches -> MatchRows] /\ \A k \in Matches : Slots(k) \subseteq Captains \cup {Nobody}
  BY TypesAre DEF UnderWay, RunInv, Inv, Entrants
<1>5. match'[m].status = end /\ match'[m].winner = w /\ Slots(m)' = Slots(m)
  BY <1>3, <1>4 DEF MatchRows, Slots
<1>6. w # o /\ w # Nobody /\ Slots(m) = {w, o}
  <2>1. w # Nobody
    BY Somebody
  <2>2. match[m].status # "NONE"
    BY <1>3 DEF Undecided
  <2>3. Nobody \notin Slots(m) => match[m].first # match[m].second
    BY <2>2, SlotsDiffer DEF UnderWay, RunInv
  <2> QED BY <1>3, <1>o, <2>1, <2>3 DEF Slots, Opponent
<1>7. match[n].status \notin {"NONE", "CANCELLED"}
  <2>1. match[m].status # "NONE"
    BY <1>3 DEF Undecided
  <2>2. m < tournament.size /\ tournament.size \in Nat /\ m \in Nat
    BY <2>1, FewMatches, TypesAre, Somebody DEF UnderWay, RunInv, Inv
  <2>3. ~(n >= tournament.size)
    BY <1>3, <2>2
  <2> QED BY <1>3, <2>3 DEF UnderWay, RunInv, Running, Inv, Core, Drawn
<1>8. \E e \in {match[n].first, match[n].second} :
         /\ Slots(n) = {Nobody, e} /\ Slots(n)' = {w, e}
  <2>1. ~FirstRound(n)
    BY <1>3, <1>7, <1>n, <1>1, Somebody, FewMatches, TypesAre DEF UnderWay, RunInv, Inv, FirstRound, Undecided
  <2>2. match[n].first = match[2 * n].winner /\ match[n].second = match[2 * n + 1].winner
    BY <1>3, <1>7, <2>1 DEF UnderWay, RunInv, Inv, Core, BracketSound
  <2>3. match[m].winner = Nobody
    BY <1>3 DEF UnderWay, RunInv, Inv, Core, BracketSound, Undecided, Decided
  <2>4. m = 2 * n \/ m = 2 * n + 1
    BY <1>n, <1>1, Somebody, Next2
  <2>5. CASE m = 2 * n
    BY <1>3, <2>2, <2>3, <2>5 DEF Slots
  <2>6. CASE m # 2 * n
    BY <1>3, <2>2, <2>3, <2>4, <2>6 DEF Slots
  <2> QED BY <2>5, <2>6
<1>e. PICK e : Slots(n) = {Nobody, e} /\ Slots(n)' = {w, e} /\ e \in Captains \cup {Nobody}
  BY <1>3, <1>4, <1>8
<1>9. \A k \in Matches \ {m} : match[k].status \in Undecided => o \notin Slots(k) \ {Nobody}
  <2> SUFFICES ASSUME NEW k \in Matches \ {m}, match[k].status \in Undecided, o \in Slots(k) \ {Nobody} PROVE FALSE
    OBVIOUS
  <2>1. o \in Captains
    BY <1>4
  <2>2. k \in OpenMatches(o) /\ m \in OpenMatches(o)
    BY <1>3, <1>6 DEF OpenMatches
  <2> QED BY <2>1, <2>2 DEF UnderWay, RunInv, Inv, Core, OneOpen
<1>10. \A k \in Matches \ {n} : Slots(k)' = Slots(k)
  BY <1>3, <1>5 DEF Slots
<1>w. \A k \in Matches : match[k].status \in Decided => match[k].winner \in Captains
  <2>1. ASSUME NEW k \in Matches, match[k].status \in Decided PROVE match[k].winner \in Slots(k) \ {Nobody}
    BY <2>1 DEF UnderWay, RunInv, Inv, Core, BracketSound, Decided
  <2> QED BY <1>4, <2>1
<1> DEFINE Runs(k) == /\ match'[k].status # "CANCELLED"
                      /\ match'[k].status \in Undecided => \A c \in Slots(k)' \ {Nobody} : entrant'[c] \in {"READY", "WITHDRAWN"}
                      /\ match'[k].status \in Undecided \ {"PENDING"} /\ Nobody \in Slots(k)' =>
                           \E c \in Slots(k)' \ {Nobody} : entrant'[c] = "WITHDRAWN"
                      /\ match'[k].status \in Decided /\ Nobody \in Slots(k)' =>
                           match'[k].status = "COMPLETED" /\ entrant'[match'[k].winner] = "WITHDRAWN"
<1>r. \A k \in Matches :
      /\ match[k].status # "CANCELLED"
      /\ match[k].status \in Undecided => \A c \in Slots(k) \ {Nobody} : entrant[c] \in {"READY", "WITHDRAWN"}
      /\ match[k].status \in Undecided \ {"PENDING"} /\ Nobody \in Slots(k) =>
           \E c \in Slots(k) \ {Nobody} : entrant[c] = "WITHDRAWN"
      /\ match[k].status \in Decided /\ Nobody \in Slots(k) =>
           match[k].status = "COMPLETED" /\ entrant[match[k].winner] = "WITHDRAWN"
  BY DEF UnderWay, RunInv, Running
<1>11. ASSUME NEW k \in Matches, k # m, k # n PROVE Runs(k)
  BY <1>1, <1>3, <1>4, <1>9, <1>10, <1>11, <1>w, <1>r DEF Eliminates
<1>12. Runs(m)
  <2>1. end \notin Undecided \cup {"CANCELLED"}
    BY DEF Decided, Undecided
  <2>2. Nobody \in Slots(m) => end = "COMPLETED" /\ entrant[w] = "WITHDRAWN"
    BY DEF Wins
  <2> QED BY <1>1, <1>5, <2>1, <2>2 DEF Eliminates
<1>13. Runs(n)
  <2>1. match'[n].status # "CANCELLED"
    BY <1>3, <1>7
  <2>2. ASSUME match'[n].status \in Undecided, NEW c \in Slots(n)' \ {Nobody} PROVE entrant'[c] \in {"READY", "WITHDRAWN"}
    <3>1. match[n].status \in Undecided
      BY <1>3, <2>2 DEF Undecided
    <3>2. CASE c = w
      BY <1>1, <1>3, <1>6, <1>r, <3>2 DEF Eliminates
    <3>3. CASE c # w
      <4>1. c \in Slots(n) \ {Nobody} /\ c \in Captains
        BY <1>e, <2>2, <3>3
      <4>2. c # o
        BY <1>3, <1>9, <3>1, <4>1
      <4> QED BY <1>1, <1>3, <1>r, <3>1, <4>1, <4>2 DEF Eliminates
    <3> QED BY <3>2, <3>3
  <2>3. ASSUME Nobody \in Slots(n)' PROVE Slots(n) = {Nobody} /\ match'[n].status = match[n].status
    BY <1>3, <1>6, <1>e, <2>3
  <2>4. ~(match'[n].status \in Undecided \ {"PENDING"} /\ Nobody \in Slots(n)')
    BY <1>3, <1>r, <2>3
  <2>5. ASSUME match'[n].status \in Decided, Nobody \in Slots(n)'
        PROVE  match'[n].status = "COMPLETED" /\ entrant'[match'[n].winner] = "WITHDRAWN"
    BY <1>1, <1>3, <1>r, <1>w, <2>3, <2>5 DEF Eliminates
  <2> QED BY <2>1, <2>2, <2>4, <2>5
<1>14. Running'
  <2>1. \A k \in Matches : Runs(k)
    BY <1>11, <1>12, <1>13
  <2> QED BY <2>1 DEF Running
<1>15. InTheRunning'
  <2> SUFFICES ASSUME NEW c \in Captains, entrant'[c] = "READY" PROVE OpenMatches(c)' # {} \/ Forestalled(c)'
    BY DEF InTheRunning, InState
  <2>1. c # o /\ entrant[c] = "READY"
    BY <1>1 DEF Eliminates
  <2>2. CASE Forestalled(c)
    <3>1. PICK k \in Matches : /\ match[k].status = "COMPLETED" /\ c \in Slots(k)
                               /\ match[k].winner # Nobody /\ entrant[match[k].winner] = "WITHDRAWN"
      BY <2>2 DEF Forestalled
    <3>2. k # m /\ match'[k].status = "COMPLETED" /\ match'[k].winner = match[k].winner
      BY <1>3, <3>1 DEF Undecided
    <3>3. c \in Slots(k)'
      BY <1>10, <1>e, <3>1, Somebody
    <3>4. entrant'[match[k].winner] = "WITHDRAWN"
      BY <1>1, <1>w, <3>1 DEF Eliminates, Decided
    <3> QED BY <3>1, <3>2, <3>3, <3>4 DEF Forestalled
  <2>3. ASSUME NEW k \in Matches, k # m, match[k].status \in Undecided, c \in Slots(k) PROVE OpenMatches(c)' # {}
    <3>1. match'[k].status \in Undecided
      BY <1>3, <2>3 DEF Undecided
    <3>2. c \in Slots(k)'
      BY <1>10, <1>e, <2>3, Somebody
    <3> QED BY <3>1, <3>2 DEF OpenMatches
  <2>4. CASE c \in Slots(m)
    <3>1. c = w /\ c \in Slots(n)'
      BY <1>6, <1>e, <2>1, <2>4
    <3>2. CASE match[n].status \in Undecided
      <4>1. match'[n].status \in Undecided
        BY <1>3, <3>2 DEF Undecided
      <4> QED BY <1>3, <3>1, <4>1 DEF OpenMatches
    <3>3. CASE match[n].status \in Decided
      <4>1. match[n].status = "COMPLETED" /\ entrant[match[n].winner] = "WITHDRAWN"
        BY <1>3, <1>e, <1>r, <3>3
      <4>2. match'[n].status = "COMPLETED" /\ match'[n].winner = match[n].winner
        BY <1>3, <4>1
      <4>3. entrant'[match[n].winner] = "WITHDRAWN" /\ match[n].winner # Nobody
        BY <1>1, <1>3, <1>w, <3>3, <4>1, Somebody DEF Eliminates
      <4> QED BY <1>3, <3>1, <4>2, <4>3 DEF Forestalled
    <3> QED BY <1>3, <1>4, <1>7, <3>2, <3>3 DEF MatchRows
  <2>5. OpenMatches(c) # {} \/ Forestalled(c)
    BY <2>1 DEF UnderWay, RunInv, InTheRunning, InState
  <2> QED BY <2>2, <2>3, <2>4, <2>5 DEF OpenMatches
<1> QED BY <1>14, <1>15

\* A tournament gets under way only by start.
LEMMA OnlyStart ==
  ASSUME Inv, [Next]_vars, tournament.status # "ACTIVE", tournament'.status = "ACTIVE"
  PROVE  start
<1>t. tournament \in TournamentRows
  BY TypesSplit DEF Inv, PeopleOK
<1>a. ASSUME NEW m, NEW w, NEW end, NEW es, NEW gs, Advance(m, w, end, es, gs) PROVE FALSE
  BY <1>t, <1>a DEF Advance, TournamentRows
<1>f. ASSUME NEW c, NEW gs, Forfeit(c, gs) PROVE FALSE
  BY <1>a, <1>f DEF Forfeit
<1>u. tournament' # tournament
  OBVIOUS
<1>c. ~CancelTournament
  BY <1>t DEF CancelTournament, TournamentRows
<1>1. CASE Organise
  BY <1>t, <1>c, <1>1 DEF Organise, create, openRegistration, CloseRegistration, cancel, governCancel, TournamentRows, Registering
<1>2. ASSUME NEW c \in Captains, Enter(c) PROVE FALSE
  BY <1>f, <1>u, <1>2 DEF Enter, registerEntrant, acceptInvitation, withdraw, Suspend, Restore
<1>3. ASSUME NEW m \in Matches, Contest(m) PROVE FALSE
  BY <1>a, <1>u, <1>3 DEF Contest, PlayGame, syncMatch, SyncBegun, SyncWon, SyncReview, resolveMatch
<1>4. CASE Delete
  BY <1>c, <1>f, <1>u, <1>4 DEF Delete, ReadDeletion, WriteDeletion, AbortDeletion, DeleteOwner, DeleteCaptain, DeleteMate
<1> QED BY <1>1, <1>2, <1>3, <1>4, <1>u DEF Next, vars

\* Every step keeps whoever is in the running, and why.
LEMMA RunStep == RunInv /\ [Next]_vars => RunInv'
<1> SUFFICES ASSUME RunInv, [Next]_vars PROVE RunInv'
  OBVIOUS
<1>1. Inv' /\ Played'
  BY InvStep, PlayedStep DEF RunInv
<1>2. CASE tournament'.status # "ACTIVE"
  BY <1>1, <1>2 DEF RunInv, Running, InTheRunning
<1>3. CASE tournament'.status = "ACTIVE" /\ tournament.status = "ACTIVE"
  <2>1. UnderWay
    BY <1>3 DEF UnderWay
  <2>2. GoesOn
    BY <2>1, StepGoesOn
  <2>3. CASE UNCHANGED match /\ Leave(entrant')
    BY <1>1, <2>1, <2>3, QuietRuns DEF RunInv
  <2>4. CASE \E m \in Matches : GivesUp(m)
    <3>1. Leave(entrant')
      BY <2>4 DEF GivesUp
    <3> QED BY <1>1, <2>1, <2>4, <3>1, QuietRuns DEF RunInv
  <2>5. CASE \E m \in Matches, w \in Captains, end \in Decided : \E es, gs : Wins(m, w, end, es, gs)
    BY <1>1, <2>1, <2>5, WinRuns DEF RunInv
  <2> QED BY <2>2, <2>3, <2>4, <2>5 DEF GoesOn
<1>4. CASE tournament'.status = "ACTIVE" /\ tournament.status # "ACTIVE"
  <2>1. start
    BY <1>4, OnlyStart DEF RunInv
  <2> QED BY <1>1, <2>1, StartRuns DEF RunInv
<1> QED BY <1>2, <1>3, <1>4

\* Whoever is in the running has a match to play, for any bracket: neither
\* forfeits, nor moderation, nor deletions that decided from an earlier read leave an
\* entrant behind, but for the one case that Forestalled names.
THEOREM NobodyIsLeftBehind == Spec => []InTheRunning
<1>1. Init => RunInv
  <2> SUFFICES ASSUME Init PROVE RunInv
    OBVIOUS
  <2>1. Inv
    BY InitInv
  <2>2. tournament.status # "ACTIVE" /\ \A m \in Matches : game[m].status = "NONE"
    BY DEF Init
  <2> QED BY <2>1, <2>2 DEF RunInv, Played, Running, InTheRunning
<1>2. RunInv => InTheRunning
  BY DEF RunInv
<1> QED BY <1>1, <1>2, RunStep, PTL DEF Spec

-----------------------------------------------------------------------------
(* How an entrant came to a match.                                           *)

\* Whoever plays two matches has won the earlier round's.
WonTheirWay ==
  \A m, k \in Matches : \A c \in Captains :
    c \in Slots(m) /\ c \in Slots(k) /\ m < k => match[k].winner = c

\* Of the two matches whose winners meet, only one is on the way from another match.
LEMMA OneFeeds ==
  ASSUME NEW i \in 1..31, NEW o \in 1..31, NEW k \in 1..31, i # o, i \div 2 = o \div 2,
         i = k \/ Above(i, k), o = k \/ Above(o, k) \/ Above(k, o)
  PROVE  FALSE
BY DEF Above

\* The way from a match, round by round.
LEMMA RoundByRound ==
  ASSUME NEW k \in Nat
  PROVE  /\ k \div 2 \in Nat /\ k \div 4 \in Nat /\ k \div 8 \in Nat /\ k \div 16 \in Nat
         /\ k \div 4 = (k \div 2) \div 2 /\ k \div 8 = (k \div 4) \div 2 /\ k \div 16 = (k \div 8) \div 2
         /\ k \div 2 <= k /\ k \div 4 <= k \div 2 /\ k \div 8 <= k \div 4 /\ k \div 16 <= k \div 8
<1>1. k \div 2 \in Nat /\ k \div 2 <= k /\ k \div 4 = (k \div 2) \div 2
  OBVIOUS
<1>2. k \div 4 \in Nat /\ k \div 4 <= k \div 2 /\ k \div 8 = (k \div 4) \div 2
  OBVIOUS
<1>3. k \div 8 \in Nat /\ k \div 8 <= k \div 4 /\ k \div 16 = (k \div 8) \div 2
  OBVIOUS
<1>4. k \div 16 \in Nat /\ k \div 16 <= k \div 8
  OBVIOUS
<1> QED BY <1>1, <1>2, <1>3, <1>4

\* A number from that of one match to that of another is that of a match.
LEMMA BetweenMatches ==
  ASSUME NEW a \in Matches, NEW k \in Matches, NEW b \in Nat, a <= b, b <= k
  PROVE  b \in Matches
BY TournamentAssumption DEF Matches

\* Whoever plays k and then m has won the match before m on the way from k.
LEMMA WonBefore ==
  ASSUME Inv, NEW m \in Matches, NEW i \in Matches, NEW k \in Matches, NEW c \in Captains,
         m = i \div 2, i = k \/ Above(i, k), c \in Slots(m), c \in Slots(k)
  PROVE  c \in Slots(i) /\ match[i].winner = c
<1>1. c # Nobody /\ m \in Nat /\ i \in Nat /\ k \in Nat /\ m > 0
  BY Somebody
<1>2. match[m].status # "NONE" /\ match[k].status # "NONE"
  BY <1>1 DEF Inv, Core, Drawn, NoMatch, Slots
<1>3. /\ tournament.size \in Nat /\ \A j \in Matches : match[j].status = "NONE" <=> j >= tournament.size
  BY TypesAre DEF Inv, Core, Drawn
<1>4. i <= k
  BY <1>1 DEF Above
<1>5. i = 2 * m \/ i = 2 * m + 1
  BY <1>1
<1>6. k < tournament.size /\ 2 * m < tournament.size /\ i < tournament.size
  BY <1>1, <1>2, <1>3, <1>4, <1>5
<1>7. match[m].first = match[2 * m].winner /\ match[m].second = match[2 * m + 1].winner
  BY <1>1, <1>2, <1>3, <1>6 DEF Inv, Core, BracketSound, FirstRound
<1>8. PICK o \in {2 * m, 2 * m + 1} : match[o].winner = c
  BY <1>7 DEF Slots
<1>9. o \in Matches /\ match[o].status # "NONE"
  <2>1. tournament.size % 2 = 0
    BY <1>2, <1>3 DEF Inv, Core, Drawn, PowerOfTwo
  <2>2. 2 * m + 1 < tournament.size
    BY <1>1, <1>3, <1>6, <2>1
  <2>3. tournament.size <= MaxEntrants /\ MaxEntrants \in Nat
    BY TypesAre, TournamentAssumption DEF Inv
  <2>4. o \in Matches
    BY <1>1, <1>3, <2>2, <2>3 DEF Matches
  <2> QED BY <1>1, <1>3, <2>2, <2>4
<1>10. c \in Slots(o)
  BY <1>1, <1>8, <1>9 DEF Inv, Core, BracketSound
<1>11. o = i
  <2> SUFFICES ASSUME o # i PROVE FALSE
    OBVIOUS
  <2>1. i \in 1..31 /\ o \in 1..31 /\ k \in 1..31
    <3>1. match[i].status # "NONE"
      BY <1>1, <1>3, <1>6
    <3> QED BY <1>2, <1>9, <3>1, FewMatches
  <2>2. o = k \/ Above(o, k) \/ Above(k, o)
    BY <1>9, <1>10 DEF Inv, Core, OneWay
  <2>3. i \div 2 = o \div 2
    BY <1>1, <1>5
  <2> QED BY <2>1, <2>2, <2>3, OneFeeds
<1> QED BY <1>8, <1>10, <1>11

\* Where an entrant plays twice, a match on the way from the first was won by them:
\* from match to match back to the first, four rounds at most.
LEMMA WonAll ==
  ASSUME Inv, NEW m \in Matches, NEW k \in Matches, NEW c \in Captains,
         Above(m, k), c \in Slots(m), c \in Slots(k)
  PROVE  match[k].winner = c
<1>0. m \in Nat \ {0} /\ k \in Nat \ {0}
  BY Somebody
<1>1. ASSUME NEW a \in Matches, a = k \div 2, c \in Slots(a) PROVE match[k].winner = c
  BY <1>1, WonBefore
<1>2. ASSUME NEW a \in Matches, a = k \div 4, c \in Slots(a) PROVE match[k].winner = c
  <2>1. PICK b : b = k \div 2
    OBVIOUS
  <2>2. b \in Matches /\ a = b \div 2 /\ Above(b, k)
    <3>1. b \in Nat /\ a <= b /\ b <= k /\ a = b \div 2
      BY <1>0, <1>2, <2>1, RoundByRound
    <3> QED BY <1>2, <2>1, <3>1, BetweenMatches DEF Above
  <2>3. c \in Slots(b)
    BY <1>2, <2>2, WonBefore
  <2> QED BY <1>1, <2>1, <2>2, <2>3
<1>3. ASSUME NEW a \in Matches, a = k \div 8, c \in Slots(a) PROVE match[k].winner = c
  <2>1. PICK b : b = k \div 4
    OBVIOUS
  <2>2. b \in Matches /\ a = b \div 2 /\ Above(b, k)
    <3>1. b \in Nat /\ a <= b /\ b <= k /\ a = b \div 2
      BY <1>0, <1>3, <2>1, RoundByRound
    <3> QED BY <1>3, <2>1, <3>1, BetweenMatches DEF Above
  <2>3. c \in Slots(b)
    BY <1>3, <2>2, WonBefore
  <2> QED BY <1>2, <2>1, <2>2, <2>3
<1>4. ASSUME NEW a \in Matches, a = k \div 16, c \in Slots(a) PROVE match[k].winner = c
  <2>1. PICK b : b = k \div 8
    OBVIOUS
  <2>2. b \in Matches /\ a = b \div 2 /\ Above(b, k)
    <3>1. b \in Nat /\ a <= b /\ b <= k /\ a = b \div 2
      BY <1>0, <1>4, <2>1, RoundByRound
    <3> QED BY <1>4, <2>1, <3>1, BetweenMatches DEF Above
  <2>3. c \in Slots(b)
    BY <1>4, <2>2, WonBefore
  <2> QED BY <1>3, <2>1, <2>2, <2>3
<1> QED BY <1>1, <1>2, <1>3, <1>4 DEF Above

\* Nobody comes to a match of a later round but by winning each match before it:
\* an entrant who plays in two rounds is the recorded winner of the earlier one,
\* whatever was forfeited, moderated or advanced meanwhile.
THEOREM EntrantsWinTheirWay == Spec => []WonTheirWay
<1>1. Inv => WonTheirWay
  <2> SUFFICES ASSUME Inv, NEW m \in Matches, NEW k \in Matches, NEW c \in Captains,
                      c \in Slots(m), c \in Slots(k), m < k
               PROVE  match[k].winner = c
    BY DEF WonTheirWay
  <2>1. m \in Nat \ {0} /\ k \in Nat \ {0}
    BY Somebody
  <2>2. m = k \/ Above(m, k) \/ Above(k, m)
    BY DEF Inv, Core, OneWay
  <2>3. ~Above(k, m)
    BY <2>1 DEF Above
  <2> QED BY <2>1, <2>2, <2>3, WonAll
<1> QED BY <1>1, InvHolds, PTL
=============================================================================
