------------------------ MODULE SocialMatchingProofs ------------------------
(***************************************************************************)
(* Proofs about SocialMatching for any members, handlers and rows: nobody has  *)
(* two open proposals or is kept out of the queue without one, connections    *)
(* are accepted by both, and refusals are respected as long as at most one     *)
(* handler's leaving can be overtaken.                                        *)
(***************************************************************************)
EXTENDS SocialMatching, FiniteSetTheorems, TLAPS

Live == {"PENDING", "ACCEPTED"}
Gives(r) == r.pc \in {"leaving", "erasing"}

\* A row is of two members at most.
RowsAreOfTwo == \A p \in Proposals : \E a, b : proposal[p].pair \subseteq {a, b}

\* What a leaving or a deletion in flight holds of its proposal.
TargetsAreKnown ==
  \A h \in Handlers :
    /\ ~Gives(job[h]) => job[h].target = None
    /\ Gives(job[h]) => job[h].user \in Members
    /\ job[h].target # None => proposal[job[h].target].pair \subseteq {job[h].user, job[h].partner}
    /\ job[h].target # None /\ job[h].partner # None /\ proposal[job[h].target].status = "PENDING" =>
         job[h].partner \in proposal[job[h].target].pair \cup gone

\* A row that keeps u out of the queue, and that no leaving of u which did not
\* see u in the queue will close.
Keeps(u, p) ==
  /\ u \in proposal[p].pair /\ proposal[p].status \in Live
  /\ \A h \in Handlers : job[h].pc = "leaving" /\ job[h].user = u /\ ~job[h].entered => job[h].target # p

MatchedIsKept == \A u \in Members : entry[u] = "MATCHED" => \E p \in Proposals : Keeps(u, p)

\* A matching only keeps candidates whose entry, like its member's, is what it read.
CandidatesWait ==
  \A h \in Handlers : job[h].pc = "scanned" =>
    /\ job[h].user \in Members /\ entry[job[h].user] = "QUEUED"
    /\ \A v \in job[h].candidates : entry[v] = "QUEUED" /\ {job[h].user, v} \in Compatible

MatchInv ==
  /\ TypeOK
  /\ willing \cap gone = {}
  /\ OneProposalEach
  /\ AcceptedByBoth
  /\ RowsAreOfTwo
  /\ TargetsAreKnown
  /\ MatchedIsKept
  /\ CandidatesWait

-----------------------------------------------------------------------------
\* Two members make a pair only if they differ.
LEMMA PairsDiffer == ASSUME NEW u, NEW v, {u, v} \in Pairs PROVE u # v
<1>1. SUFFICES ASSUME u = v PROVE FALSE
  OBVIOUS
<1>2. {u, v} \in {{a, b} : a, b \in Members} /\ {u, v} \notin {{a} : a \in Members}
  BY DEF Pairs
<1>3. PICK a \in Members, b \in Members : {u, v} = {a, b}
  BY <1>2
<1>4. u \in Members /\ {u, v} = {u}
  BY <1>1, <1>3
<1> QED BY <1>2, <1>4

LEMMA PairsAre == ASSUME NEW u \in Members, NEW v \in Members, u # v PROVE {u, v} \in Pairs
BY DEF Pairs

\* The acceptances of two different members are those of the pair.
LEMMA TwoOfTwo ==
  ASSUME NEW a, NEW b, NEW S, NEW T, T \subseteq {a, b}, S \subseteq T, Cardinality(S) = 2
  PROVE  S = T
<1>1. SUFFICES ASSUME NEW x \in T, x \notin S PROVE FALSE
  OBVIOUS
<1>2. PICK y : S \subseteq {y}
  <2>1. S \subseteq {a} \/ S \subseteq {b}
    BY <1>1
  <2> QED BY <2>1
<1>3. S = {} \/ S = {y}
  BY <1>2
<1>4. Cardinality({}) = 0 /\ Cardinality({y}) = 1
  BY FS_EmptySet, FS_Singleton
<1> QED BY <1>3, <1>4

\* A handler's record after others' entries got a new version.
LEMMA StaleJob ==
  ASSUME NEW r \in Jobs, NEW us
  PROVE  /\ Stale(r, us) \in Jobs
         /\ r.pc # "scanned" => Stale(r, us) = r
         /\ r.pc = "scanned" => \/ Stale(r, us) = Idle
                                \/ /\ Stale(r, us) = [r EXCEPT !.candidates = r.candidates \ us]
                                   /\ r.user \notin us
<1>1. Idle \in Jobs
  BY DEF Idle, Jobs
<1>2. \A S \in SUBSET Members : [r EXCEPT !.candidates = S] \in Jobs
  BY DEF Jobs
<1>3. r.candidates \ us \in SUBSET Members
  BY DEF Jobs
<1> QED BY <1>1, <1>2, <1>3 DEF Stale, Among

\* What a step does to the handlers.
LEMMA Proceeds ==
  ASSUME TypeOK, NEW h \in Handlers, NEW r \in Jobs, NEW us, Proceed(h, r, us)
  PROVE  /\ job' \in [Handlers -> Jobs] /\ job'[h] = r
         /\ \A g \in Handlers \ {h} : job'[g] = Stale(job[g], us)
BY StaleJob DEF Proceed, TypeOK

LEMMA Touches ==
  ASSUME TypeOK, NEW us, Touch(us)
  PROVE  job' \in [Handlers -> Jobs] /\ \A g \in Handlers : job'[g] = Stale(job[g], us)
BY StaleJob DEF Touch, TypeOK

\* The entries stay entries, and only those of left and back move.
LEMMA MovedEntries ==
  ASSUME TypeOK, NEW left \in SUBSET Members, NEW back \in SUBSET Members, NEW late
  PROVE  /\ Moved(left, back, late) \in [Members -> Entries]
         /\ \A u \in Members \ (left \cup back) : Moved(left, back, late)[u] = entry[u]
         /\ \A u \in left \cup back : Moved(left, back, late)[u] \in {"QUEUED", "LEFT"}
         /\ \A u \in Members : Moved(left, back, late)[u] = "QUEUED" => entry[u] = "QUEUED" \/ u \in back \cap willing
BY DEF Moved, Requeued, TypeOK, Entries

-----------------------------------------------------------------------------
(* A step, as far as the invariants tell steps apart: the handlers of H go on   *)
(* with something that holds no proposal and no candidate, the others with      *)
(* what they had, and the entries of us get a new version.                      *)
After(g, us) ==
  /\ job[g].pc # "scanned" => job'[g] = job[g]
  /\ job[g].pc = "scanned" => ~Gives(job'[g]) /\ job'[g].target \in {None, job[g].target}
  /\ job'[g].pc = "scanned" => /\ job[g].pc = "scanned" /\ job'[g].user = job[g].user /\ job'[g].user \notin us
                               /\ job'[g].unread = job[g].unread /\ job'[g].candidates \subseteq job[g].candidates \ us

Steps(H, us) ==
  /\ job' \in [Handlers -> Jobs]
  /\ \A g \in Handlers \ H : After(g, us)
  /\ \A g \in H : ~Gives(job'[g]) /\ job'[g].pc # "scanned" /\ job'[g].target = None

\* A handler that goes on otherwise.
Plain(r) == ~Gives(r) /\ r.pc # "scanned" /\ r.target = None

LEMMA StaleIsAfter ==
  ASSUME TypeOK, NEW g \in Handlers, NEW us, job'[g] = Stale(job[g], us)
  PROVE  After(g, us)
<1>1. job[g] \in Jobs
  BY DEF TypeOK
<1>2. CASE job[g].pc # "scanned"
  BY <1>1, <1>2, StaleJob DEF After
<1>3. CASE job[g].pc = "scanned" /\ job'[g] = Idle
  BY <1>3 DEF After, Idle, Gives
<1>4. CASE job[g].pc = "scanned" /\ job'[g] = [job[g] EXCEPT !.candidates = job[g].candidates \ us] /\ job[g].user \notin us
  BY <1>1, <1>4 DEF After, Gives, Jobs
<1> QED BY <1>1, <1>2, <1>3, <1>4, StaleJob

LEMMA ProceedSteps ==
  ASSUME TypeOK, NEW h \in Handlers, NEW r \in Jobs, Plain(r), NEW us, Proceed(h, r, us)
  PROVE  Steps({h}, us)
BY Proceeds, StaleIsAfter DEF Steps, Plain

LEMMA TouchSteps == ASSUME TypeOK, NEW us, Touch(us) PROVE Steps({}, us)
BY Touches, StaleIsAfter DEF Steps

LEMMA NoSteps == ASSUME TypeOK, UNCHANGED job PROVE Steps({}, {})
BY DEF Steps, After, TypeOK, Gives

\* The targets stay known when rows only lose members who are gone, and no
\* target opens.
LEMMA TargetsKept ==
  ASSUME TypeOK, TargetsAreKnown, NEW H \in SUBSET Handlers, NEW us, Steps(H, us), gone \subseteq gone',
         NEW Q \in SUBSET Proposals, \A h \in Handlers : job[h].target \notin Q,
         \A p \in Proposals \ Q : /\ proposal'[p].pair \subseteq proposal[p].pair
                                  /\ proposal'[p].status = "PENDING" => /\ proposal[p].status = "PENDING"
                                                                        /\ proposal[p].pair \subseteq proposal'[p].pair \cup gone'
  PROVE  TargetsAreKnown'
<1> SUFFICES ASSUME NEW h \in Handlers
             PROVE /\ ~Gives(job'[h]) => job'[h].target = None
                   /\ Gives(job'[h]) => job'[h].user \in Members
                   /\ job'[h].target # None => proposal'[job'[h].target].pair \subseteq {job'[h].user, job'[h].partner}
                   /\ job'[h].target # None /\ job'[h].partner # None /\ proposal'[job'[h].target].status = "PENDING" =>
                        job'[h].partner \in proposal'[job'[h].target].pair \cup gone'
  BY DEF TargetsAreKnown, Gives
<1>1. CASE h \in H
  BY <1>1 DEF Steps
<1>2. CASE h \notin H /\ job[h].pc = "scanned"
  BY <1>2 DEF Steps, After, TargetsAreKnown, Gives
<1>3. CASE h \notin H /\ job[h].pc # "scanned"
  <2>1. job'[h] = job[h] /\ job[h] \in Jobs
    BY <1>3 DEF Steps, After, TypeOK
  <2>2. job[h].target \in Proposals \cup {None} /\ job[h].target \notin Q
    BY <2>1 DEF Jobs
  <2> QED BY <2>1, <2>2 DEF TargetsAreKnown
<1> QED BY <1>1, <1>2, <1>3

\* Who is out of the queue stays kept there by the row that kept them.
LEMMA MatchedKept ==
  ASSUME TypeOK, MatchedIsKept, NEW H \in SUBSET Handlers, NEW us, Steps(H, us),
         \A u \in Members : entry'[u] = "MATCHED" => entry[u] = "MATCHED",
         \A u \in Members, p \in Proposals : entry'[u] = "MATCHED" /\ Keeps(u, p) => u \in proposal'[p].pair /\ proposal'[p].status \in Live
  PROVE  MatchedIsKept'
<1> SUFFICES ASSUME NEW u \in Members, entry'[u] = "MATCHED"
             PROVE  \E p \in Proposals : Keeps(u, p)'
  BY DEF MatchedIsKept
<1>1. PICK p \in Proposals : Keeps(u, p)
  BY DEF MatchedIsKept
<1>2. ASSUME NEW h \in Handlers, job'[h].pc = "leaving", job'[h].user = u, ~job'[h].entered
      PROVE  job'[h].target # p
  <2>1. h \notin H /\ job[h].pc # "scanned"
    BY <1>2 DEF Steps, After, Gives
  <2>2. job'[h] = job[h]
    BY <2>1 DEF Steps, After
  <2> QED BY <2>2, <1>1, <1>2 DEF Keeps
<1>3. Keeps(u, p)'
  BY <1>1, <1>2 DEF Keeps
<1> QED BY <1>3

\* The candidates left wait as they did.
LEMMA CandidatesKept ==
  ASSUME TypeOK, CandidatesWait, NEW H \in SUBSET Handlers, NEW us, Steps(H, us),
         \A u \in Members \ us : entry'[u] = entry[u]
  PROVE  CandidatesWait'
<1> SUFFICES ASSUME NEW h \in Handlers, job'[h].pc = "scanned"
             PROVE /\ job'[h].user \in Members /\ entry'[job'[h].user] = "QUEUED"
                   /\ \A v \in job'[h].candidates : entry'[v] = "QUEUED" /\ {job'[h].user, v} \in Compatible
  BY DEF CandidatesWait
<1>1. h \in Handlers \ H
  BY DEF Steps
<1>2. /\ job[h].pc = "scanned" /\ job'[h].user = job[h].user /\ job'[h].user \notin us
      /\ job'[h].candidates \subseteq job[h].candidates \ us
  BY <1>1 DEF Steps, After
<1>3. job[h] \in Jobs
  BY DEF TypeOK
<1>4. job[h].candidates \subseteq Members
  BY <1>3 DEF Jobs
<1> QED BY <1>2, <1>4 DEF CandidatesWait

\* Rows that are only closed or stripped of a member stay sound.
LEMMA RowsKept ==
  ASSUME TypeOK, OneProposalEach, RowsAreOfTwo,
         \A p \in Proposals : /\ proposal'[p].pair \subseteq proposal[p].pair
                              /\ proposal'[p].status = "PENDING" => proposal[p].status = "PENDING"
  PROVE  OneProposalEach' /\ RowsAreOfTwo'
<1>1. \A u \in Members : \A p \in Open(u)' : p \in Open(u)
  BY DEF Open
<1>2. OneProposalEach'
  BY <1>1 DEF OneProposalEach
<1>3. RowsAreOfTwo'
  BY DEF RowsAreOfTwo
<1> QED BY <1>2, <1>3

-----------------------------------------------------------------------------
LEMMA MatchInit == Init => MatchInv
<1> SUFFICES ASSUME Init PROVE MatchInv
  OBVIOUS
<1> USE DEF Init
<1>1. Idle \in Jobs /\ Closed \in Rows
  BY DEF Idle, Jobs, Closed, Rows
<1>2. TypeOK
  BY <1>1 DEF TypeOK, Entries, Closed
<1>3. OneProposalEach /\ AcceptedByBoth /\ RowsAreOfTwo
  <2>1. \A p \in Proposals : proposal[p] = Closed
    OBVIOUS
  <2>2. OneProposalEach /\ AcceptedByBoth
    BY <2>1 DEF OneProposalEach, Open, AcceptedByBoth, Closed
  <2>3. ASSUME NEW p \in Proposals PROVE \E a, b : proposal[p].pair \subseteq {a, b}
    BY <2>1 DEF Closed
  <2> QED BY <2>2, <2>3 DEF RowsAreOfTwo
<1>4. TargetsAreKnown /\ CandidatesWait
  BY DEF TargetsAreKnown, CandidatesWait, Idle, Gives
<1>5. MatchedIsKept
  BY DEF MatchedIsKept
<1> QED BY <1>2, <1>3, <1>4, <1>5 DEF MatchInv

\* The steps that leave the entries and the rows alone.
LEMMA QuietKeeps ==
  ASSUME MatchInv, TypeOK', NEW H \in SUBSET Handlers, NEW us, Steps(H, us),
         UNCHANGED <<entry, proposal>>, gone' = gone, willing' \cap gone' = {}
  PROVE  MatchInv'
<1> USE DEF MatchInv
<1>1. TargetsAreKnown'
  <2>1. \A p \in Proposals \ {} :
          /\ proposal'[p].pair \subseteq proposal[p].pair
          /\ proposal'[p].status = "PENDING" => /\ proposal[p].status = "PENDING"
                                                /\ proposal[p].pair \subseteq proposal'[p].pair \cup gone'
    OBVIOUS
  <2> HIDE DEF MatchInv
  <2> QED BY <2>1, TargetsKept DEF MatchInv
<1>2. MatchedIsKept'
  BY MatchedKept DEF Keeps
<1>3. CandidatesWait'
  BY CandidatesKept
<1>4. OneProposalEach' /\ AcceptedByBoth' /\ RowsAreOfTwo'
  BY DEF OneProposalEach, Open, AcceptedByBoth, RowsAreOfTwo
<1> QED BY <1>1, <1>2, <1>3, <1>4

LEMMA OptInKeeps == ASSUME MatchInv, NEW u \in Members, OptIn(u) PROVE MatchInv'
<1> USE DEF OptIn
<1>1. TypeOK'
  BY DEF MatchInv, TypeOK
<1>2. Steps({}, {})
  BY NoSteps DEF MatchInv
<1>3. willing' \cap gone' = {}
  BY DEF MatchInv
<1> QED BY <1>1, <1>2, <1>3, QuietKeeps

LEMMA CooldownEndsKeeps == ASSUME MatchInv, NEW pair \in declined, CooldownEnds(pair) PROVE MatchInv'
<1> USE DEF CooldownEnds
<1>1. TypeOK'
  BY DEF MatchInv, TypeOK
<1>2. Steps({}, {})
  BY NoSteps DEF MatchInv
<1> QED BY <1>1, <1>2, QuietKeeps DEF MatchInv

LEMMA UnblockKeeps == ASSUME MatchInv, NEW u \in Members, NEW v \in Members, Unblock(u, v) PROVE MatchInv'
<1> USE DEF Unblock
<1>1. TypeOK'
  BY DEF MatchInv, TypeOK
<1>2. Steps({}, {})
  BY NoSteps DEF MatchInv
<1> QED BY <1>1, <1>2, QuietKeeps DEF MatchInv

\* The records that handlers go on with.
LEMMA PlainJobs ==
  /\ Idle \in Jobs /\ Plain(Idle)
  /\ \A u \in Members \cup {None}, pc \in {"join", "leave", "match"} :
       [Idle EXCEPT !.pc = pc, !.user = u] \in Jobs /\ Plain([Idle EXCEPT !.pc = pc, !.user = u])
BY DEF Idle, Jobs, Plain, Gives

LEMMA OptOutKeeps == ASSUME MatchInv, NEW h \in Handlers, NEW u \in Members, OptOut(h, u) PROVE MatchInv'
<1> USE DEF OptOut
<1>1. Steps({h}, {})
  BY ProceedSteps, PlainJobs DEF MatchInv
<1>2. TypeOK' /\ willing' \cap gone' = {}
  BY <1>1 DEF MatchInv, TypeOK, Steps
<1> QED BY <1>1, <1>2, QuietKeeps

LEMMA JoinKeeps == ASSUME MatchInv, NEW h \in Handlers, NEW u \in Members, Join(h, u) PROVE MatchInv'
<1> USE DEF Join
<1>1. Steps({h}, {})
  BY ProceedSteps, PlainJobs DEF MatchInv
<1>2. TypeOK'
  BY <1>1 DEF MatchInv, TypeOK, Steps
<1> QED BY <1>1, <1>2, QuietKeeps DEF MatchInv

LEMMA FailKeeps == ASSUME MatchInv, NEW h \in Handlers, Fail(h) PROVE MatchInv'
<1> USE DEF Fail
<1>1. Steps({h}, {})
  BY ProceedSteps, PlainJobs DEF MatchInv
<1>2. TypeOK'
  BY <1>1 DEF MatchInv, TypeOK, Steps
<1> QED BY <1>1, <1>2, QuietKeeps DEF MatchInv

-----------------------------------------------------------------------------
\* The steps that move entries into the queue or out of it, but no row.
LEMMA EntryKeeps ==
  ASSUME MatchInv, TypeOK', NEW H \in SUBSET Handlers, NEW us, Steps(H, us),
         UNCHANGED <<proposal, gone, willing>>,
         \A u \in Members \ us : entry'[u] = entry[u],
         \A u \in Members : entry'[u] = "MATCHED" => entry[u] = "MATCHED"
  PROVE  MatchInv'
<1> USE DEF MatchInv
<1>1. TargetsAreKnown'
  <2>1. \A p \in Proposals \ {} :
          /\ proposal'[p].pair \subseteq proposal[p].pair
          /\ proposal'[p].status = "PENDING" => /\ proposal[p].status = "PENDING"
                                                /\ proposal[p].pair \subseteq proposal'[p].pair \cup gone'
    OBVIOUS
  <2> HIDE DEF MatchInv
  <2> QED BY <2>1, TargetsKept DEF MatchInv
<1>2. MatchedIsKept'
  BY MatchedKept DEF Keeps
<1>3. CandidatesWait'
  BY CandidatesKept
<1>4. OneProposalEach' /\ AcceptedByBoth' /\ RowsAreOfTwo'
  BY DEF OneProposalEach, Open, AcceptedByBoth, RowsAreOfTwo
<1> QED BY <1>1, <1>2, <1>3, <1>4

LEMMA ExpireEntryKeeps == ASSUME MatchInv, NEW u \in Members, ExpireEntry(u) PROVE MatchInv'
<1> USE DEF ExpireEntry
<1>1. Steps({}, {u})
  BY TouchSteps DEF MatchInv
<1>2. TypeOK'
  BY <1>1 DEF MatchInv, TypeOK, Steps, Entries
<1>3. \A v \in Members : entry'[v] = IF v = u THEN "LEFT" ELSE entry[v]
  BY DEF MatchInv, TypeOK
<1> QED BY <1>1, <1>2, <1>3, EntryKeeps

LEMMA CommitJoinKeeps == ASSUME MatchInv, NEW h \in Handlers, CommitJoin(h) PROVE MatchInv'
<1> DEFINE u == job[h].user
<1>0. u \in Members \cup {None}
  BY DEF MatchInv, TypeOK, Jobs
<1>1. CASE Open(u) # {}
  <2>1. Steps({h}, {}) /\ UNCHANGED <<entry, proposal, willing, gone, blocked, declined>>
    BY <1>1, ProceedSteps, PlainJobs DEF MatchInv, CommitJoin
  <2>2. TypeOK'
    BY <2>1 DEF MatchInv, TypeOK, Steps
  <2> QED BY <2>1, <2>2, QuietKeeps DEF MatchInv
<1>2. CASE Open(u) = {}
  <2>1. /\ Steps({h}, {u}) /\ UNCHANGED <<proposal, willing, gone, blocked, declined>>
        /\ entry' = [entry EXCEPT ![u] = "QUEUED"]
    BY <1>0, <1>2, ProceedSteps, PlainJobs DEF MatchInv, CommitJoin
  <2>2. TypeOK'
    BY <2>1 DEF MatchInv, TypeOK, Steps, Entries
  <2>3. \A v \in Members : entry'[v] = IF v = u THEN "QUEUED" ELSE entry[v]
    BY <2>1 DEF MatchInv, TypeOK
  <2> QED BY <2>1, <2>2, <2>3, EntryKeeps
<1> QED BY <1>1, <1>2

-----------------------------------------------------------------------------
\* The steps of a matching, which change nothing else.
LEMMA MatchingKeeps ==
  ASSUME MatchInv, NEW h \in Handlers, NEW r \in Jobs, Proceed(h, r, {}),
         UNCHANGED <<willing, gone, entry, proposal, blocked, declined>>,
         r.pc = "scanned", r.target = None, r.user \in Members, entry[r.user] = "QUEUED",
         \A v \in r.candidates : entry[v] = "QUEUED" /\ {r.user, v} \in Compatible
  PROVE  MatchInv'
<1> USE DEF MatchInv
<1>1. /\ job' \in [Handlers -> Jobs] /\ job'[h] = r
      /\ \A g \in Handlers \ {h} : After(g, {})
  BY Proceeds, StaleIsAfter
<1>2. TypeOK'
  BY <1>1 DEF TypeOK
<1>3. TargetsAreKnown'
  <2> SUFFICES ASSUME NEW g \in Handlers
               PROVE /\ ~Gives(job'[g]) => job'[g].target = None
                     /\ Gives(job'[g]) => job'[g].user \in Members
                     /\ job'[g].target # None => proposal'[job'[g].target].pair \subseteq {job'[g].user, job'[g].partner}
                     /\ job'[g].target # None /\ job'[g].partner # None /\ proposal'[job'[g].target].status = "PENDING" =>
                          job'[g].partner \in proposal'[job'[g].target].pair \cup gone'
    BY DEF TargetsAreKnown, Gives
  <2>1. CASE g = h
    BY <2>1, <1>1 DEF Gives
  <2>2. CASE g # h /\ job[g].pc = "scanned"
    BY <2>2, <1>1 DEF After, TargetsAreKnown, Gives
  <2>3. CASE g # h /\ job[g].pc # "scanned"
    BY <2>3, <1>1 DEF After, TargetsAreKnown
  <2> QED BY <2>1, <2>2, <2>3
<1>4. MatchedIsKept'
  <2>1. ASSUME NEW u \in Members, NEW p \in Proposals, Keeps(u, p) PROVE Keeps(u, p)'
    <3>1. ASSUME NEW g \in Handlers, job'[g].pc = "leaving" PROVE job'[g] = job[g]
      BY <3>1, <1>1 DEF After, Gives
    <3> QED BY <2>1, <3>1 DEF Keeps
  <2> QED BY <2>1 DEF MatchedIsKept
<1>5. CandidatesWait'
  <2> SUFFICES ASSUME NEW g \in Handlers, job'[g].pc = "scanned"
               PROVE /\ job'[g].user \in Members /\ entry'[job'[g].user] = "QUEUED"
                     /\ \A v \in job'[g].candidates : entry'[v] = "QUEUED" /\ {job'[g].user, v} \in Compatible
    BY DEF CandidatesWait
  <2>1. CASE g = h
    BY <2>1, <1>1
  <2>2. CASE g # h
    BY <2>2, <1>1 DEF After, CandidatesWait
  <2> QED BY <2>1, <2>2
<1>6. OneProposalEach' /\ AcceptedByBoth' /\ RowsAreOfTwo'
  BY DEF OneProposalEach, Open, AcceptedByBoth, RowsAreOfTwo
<1> QED BY <1>2, <1>3, <1>4, <1>5, <1>6

LEMMA ScanKeeps == ASSUME MatchInv, NEW h \in Handlers, NEW u \in Members, Scan(h, u) PROVE MatchInv'
<1> DEFINE others == {v \in Members : Waiting(v) /\ {u, v} \in Compatible}
           r == [Idle EXCEPT !.pc = "scanned", !.user = u, !.candidates = others, !.unread = Sources]
<1>1. r \in Jobs /\ r.pc = "scanned" /\ r.target = None /\ r.user = u /\ r.candidates = others
  BY DEF Idle, Jobs
<1>2. entry[u] = "QUEUED" /\ \A v \in others : entry[v] = "QUEUED" /\ {u, v} \in Compatible
  BY DEF Scan, Waiting
<1>3. Proceed(h, r, {}) /\ UNCHANGED <<willing, gone, entry, proposal, blocked, declined>>
  BY DEF Scan
<1> HIDE DEF r, others
<1> QED BY <1>1, <1>2, <1>3, MatchingKeeps

LEMMA ReadKeeps == ASSUME MatchInv, NEW h \in Handlers, NEW what \in Sources, Read(h, what) PROVE MatchInv'
<1>1. job[h] \in Jobs /\ job[h].pc = "scanned" /\ job[h].target = None
  BY DEF MatchInv, TypeOK, Read, At, TargetsAreKnown, Gives
<1>2. PICK out : /\ Proceed(h, Among([job[h] EXCEPT !.unread = @ \ {what}], job[h].candidates \ out), {})
                 /\ UNCHANGED <<willing, gone, entry, proposal, blocked, declined>>
  BY DEF Read
<1> DEFINE left == job[h].candidates \ out
           r == [job[h] EXCEPT !.unread = @ \ {what}, !.candidates = left]
<1>3. r \in Jobs /\ r.pc = "scanned" /\ r.target = None /\ r.user = job[h].user /\ r.candidates = left /\ left \subseteq job[h].candidates
  BY <1>1 DEF Jobs
<1>4. CASE left = {}
  <2>1. Proceed(h, Idle, {})
    BY <1>2, <1>4 DEF Among
  <2>2. Steps({h}, {})
    BY <2>1, ProceedSteps, PlainJobs DEF MatchInv
  <2>3. TypeOK'
    BY <1>2, <2>2 DEF MatchInv, TypeOK, Steps
  <2> QED BY <1>2, <2>2, <2>3, QuietKeeps DEF MatchInv
<1>5. CASE left # {}
  <2>1. [[job[h] EXCEPT !.unread = @ \ {what}] EXCEPT !.candidates = left] = r
    BY <1>1 DEF Jobs
  <2>2. Proceed(h, r, {})
    BY <1>2, <1>5, <2>1 DEF Among
  <2>3. job[h].user \in Members /\ entry[job[h].user] = "QUEUED"
        /\ \A v \in left : entry[v] = "QUEUED" /\ {job[h].user, v} \in Compatible
    BY <1>1, <1>3 DEF MatchInv, CandidatesWait
  <2> HIDE DEF r, left
  <2> QED BY <1>2, <1>3, <2>2, <2>3, MatchingKeeps
<1> QED BY <1>4, <1>5

-----------------------------------------------------------------------------
\* A leaving or a deletion that has read what it will close.
LEMMA GivingKeeps ==
  ASSUME MatchInv, NEW h \in Handlers, NEW r \in Jobs, Proceed(h, r, {}),
         UNCHANGED <<willing, gone, entry, proposal, blocked, declined>>,
         Gives(r), r.user \in Members,
         r.target # None => r.target \in Open(r.user) /\ proposal[r.target].pair \subseteq {r.user, r.partner},
         r.target # None /\ r.partner # None => r.partner \in proposal[r.target].pair,
         r.pc = "leaving" /\ ~r.entered => entry[r.user] # "MATCHED"
  PROVE  MatchInv'
<1> USE DEF MatchInv
<1>1. /\ job' \in [Handlers -> Jobs] /\ job'[h] = r
      /\ \A g \in Handlers \ {h} : After(g, {})
  BY Proceeds, StaleIsAfter
<1>2. TypeOK'
  BY <1>1 DEF TypeOK
<1>3. TargetsAreKnown'
  <2> SUFFICES ASSUME NEW g \in Handlers
               PROVE /\ ~Gives(job'[g]) => job'[g].target = None
                     /\ Gives(job'[g]) => job'[g].user \in Members
                     /\ job'[g].target # None => proposal'[job'[g].target].pair \subseteq {job'[g].user, job'[g].partner}
                     /\ job'[g].target # None /\ job'[g].partner # None /\ proposal'[job'[g].target].status = "PENDING" =>
                          job'[g].partner \in proposal'[job'[g].target].pair \cup gone'
    BY DEF TargetsAreKnown, Gives
  <2>1. CASE g = h
    BY <2>1, <1>1
  <2>2. CASE g # h /\ job[g].pc = "scanned"
    BY <2>2, <1>1 DEF After, TargetsAreKnown, Gives
  <2>3. CASE g # h /\ job[g].pc # "scanned"
    BY <2>3, <1>1 DEF After, TargetsAreKnown
  <2> QED BY <2>1, <2>2, <2>3
<1>4. MatchedIsKept'
  <2>1. ASSUME NEW u \in Members, NEW p \in Proposals, Keeps(u, p), entry[u] = "MATCHED" PROVE Keeps(u, p)'
    <3>1. ASSUME NEW g \in Handlers, g # h, job'[g].pc = "leaving" PROVE job'[g] = job[g]
      BY <3>1, <1>1 DEF After, Gives
    <3>2. job'[h].pc = "leaving" /\ job'[h].user = u => job'[h].entered
      BY <2>1, <1>1
    <3> QED BY <2>1, <3>1, <3>2 DEF Keeps
  <2> QED BY <2>1 DEF MatchedIsKept
<1>5. CandidatesWait'
  <2> SUFFICES ASSUME NEW g \in Handlers, job'[g].pc = "scanned"
               PROVE /\ job'[g].user \in Members /\ entry'[job'[g].user] = "QUEUED"
                     /\ \A v \in job'[g].candidates : entry'[v] = "QUEUED" /\ {job'[g].user, v} \in Compatible
    BY DEF CandidatesWait
  <2>1. g # h
    BY <1>1 DEF Gives
  <2> QED BY <2>1, <1>1 DEF After, CandidatesWait
<1>6. OneProposalEach' /\ AcceptedByBoth' /\ RowsAreOfTwo'
  BY DEF OneProposalEach, Open, AcceptedByBoth, RowsAreOfTwo
<1> QED BY <1>2, <1>3, <1>4, <1>5, <1>6

\* An open row of u has another member, or it is only of u.
LEMMA OtherMember ==
  ASSUME MatchInv, NEW u \in Members, NEW p \in Open(u), NEW v \in (proposal[p].pair \ {u}) \cup {None},
         v = None => proposal[p].pair = {u}
  PROVE  /\ p \in Proposals /\ v \in Members \cup {None}
         /\ proposal[p].pair \subseteq {u, v}
         /\ v # None => v \in proposal[p].pair
<1>1. p \in Proposals /\ u \in proposal[p].pair /\ proposal[p].pair \subseteq Members
  BY DEF Open, MatchInv, TypeOK, Rows
<1>2. PICK a, b : proposal[p].pair \subseteq {a, b}
  BY <1>1 DEF MatchInv, RowsAreOfTwo
<1>3. CASE v = None
  BY <1>1, <1>3
<1>4. CASE v # None
  <2>1. v \in proposal[p].pair /\ v # u
    BY <1>4
  <2>2. {a, b} = {u, v}
    BY <2>1, <1>1, <1>2
  <2> QED BY <2>1, <2>2, <1>1, <1>2
<1> QED BY <1>3, <1>4

LEMMA BeginLeaveKeeps == ASSUME MatchInv, NEW h \in Handlers, NEW u \in Members, BeginLeave(h, u) PROVE MatchInv'
<1> DEFINE seen == entry[u] \in {"QUEUED", "MATCHED"}
           r == [Idle EXCEPT !.pc = "leaving", !.user = u, !.entered = seen]
<1>0. seen \in BOOLEAN /\ (~seen => entry[u] # "MATCHED")
  OBVIOUS
<1> HIDE DEF seen
<1>1. UNCHANGED <<willing, gone, entry, proposal, blocked, declined>>
  BY DEF BeginLeave
<1>2. r \in Jobs /\ Gives(r) /\ r.user = u /\ r.target = None /\ r.pc = "leaving" /\ r.entered = seen
  BY <1>0 DEF Idle, Jobs, Gives
<1>3. CASE Open(u) = {}
  <2>1. Proceed(h, r, {})
    BY <1>3 DEF BeginLeave, seen
  <2> HIDE DEF r
  <2> QED BY <2>1, <1>0, <1>1, <1>2, GivingKeeps
<1>4. CASE Open(u) # {}
  <2>1. PICK p \in Open(u) : \E v \in (proposal[p].pair \ {u}) \cup {None} :
               /\ v = None => proposal[p].pair = {u}
               /\ Proceed(h, [r EXCEPT !.target = p, !.partner = v], {})
    BY <1>4 DEF BeginLeave, seen
  <2>2. PICK v \in (proposal[p].pair \ {u}) \cup {None} :
               /\ v = None => proposal[p].pair = {u}
               /\ Proceed(h, [r EXCEPT !.target = p, !.partner = v], {})
    BY <2>1
  <2> DEFINE q == [r EXCEPT !.target = p, !.partner = v]
  <2>3. /\ p \in Proposals /\ v \in Members \cup {None}
        /\ proposal[p].pair \subseteq {u, v} /\ (v # None => v \in proposal[p].pair)
    BY <2>2, OtherMember
  <2>4. q \in Jobs /\ Gives(q) /\ q.user = u /\ q.target = p /\ q.partner = v /\ q.pc = "leaving" /\ q.entered = seen
    BY <1>0, <2>3 DEF Idle, Jobs, Gives
  <2>5. Proceed(h, q, {})
    BY <2>2
  <2> HIDE DEF q, r
  <2> QED BY <2>3, <2>4, <2>5, <1>0, <1>1, GivingKeeps
<1> QED BY <1>3, <1>4

LEMMA BeginEraseKeeps == ASSUME MatchInv, NEW h \in Handlers, NEW u \in Members, BeginErase(h, u) PROVE MatchInv'
<1> DEFINE r == [Idle EXCEPT !.pc = "erasing", !.user = u]
<1>1. UNCHANGED <<willing, gone, entry, proposal, blocked, declined>>
  BY DEF BeginErase
<1>2. r \in Jobs /\ Gives(r) /\ r.user = u /\ r.target = None /\ r.pc = "erasing"
  BY DEF Idle, Jobs, Gives
<1>3. CASE Open(u) = {}
  <2>1. Proceed(h, r, {})
    BY <1>3 DEF BeginErase
  <2> HIDE DEF r
  <2> QED BY <2>1, <1>1, <1>2, GivingKeeps
<1>4. CASE Open(u) # {}
  <2>1. PICK p \in Open(u) : \E v \in (proposal[p].pair \ {u}) \cup {None} :
               /\ v = None => proposal[p].pair = {u}
               /\ Proceed(h, [r EXCEPT !.target = p, !.partner = v], {})
    BY <1>4 DEF BeginErase
  <2>2. PICK v \in (proposal[p].pair \ {u}) \cup {None} :
               /\ v = None => proposal[p].pair = {u}
               /\ Proceed(h, [r EXCEPT !.target = p, !.partner = v], {})
    BY <2>1
  <2> DEFINE q == [r EXCEPT !.target = p, !.partner = v]
  <2>3. /\ p \in Proposals /\ v \in Members \cup {None}
        /\ proposal[p].pair \subseteq {u, v} /\ (v # None => v \in proposal[p].pair)
    BY <2>2, OtherMember
  <2>4. q \in Jobs /\ Gives(q) /\ q.user = u /\ q.target = p /\ q.partner = v /\ q.pc = "erasing"
    BY <2>3 DEF Idle, Jobs, Gives
  <2>5. Proceed(h, q, {})
    BY <2>2
  <2> HIDE DEF q, r
  <2> QED BY <2>3, <2>4, <2>5, <1>1, GivingKeeps
<1> QED BY <1>3, <1>4

-----------------------------------------------------------------------------
LEMMA AcceptKeeps == ASSUME MatchInv, NEW u \in Members, NEW p \in Proposals, Accept(u, p) PROVE MatchInv'
<1> DEFINE accepts == proposal[p].accepts \cup {u}
           status == IF Agreed(p, accepts) THEN "ACCEPTED" ELSE "PENDING"
<1> USE DEF MatchInv
<1>1. /\ UNCHANGED <<willing, gone, entry, blocked, declined, job>>
      /\ u \in proposal[p].pair /\ proposal[p].status = "PENDING"
      /\ proposal[p] \in Rows /\ proposal \in [Proposals -> Rows]
      /\ proposal[p].accepts \subseteq proposal[p].pair
  BY DEF Accept, Undecided, Open, TypeOK
<1>2. proposal' = [proposal EXCEPT ![p] = [status |-> status, pair |-> proposal[p].pair, accepts |-> accepts]]
  BY DEF Accept
<1>3. [status |-> status, pair |-> proposal[p].pair, accepts |-> accepts] \in Rows /\ accepts \subseteq proposal[p].pair
  BY <1>1 DEF Rows
<1>4. status \in Live /\ (status = "ACCEPTED" => accepts = proposal[p].pair)
  <2>1. PICK a, b : proposal[p].pair \subseteq {a, b}
    BY DEF RowsAreOfTwo
  <2> QED BY <2>1, <1>3, TwoOfTwo DEF Agreed, Live
<1> HIDE DEF status, accepts
<1>5. \A q \in Proposals : /\ q # p => proposal'[q] = proposal[q]
                           /\ proposal'[p] = [status |-> status, pair |-> proposal[p].pair, accepts |-> accepts]
  BY <1>1, <1>2, <1>3
<1>6. TypeOK'
  BY <1>1, <1>2, <1>3, <1>5 DEF TypeOK
<1>7. AcceptedByBoth'
  BY <1>4, <1>5 DEF AcceptedByBoth
<1>8. \A q \in Proposals : /\ proposal'[q].pair = proposal[q].pair
                           /\ proposal'[q].status = "PENDING" => proposal[q].status = "PENDING"
                           /\ proposal[q].status \in Live => proposal'[q].status \in Live
  BY <1>1, <1>4, <1>5 DEF Live
<1>9. Steps({}, {})
  BY <1>1, NoSteps
<1>10. OneProposalEach' /\ RowsAreOfTwo'
  BY <1>8, RowsKept
<1>11. TargetsAreKnown'
  <2>1. \A q \in Proposals \ {} :
          /\ proposal'[q].pair \subseteq proposal[q].pair
          /\ proposal'[q].status = "PENDING" => /\ proposal[q].status = "PENDING"
                                                /\ proposal[q].pair \subseteq proposal'[q].pair \cup gone'
    BY <1>8
  <2> QED BY <2>1, <1>1, <1>9, TargetsKept
<1>12. MatchedIsKept'
  BY <1>1, <1>8, <1>9, MatchedKept DEF Keeps
<1>13. CandidatesWait'
  BY <1>1, <1>9, CandidatesKept
<1> QED BY <1>1, <1>6, <1>7, <1>10, <1>11, <1>12, <1>13

\* Closing rows keeps the invariant, when those they kept out of the queue move.
LEMMA ClosingKeeps ==
  ASSUME MatchInv, NEW H \in SUBSET Handlers, NEW T \in SUBSET Proposals,
         NEW left \in SUBSET Members, NEW back \in SUBSET Members, NEW late,
         Steps(H, left \cup back), UNCHANGED <<willing, gone>>,
         proposal' = Cancelled(T), entry' = Moved(left, back, late),
         blocked' \subseteq Members \X Members, declined' \subseteq Pairs,
         \A p \in T, u \in Members : entry[u] = "MATCHED" /\ Keeps(u, p) => u \in left \cup back
  PROVE  MatchInv'
<1> USE DEF MatchInv
<1>1. proposal \in [Proposals -> Rows] /\ Closed \in Rows
  BY DEF TypeOK, Closed, Rows
<1>2. /\ proposal' \in [Proposals -> Rows]
      /\ \A p \in Proposals : proposal'[p] = IF p \in T THEN Closed ELSE proposal[p]
  BY <1>1 DEF Cancelled
<1>3. /\ entry' \in [Members -> Entries]
      /\ \A u \in Members \ (left \cup back) : entry'[u] = entry[u]
      /\ \A u \in left \cup back : entry'[u] \in {"QUEUED", "LEFT"}
  BY MovedEntries
<1>4. TypeOK'
  BY <1>2, <1>3 DEF TypeOK, Steps, Closed
<1>5. AcceptedByBoth'
  BY <1>2 DEF AcceptedByBoth, Closed
<1>6. \A p \in Proposals : /\ proposal'[p].pair \subseteq proposal[p].pair
                           /\ proposal'[p].status = "PENDING" => proposal'[p] = proposal[p]
  BY <1>2 DEF Closed
<1>7. OneProposalEach' /\ RowsAreOfTwo'
  BY <1>6, RowsKept
<1>8. TargetsAreKnown'
  <2>1. \A p \in Proposals \ {} :
          /\ proposal'[p].pair \subseteq proposal[p].pair
          /\ proposal'[p].status = "PENDING" => /\ proposal[p].status = "PENDING"
                                                /\ proposal[p].pair \subseteq proposal'[p].pair \cup gone'
    BY <1>6
  <2> QED BY <2>1, TargetsKept
<1>9. MatchedIsKept'
  <2>1. \A u \in Members : entry'[u] = "MATCHED" => entry[u] = "MATCHED" /\ u \notin left \cup back
    BY <1>3
  <2>2. \A u \in Members, p \in Proposals : entry'[u] = "MATCHED" /\ Keeps(u, p) => p \notin T
    BY <2>1
  <2>3. \A u \in Members, p \in Proposals : entry'[u] = "MATCHED" /\ Keeps(u, p) => u \in proposal'[p].pair /\ proposal'[p].status \in Live
    BY <2>2, <1>2 DEF Keeps
  <2> QED BY <2>1, <2>3, MatchedKept
<1>10. CandidatesWait'
  BY <1>3, CandidatesKept
<1> QED BY <1>4, <1>5, <1>7, <1>8, <1>9, <1>10

LEMMA ExpireProposalKeeps == ASSUME MatchInv, NEW p \in Proposals, ExpireProposal(p) PROVE MatchInv'
<1> DEFINE back == Matched(proposal[p].pair)
<1>1. PICK late \in SUBSET back : entry' = Moved({}, back, late)
  BY DEF ExpireProposal
<1>2. back \in SUBSET Members /\ TypeOK
  BY DEF MatchInv, TypeOK, Rows, Matched
<1>3. Steps({}, {} \cup back)
  <2>1. Touch(back)
    BY DEF ExpireProposal
  <2> HIDE DEF back
  <2> QED BY <2>1, <1>2, TouchSteps
<1>4. UNCHANGED <<willing, gone, blocked, declined>> /\ proposal' = Cancelled({p})
  BY DEF ExpireProposal
<1>5. \A u \in Members : entry[u] = "MATCHED" /\ Keeps(u, p) => u \in {} \cup back
  BY DEF Keeps, Matched
<1> HIDE DEF back
<1> QED BY <1>1, <1>2, <1>3, <1>4, <1>5, ClosingKeeps DEF TypeOK

\* What DECLINE and BLOCK change, besides the rows and the entries.
LEMMA RefuseKeeps ==
  ASSUME MatchInv, NEW h \in Handlers, NEW u \in Members, NEW p \in Proposals, NEW d \in {"DECLINE", "BLOCK"}, Refuse(h, u, p, d)
  PROVE  MatchInv'
<1> DEFINE others == proposal[p].pair \ {u}
           left == Matched({u})
           back == Matched(others)
<1>0. TypeOK /\ proposal[p] \in Rows /\ proposal[p].pair \subseteq Members
  BY DEF MatchInv, TypeOK, Rows
<1>1. PICK late \in SUBSET back : entry' = Moved(left, back, late)
  BY DEF Refuse
<1>2. left \in SUBSET Members /\ back \in SUBSET Members
  BY <1>0 DEF Matched
<1>3. Steps({h}, left \cup back)
  <2>1. \/ Proceed(h, Idle, left \cup back)
        \/ \E v \in others : Proceed(h, [Idle EXCEPT !.pc = "match", !.user = v], left \cup back)
    BY DEF Refuse
  <2>2. others \subseteq Members
    BY <1>0
  <2> HIDE DEF others, left, back
  <2> QED BY <2>1, <2>2, <1>0, ProceedSteps, PlainJobs
<1>4. UNCHANGED <<willing, gone>> /\ proposal' = Cancelled({p})
  BY DEF Refuse
<1>5. \A w \in Members : entry[w] = "MATCHED" /\ Keeps(w, p) => w \in left \cup back
  BY DEF Keeps, Matched
<1>6. blocked' \subseteq Members \X Members
  <2>1. \A v \in others : <<u, v>> \in Members \X Members
    BY <1>0
  <2>2. blocked \subseteq Members \X Members
    BY <1>0 DEF TypeOK
  <2>3. blocked' = blocked \/ blocked' = blocked \cup {<<u, v>> : v \in others}
    BY DEF Refuse
  <2> QED BY <2>1, <2>2, <2>3
<1>7. declined' \subseteq Pairs
  <2>1. \A v \in others : {u, v} \in Pairs
    BY <1>0, PairsAre
  <2> QED BY <2>1, <1>0 DEF Refuse, TypeOK
<1> HIDE DEF others, left, back
<1> QED BY <1>1, <1>2, <1>3, <1>4, <1>5, <1>6, <1>7, ClosingKeeps

-----------------------------------------------------------------------------
\* Who a leaving or a deletion takes out of the queue, or gives back to it.
LEMMA GivenBack ==
  ASSUME MatchInv, NEW h \in Handlers, Gives(job[h])
  PROVE  /\ job[h].user \in Members
         /\ {job[h].target} \ {None} \subseteq Proposals
         /\ {job[h].partner} \ {None} \subseteq Members /\ Matched({job[h].partner} \ {None}) \subseteq Members
         /\ \A p \in {job[h].target} \ {None}, u \in Members :
              entry[u] = "MATCHED" /\ Keeps(u, p) /\ u # job[h].user => u \in Matched({job[h].partner} \ {None})
<1>1. job[h] \in Jobs /\ job[h].user \in Members
  BY DEF MatchInv, TypeOK, TargetsAreKnown
<1>2. /\ {job[h].target} \ {None} \subseteq Proposals
      /\ {job[h].partner} \ {None} \subseteq Members /\ Matched({job[h].partner} \ {None}) \subseteq Members
  BY <1>1 DEF Jobs, Matched
<1>3. ASSUME NEW p \in {job[h].target} \ {None}, NEW u \in Members, entry[u] = "MATCHED", Keeps(u, p), u # job[h].user
      PROVE  u \in Matched({job[h].partner} \ {None})
  <2>1. u \in {job[h].user, job[h].partner}
    BY <1>3 DEF MatchInv, TargetsAreKnown, Keeps
  <2>2. u = job[h].partner /\ u # None
    BY <2>1, <1>3, MatchingAssumption
  <2> QED BY <2>2, <1>3 DEF Matched
<1> QED BY <1>1, <1>2, <1>3

LEMMA CommitLeaveKeeps == ASSUME MatchInv, NEW h \in Handlers, CommitLeave(h) PROVE MatchInv'
<1> DEFINE left == IF job[h].entered THEN {job[h].user} ELSE {}
           back == Matched({job[h].partner} \ {None})
           T == {job[h].target} \ {None}
           r == IF job[h].partner = None THEN Idle ELSE [Idle EXCEPT !.pc = "match", !.user = job[h].partner]
<1>1. job[h].pc = "leaving" /\ Gives(job[h]) /\ TypeOK /\ job[h] \in Jobs
  BY DEF CommitLeave, At, Gives, MatchInv, TypeOK
<1>2. PICK late \in SUBSET back : entry' = Moved(left, back, late)
  BY DEF CommitLeave
<1>3. left \in SUBSET Members /\ back \in SUBSET Members /\ T \in SUBSET Proposals
  BY <1>1, GivenBack
<1>4. Steps({h}, left \cup back)
  <2>1. Proceed(h, r, left \cup back)
    BY DEF CommitLeave
  <2>2. r \in Jobs /\ Plain(r)
    BY <1>1, PlainJobs DEF Jobs
  <2> HIDE DEF r, left, back
  <2> QED BY <2>1, <2>2, <1>1, ProceedSteps
<1>5. UNCHANGED <<willing, gone, blocked, declined>> /\ proposal' = Cancelled(T)
  BY DEF CommitLeave
<1>6. ASSUME NEW p \in T, NEW u \in Members, entry[u] = "MATCHED", Keeps(u, p) PROVE u \in left \cup back
  <2>1. CASE u = job[h].user
    <3>1. job[h].entered
      BY <1>1, <1>6, <2>1 DEF Keeps
    <3> QED BY <3>1, <2>1
  <2>2. CASE u # job[h].user
    BY <1>1, <1>6, <2>2, GivenBack
  <2> QED BY <2>1, <2>2
<1>7. blocked' \subseteq Members \X Members /\ declined' \subseteq Pairs
  BY <1>1, <1>5 DEF TypeOK
<1> HIDE DEF left, back, T
<1> QED BY <1>2, <1>3, <1>4, <1>5, <1>6, <1>7, ClosingKeeps

LEMMA CommitEraseKeeps == ASSUME MatchInv, NEW h \in Handlers, CommitErase(h) PROVE MatchInv'
<1> DEFINE u == job[h].user
           back == Matched({job[h].partner} \ {None})
           T == {job[h].target} \ {None}
<1> USE DEF MatchInv
<1>1. job[h].pc = "erasing" /\ Gives(job[h]) /\ TypeOK /\ job[h] \in Jobs
  BY DEF CommitErase, At, Gives, TypeOK
<1>2. u \in Members /\ back \in SUBSET Members /\ T \in SUBSET Proposals
  BY <1>1, GivenBack
<1>3. PICK late : entry' = [Moved({}, back, late) EXCEPT ![u] = "NONE"]
  BY DEF CommitErase
<1>4. /\ proposal' = [p \in Proposals |-> Without(Cancelled(T)[p], u)]
      /\ blocked' \subseteq blocked /\ declined' \subseteq declined
      /\ willing' = willing \ {u} /\ gone' = gone \cup {u}
  BY DEF CommitErase
<1>5. Steps({h}, {u} \cup back)
  <2>1. Proceed(h, Idle, {u} \cup back)
    BY DEF CommitErase
  <2> HIDE DEF back, u
  <2> QED BY <2>1, <1>1, ProceedSteps, PlainJobs
<1>6. ASSUME NEW p \in T, NEW w \in Members, entry[w] = "MATCHED", Keeps(w, p) PROVE w \in {u} \cup back
  BY <1>1, <1>6, GivenBack
<1> HIDE DEF u, back, T
<1>7. /\ entry' \in [Members -> Entries]
      /\ \A w \in Members \ ({u} \cup back) : entry'[w] = entry[w]
      /\ \A w \in {u} \cup back : entry'[w] # "MATCHED"
  <2>1. /\ Moved({}, back, late) \in [Members -> Entries]
        /\ \A w \in Members \ ({} \cup back) : Moved({}, back, late)[w] = entry[w]
        /\ \A w \in {} \cup back : Moved({}, back, late)[w] \in {"QUEUED", "LEFT"}
    BY <1>1, <1>2, MovedEntries
  <2> QED BY <2>1, <1>2, <1>3 DEF Entries
<1>8. proposal \in [Proposals -> Rows] /\ Closed \in Rows
  BY <1>1 DEF TypeOK, Closed, Rows
<1>9. \A p \in Proposals : /\ proposal'[p] \in Rows
                           /\ proposal'[p].pair \subseteq proposal[p].pair \ {u}
                           /\ p \in T => proposal'[p].status = "CLOSED" /\ proposal'[p].pair = {} /\ proposal'[p].accepts = {}
                           /\ p \notin T => /\ proposal'[p].status = proposal[p].status
                                            /\ proposal'[p].pair = proposal[p].pair \ {u}
                                            /\ proposal'[p].accepts = proposal[p].accepts \ {u}
  <2> SUFFICES ASSUME NEW p \in Proposals
               PROVE  /\ proposal'[p] \in Rows
                      /\ proposal'[p].pair \subseteq proposal[p].pair \ {u}
                      /\ p \in T => proposal'[p].status = "CLOSED" /\ proposal'[p].pair = {} /\ proposal'[p].accepts = {}
                      /\ p \notin T => /\ proposal'[p].status = proposal[p].status
                                       /\ proposal'[p].pair = proposal[p].pair \ {u}
                                       /\ proposal'[p].accepts = proposal[p].accepts \ {u}
    OBVIOUS
  <2>1. CASE p \in T
    <3>1. proposal'[p] = Without(Closed, u)
      BY <2>1, <1>4 DEF Cancelled
    <3> QED BY <3>1, <2>1 DEF Without, Closed, Rows
  <2>2. CASE p \notin T
    <3>1. proposal'[p] = Without(proposal[p], u)
      BY <2>2, <1>4 DEF Cancelled
    <3> QED BY <3>1, <2>2, <1>8 DEF Without, Rows
  <2> QED BY <2>1, <2>2
<1>10. TypeOK'
  <2>1. proposal' \in [Proposals -> Rows]
    BY <1>4, <1>9
  <2>2. \A p \in Proposals : proposal'[p].accepts \subseteq proposal'[p].pair
    BY <1>1, <1>9 DEF TypeOK
  <2> QED BY <2>1, <2>2, <1>1, <1>2, <1>4, <1>5, <1>7 DEF TypeOK, Steps
<1>11. willing' \cap gone' = {}
  BY <1>4
<1>12. OneProposalEach' /\ RowsAreOfTwo'
  <2>1. \A p \in Proposals : /\ proposal'[p].pair \subseteq proposal[p].pair
                             /\ proposal'[p].status = "PENDING" => proposal[p].status = "PENDING"
    BY <1>9
  <2> QED BY <2>1, RowsKept
<1>13. AcceptedByBoth'
  BY <1>9 DEF AcceptedByBoth
<1>14. TargetsAreKnown'
  <2>1. \A p \in Proposals \ {} :
          /\ proposal'[p].pair \subseteq proposal[p].pair
          /\ proposal'[p].status = "PENDING" => /\ proposal[p].status = "PENDING"
                                                /\ proposal[p].pair \subseteq proposal'[p].pair \cup gone'
    BY <1>4, <1>9
  <2> QED BY <2>1, <1>4, <1>5, TargetsKept
<1>15. MatchedIsKept'
  <2>1. \A w \in Members : entry'[w] = "MATCHED" => entry[w] = "MATCHED" /\ w \notin {u} \cup back
    BY <1>7
  <2>2. \A w \in Members, p \in Proposals : entry'[w] = "MATCHED" /\ Keeps(w, p) => p \notin T
    BY <2>1, <1>6
  <2>3. \A w \in Members, p \in Proposals : entry'[w] = "MATCHED" /\ Keeps(w, p) => w \in proposal'[p].pair /\ proposal'[p].status \in Live
    BY <2>1, <2>2, <1>9 DEF Keeps
  <2> QED BY <2>1, <2>3, <1>5, MatchedKept
<1>16. CandidatesWait'
  BY <1>5, <1>7, CandidatesKept
<1> QED BY <1>10, <1>11, <1>12, <1>13, <1>14, <1>15, <1>16

-----------------------------------------------------------------------------
LEMMA ProposeKeeps ==
  ASSUME MatchInv, NEW h \in Handlers, NEW v \in Members, NEW p \in Proposals, Propose(h, v, p)
  PROVE  MatchInv'
<1> DEFINE u == job[h].user
           row == [status |-> "PENDING", pair |-> {u, v}, accepts |-> {}]
<1> USE DEF MatchInv
<1>1. /\ job[h].pc = "scanned" /\ u \in Members /\ {u, v} \in Compatible
      /\ Free(u, v) /\ proposal[p] = Closed /\ \A g \in Handlers : job[g].target # p
      /\ UNCHANGED <<willing, gone, blocked, declined>> /\ TypeOK
  BY DEF Propose, At, CandidatesWait
<1>2. /\ proposal' = [proposal EXCEPT ![p] = row]
      /\ entry' = [w \in Members |-> IF w \in {u, v} THEN "MATCHED" ELSE entry[w]]
  BY DEF Propose
<1>3. Steps({h}, {u, v})
  <2>1. Proceed(h, Idle, {u, v})
    BY DEF Propose
  <2> HIDE DEF u
  <2> QED BY <2>1, <1>1, ProceedSteps, PlainJobs
<1>4. row \in Rows /\ row.pair = {u, v} /\ row.status = "PENDING" /\ row.accepts = {}
  BY <1>1 DEF Rows
<1> HIDE DEF u, row
<1>5. \A q \in Proposals : proposal'[q] = IF q = p THEN row ELSE proposal[q]
  BY <1>1, <1>2 DEF TypeOK
<1>6. TypeOK'
  BY <1>1, <1>2, <1>3, <1>4, <1>5 DEF TypeOK, Steps, Entries
<1>7. OneProposalEach'
  <2>1. \A w \in Members, q \in Proposals : q \in Open(w)' => (q = p /\ w \in {u, v}) \/ (q # p /\ q \in Open(w))
    BY <1>4, <1>5 DEF Open
  <2>2. Open(u) = {} /\ Open(v) = {}
    BY <1>1 DEF Free
  <2>3. ASSUME NEW w \in Members, NEW q \in Open(w)', NEW q2 \in Open(w)' PROVE q = q2
    <3>1. q \in Proposals /\ q2 \in Proposals
      BY DEF Open
    <3> QED BY <2>1, <2>2, <3>1 DEF OneProposalEach
  <2> QED BY <2>3 DEF OneProposalEach
<1>8. AcceptedByBoth'
  BY <1>4, <1>5 DEF AcceptedByBoth
<1>9. RowsAreOfTwo'
  <2> SUFFICES ASSUME NEW q \in Proposals PROVE \E a, b : proposal'[q].pair \subseteq {a, b}
    BY DEF RowsAreOfTwo
  <2>1. CASE q = p
    <3>1. proposal'[q].pair \subseteq {u, v}
      BY <2>1, <1>4, <1>5
    <3> QED BY <3>1
  <2>2. CASE q # p
    BY <2>2, <1>5 DEF RowsAreOfTwo
  <2> QED BY <2>1, <2>2
<1>10. TargetsAreKnown'
  <2>1. \A q \in Proposals \ {p} :
          /\ proposal'[q].pair \subseteq proposal[q].pair
          /\ proposal'[q].status = "PENDING" => /\ proposal[q].status = "PENDING"
                                                /\ proposal[q].pair \subseteq proposal'[q].pair \cup gone'
    BY <1>5
  <2>2. {p} \in SUBSET Proposals /\ \A g \in Handlers : job[g].target \notin {p}
    BY <1>1
  <2> QED BY <2>1, <2>2, <1>1, <1>3, TargetsKept
<1>11. MatchedIsKept'
  <2> SUFFICES ASSUME NEW w \in Members, entry'[w] = "MATCHED" PROVE \E q \in Proposals : Keeps(w, q)'
    BY DEF MatchedIsKept
  <2>1. \A g \in Handlers : job'[g].pc = "leaving" => job'[g] = job[g]
    BY <1>3 DEF Steps, After, Gives
  <2>2. CASE w \in {u, v}
    <3>1. Keeps(w, p)'
      BY <2>1, <2>2, <1>1, <1>4, <1>5 DEF Keeps, Live
    <3> QED BY <3>1
  <2>3. CASE w \notin {u, v}
    <3>1. PICK q \in Proposals : Keeps(w, q)
      BY <2>3, <1>2 DEF MatchedIsKept
    <3>2. q # p
      BY <3>1, <1>1 DEF Keeps, Closed
    <3>3. Keeps(w, q)'
      BY <2>1, <3>1, <3>2, <1>5 DEF Keeps
    <3> QED BY <3>3
  <2> QED BY <2>2, <2>3
<1>12. CandidatesWait'
  <2>1. \A w \in Members \ {u, v} : entry'[w] = entry[w]
    BY <1>2
  <2> QED BY <2>1, <1>1, <1>3, CandidatesKept
<1> QED BY <1>1, <1>6, <1>7, <1>8, <1>9, <1>10, <1>11, <1>12

-----------------------------------------------------------------------------
LEMMA MatchNext == MatchInv /\ [Next]_vars => MatchInv'
<1> SUFFICES ASSUME MatchInv, [Next]_vars PROVE MatchInv'
  OBVIOUS
<1>1. CASE UNCHANGED vars
  <2>1. TypeOK' /\ Steps({}, {})
    BY <1>1, NoSteps DEF vars, MatchInv, TypeOK
  <2> QED BY <2>1, <1>1, QuietKeeps DEF vars, MatchInv
<1>2. ASSUME NEW u \in Members, OptIn(u) \/ ExpireEntry(u) PROVE MatchInv'
  BY <1>2, OptInKeeps, ExpireEntryKeeps
<1>3. ASSUME NEW p \in Proposals, ExpireProposal(p) \/ \E u \in Members : Accept(u, p) PROVE MatchInv'
  BY <1>3, ExpireProposalKeeps, AcceptKeeps
<1>4. ASSUME NEW pair \in declined, CooldownEnds(pair) PROVE MatchInv'
  BY <1>4, CooldownEndsKeeps
<1>5. ASSUME NEW u \in Members, NEW v \in Members, Unblock(u, v) PROVE MatchInv'
  BY <1>5, UnblockKeeps
<1>6. ASSUME NEW h \in Handlers, NEW u \in Members,
             OptOut(h, u) \/ Join(h, u) \/ BeginLeave(h, u) \/ Scan(h, u) \/ BeginErase(h, u)
      PROVE  MatchInv'
  BY <1>6, OptOutKeeps, JoinKeeps, BeginLeaveKeeps, ScanKeeps, BeginEraseKeeps
<1>7. ASSUME NEW h \in Handlers, CommitJoin(h) \/ CommitLeave(h) \/ CommitErase(h) \/ Fail(h) PROVE MatchInv'
  BY <1>7, CommitJoinKeeps, CommitLeaveKeeps, CommitEraseKeeps, FailKeeps
<1>8. ASSUME NEW h \in Handlers, NEW what \in Sources, Read(h, what) PROVE MatchInv'
  BY <1>8, ReadKeeps
<1>9. ASSUME NEW h \in Handlers, NEW v \in Members, NEW p \in Proposals, Propose(h, v, p) PROVE MatchInv'
  BY <1>9, ProposeKeeps
<1>10. ASSUME NEW h \in Handlers, NEW u \in Members, NEW p \in Proposals, NEW d \in {"DECLINE", "BLOCK"}, Refuse(h, u, p, d)
       PROVE  MatchInv'
  BY <1>10, RefuseKeeps
<1> QED BY <1>1, <1>2, <1>3, <1>4, <1>5, <1>6, <1>7, <1>8, <1>9, <1>10 DEF Next

\* The invariant of the queue, the proposals and the handlers (social-matchmaking.service.ts).
THEOREM MatchInvariant == Spec => []MatchInv
BY MatchInit, MatchNext, PTL DEF Spec

\* Every variable keeps its type, and acceptances are of members of their row.
THEOREM MatchingTypes == Spec => []TypeOK
<1>1. MatchInv => TypeOK
  BY DEF MatchInv
<1> QED BY <1>1, MatchInvariant, PTL

\* Nobody has two open proposals, whichever requests and ticks match them at the
\* same time (matchForUser's transaction).
THEOREM MembersHaveOneProposal == Spec => []OneProposalEach
<1>1. MatchInv => OneProposalEach
  BY DEF MatchInv
<1> QED BY <1>1, MatchInvariant, PTL

\* Nobody is kept out of the queue without an open or an accepted proposal, whatever
\* leaves, refuses, expires or is deleted (requeuePartner).
THEOREM MatchedMembersAreProposed == Spec => []MatchedIsProposed
<1>1. MatchInv => MatchedIsProposed
  BY DEF MatchInv, MatchedIsKept, Keeps, Live, MatchedIsProposed
<1> QED BY <1>1, MatchInvariant, PTL

\* A connection was accepted by every member it still has (decide).
THEOREM ConnectionsAreAccepted == Spec => []AcceptedByBoth
<1>1. MatchInv => AcceptedByBoth
  BY DEF MatchInv
<1> QED BY <1>1, MatchInvariant, PTL

-----------------------------------------------------------------------------
(* Refusals. They are read outside the transaction that proposes, so what        *)
(* protects them is that a refusal takes its author, whose entry changes, out of *)
(* the queue. That needs one of two members with an open proposal to be out of   *)
(* the queue, which two overtaken leavings could undo.                           *)
OneOvertaken == \A g, h \in Overtaken : g = h

\* Two members with an open proposal are not both in the queue, and when one is,
\* no overtaken leaving is about to give the other back to it.
Apart ==
  \A p \in Proposals : proposal[p].status = "PENDING" =>
    \A a, b \in proposal[p].pair : a # b /\ entry[a] = "QUEUED" =>
      /\ entry[b] # "QUEUED"
      /\ \A h \in Overtaken : Gives(job[h]) /\ job[h].partner = b => job[h].target = p

PartnersHaveTargets == \A h \in Handlers : Gives(job[h]) /\ job[h].partner # None => job[h].target # None

\* The candidates left after the reads have not been refused since.
NotRefused ==
  \A h \in Handlers : job[h].pc = "scanned" =>
    \A v \in job[h].candidates :
      /\ "blocks" \notin job[h].unread => <<job[h].user, v>> \notin blocked /\ <<v, job[h].user>> \notin blocked
      /\ "declines" \notin job[h].unread => {job[h].user, v} \notin declined

RefusalInv == MatchInv /\ Apart /\ PartnersHaveTargets /\ NotRefused

\* Entries come into the queue when they have no open proposal: nobody meets there.
LEMMA ApartKept ==
  ASSUME MatchInv, Apart,
         \A g \in Handlers : Gives(job'[g]) => job'[g] = job[g],
         \A p \in Proposals : proposal'[p].status = "PENDING" => proposal[p].status = "PENDING" /\ proposal'[p].pair \subseteq proposal[p].pair,
         \A u \in Members : entry'[u] = "QUEUED" => entry[u] = "QUEUED" \/ Open(u)' = {}
  PROVE  Apart'
<1> SUFFICES ASSUME NEW p \in Proposals, proposal'[p].status = "PENDING",
                    NEW a \in proposal'[p].pair, NEW b \in proposal'[p].pair, a # b, entry'[a] = "QUEUED"
             PROVE  /\ entry'[b] # "QUEUED"
                    /\ \A h \in Overtaken : Gives(job'[h]) /\ job'[h].partner = b => job'[h].target = p
  BY DEF Apart, Gives
<1>1. proposal[p].status = "PENDING" /\ a \in proposal[p].pair /\ b \in proposal[p].pair /\ {a, b} \subseteq Members
  BY DEF MatchInv, TypeOK, Rows
<1>2. p \in Open(a)' /\ p \in Open(b)'
  BY DEF Open
<1>3. entry[a] = "QUEUED" /\ (entry'[b] = "QUEUED" => entry[b] = "QUEUED")
  BY <1>1, <1>2
<1> QED BY <1>1, <1>3, MatchingAssumption DEF Apart

LEMMA PartnersKept ==
  ASSUME PartnersHaveTargets, \A g \in Handlers : Gives(job'[g]) => job'[g] = job[g]
  PROVE  PartnersHaveTargets'
BY DEF PartnersHaveTargets, Gives

\* A leaving or a deletion that commits.
LEMMA GivingApart ==
  ASSUME MatchInv, Apart, PartnersHaveTargets, OneOvertaken, NEW h \in Handlers, Gives(job[h]), Unchecked(h), ~Gives(job'[h]),
         \A g \in Handlers : Gives(job'[g]) => job'[g] = job[g],
         \A p \in Proposals : proposal'[p].status = "PENDING" =>
            p # job[h].target /\ proposal[p].status = "PENDING" /\ proposal'[p].pair \subseteq proposal[p].pair,
         \A u \in Members : entry'[u] = "QUEUED" => entry[u] = "QUEUED" \/ (u = job[h].partner /\ u \in willing)
  PROVE  Apart'
<1> SUFFICES ASSUME NEW p \in Proposals, proposal'[p].status = "PENDING",
                    NEW a \in proposal'[p].pair, NEW b \in proposal'[p].pair, a # b, entry'[a] = "QUEUED"
             PROVE  /\ entry'[b] # "QUEUED"
                    /\ \A g \in Overtaken : Gives(job'[g]) /\ job'[g].partner = b => job'[g].target = p
  BY DEF Apart, Gives
<1>1. /\ proposal[p].status = "PENDING" /\ p # job[h].target
      /\ a \in proposal[p].pair /\ b \in proposal[p].pair /\ {a, b} \subseteq Members
  BY DEF MatchInv, TypeOK, Rows
<1>2. ASSUME NEW x \in {a, b}, x = job[h].partner, x \in willing PROVE h \in Overtaken
  <2>1. x # None /\ job[h].target # None
    BY <1>1, <1>2, MatchingAssumption DEF PartnersHaveTargets
  <2>2. job[h].target \in Proposals
    BY <2>1 DEF MatchInv, TypeOK, Jobs
  <2>3. SUFFICES ASSUME proposal[job[h].target].status = "PENDING" PROVE FALSE
    BY <2>1 DEF Unchecked
  <2>4. x \in proposal[job[h].target].pair
    BY <1>2, <2>1, <2>3 DEF MatchInv, TargetsAreKnown
  <2>5. job[h].target \in Open(x) /\ p \in Open(x)
    BY <1>1, <2>2, <2>3, <2>4 DEF Open
  <2> QED BY <1>1, <2>5 DEF MatchInv, OneProposalEach
<1>3. CASE entry[a] = "QUEUED"
  <2>1. entry[b] # "QUEUED" /\ \A g \in Overtaken : Gives(job[g]) /\ job[g].partner = b => job[g].target = p
    BY <1>1, <1>3 DEF Apart
  <2>2. entry'[b] # "QUEUED"
    <3>1. SUFFICES ASSUME b = job[h].partner, b \in willing PROVE FALSE
      BY <1>1, <2>1
    <3>2. h \in Overtaken
      BY <1>2, <3>1
    <3> QED BY <1>1, <2>1, <3>1, <3>2
  <2> QED BY <2>1, <2>2, MatchingAssumption
<1>4. CASE entry[a] # "QUEUED"
  <2>1. a = job[h].partner /\ a \in willing
    BY <1>1, <1>4
  <2>2. h \in Overtaken
    BY <1>2, <2>1
  <2>3. entry[b] # "QUEUED"
    BY <1>1, <2>1, <2>2 DEF Apart
  <2>4. entry'[b] # "QUEUED"
    BY <1>1, <2>1, <2>3
  <2>5. \A g \in Overtaken : g = h
    BY <2>2 DEF OneOvertaken
  <2> QED BY <2>4, <2>5
<1> QED BY <1>3, <1>4

\* New refusals are of members who are not both in the queue.
LEMMA NotRefusedKept ==
  ASSUME MatchInv, NotRefused, NEW H \in SUBSET Handlers, NEW us, Steps(H, us),
         \A x, y \in Members : entry[x] = "QUEUED" /\ entry[y] = "QUEUED" /\ x # y =>
            /\ <<x, y>> \in blocked' => <<x, y>> \in blocked
            /\ {x, y} \in declined' => {x, y} \in declined
  PROVE  NotRefused'
<1> SUFFICES ASSUME NEW h \in Handlers, job'[h].pc = "scanned", NEW v \in job'[h].candidates
             PROVE  /\ "blocks" \notin job'[h].unread => <<job'[h].user, v>> \notin blocked' /\ <<v, job'[h].user>> \notin blocked'
                    /\ "declines" \notin job'[h].unread => {job'[h].user, v} \notin declined'
  BY DEF NotRefused
<1>1. h \notin H
  BY DEF Steps
<1>2. /\ job[h].pc = "scanned" /\ job'[h].user = job[h].user /\ job'[h].unread = job[h].unread
      /\ v \in job[h].candidates
  BY <1>1 DEF Steps, After
<1>3. /\ job[h].user \in Members /\ entry[job[h].user] = "QUEUED"
      /\ entry[v] = "QUEUED" /\ {job[h].user, v} \in Compatible
  BY <1>2 DEF MatchInv, CandidatesWait
<1>4. v \in Members /\ job[h].user # v
  BY <1>2, <1>3, MatchingAssumption, PairsDiffer DEF MatchInv, TypeOK, Jobs
<1> QED BY <1>2, <1>3, <1>4 DEF NotRefused

\* No handler of a step that begins no leaving holds more than it did.
LEMMA StepsGive ==
  ASSUME TypeOK, NEW H \in SUBSET Handlers, NEW us, Steps(H, us)
  PROVE  \A g \in Handlers : Gives(job'[g]) => g \notin H /\ job'[g] = job[g]
BY DEF Steps, After

\* What the steps do to the handlers, when no matching or leaving begins.
LEMMA PlainSteps ==
  ASSUME MatchInv, NEW h \in Handlers,
         \/ \E u \in Members : OptOut(h, u) \/ Join(h, u)
         \/ CommitJoin(h) \/ CommitLeave(h) \/ CommitErase(h) \/ Fail(h)
         \/ \E v \in Members, p \in Proposals : Propose(h, v, p)
         \/ \E u \in Members, p \in Proposals, d \in {"DECLINE", "BLOCK"} : Refuse(h, u, p, d)
  PROVE  \E us : Steps({h}, us)
<1>0. TypeOK /\ job[h] \in Jobs
  BY DEF MatchInv, TypeOK
<1>1. SUFFICES \E r \in Jobs : Plain(r) /\ \E us : Proceed(h, r, us)
  BY <1>0, ProceedSteps
<1>2. ASSUME NEW u \in Members, OptOut(h, u) \/ Join(h, u) PROVE \E r \in Jobs : Plain(r) /\ \E us : Proceed(h, r, us)
  BY <1>2, PlainJobs DEF OptOut, Join
<1>3. CASE CommitJoin(h)
  <2>1. job[h].user \in Members \cup {None}
    BY <1>0 DEF Jobs
  <2>2. Proceed(h, Idle, {}) \/ Proceed(h, [Idle EXCEPT !.pc = "match", !.user = job[h].user], {job[h].user})
    BY <1>3 DEF CommitJoin
  <2> QED BY <2>1, <2>2, PlainJobs
<1>4. CASE CommitLeave(h)
  <2>1. job[h].partner \in Members \cup {None}
    BY <1>0 DEF Jobs
  <2>2. \E us : Proceed(h, Idle, us) \/ Proceed(h, [Idle EXCEPT !.pc = "match", !.user = job[h].partner], us)
    BY <1>4 DEF CommitLeave
  <2> QED BY <2>1, <2>2, PlainJobs
<1>5. CASE CommitErase(h)
  BY <1>5, PlainJobs DEF CommitErase
<1>6. CASE Fail(h)
  BY <1>6, PlainJobs DEF Fail
<1>7. ASSUME NEW v \in Members, NEW p \in Proposals, Propose(h, v, p)
      PROVE \E r \in Jobs : Plain(r) /\ \E us : Proceed(h, r, us)
  BY <1>7, PlainJobs DEF Propose
<1>8. ASSUME NEW u \in Members, NEW p \in Proposals, NEW d \in {"DECLINE", "BLOCK"}, Refuse(h, u, p, d)
      PROVE \E r \in Jobs : Plain(r) /\ \E us : Proceed(h, r, us)
  <2>1. proposal[p].pair \ {u} \subseteq Members
    BY <1>0 DEF TypeOK, Rows
  <2>2. \E us : Proceed(h, Idle, us) \/ \E v \in proposal[p].pair \ {u} : Proceed(h, [Idle EXCEPT !.pc = "match", !.user = v], us)
    BY <1>8 DEF Refuse
  <2> QED BY <2>1, <2>2, PlainJobs
<1> QED BY <1>2, <1>3, <1>4, <1>5, <1>6, <1>7, <1>8

\* The steps that refuse nothing and leave rows and entries alone.
LEMMA QuietApart ==
  ASSUME RefusalInv, NEW H \in SUBSET Handlers, NEW us, Steps(H, us), UNCHANGED <<entry, proposal>>,
         blocked' \subseteq blocked, declined' \subseteq declined
  PROVE  Apart' /\ PartnersHaveTargets' /\ NotRefused'
<1>1. MatchInv /\ TypeOK
  BY DEF RefusalInv, MatchInv
<1>2. \A g \in Handlers : Gives(job'[g]) => job'[g] = job[g]
  BY <1>1, StepsGive
<1>3. Apart'
  BY <1>1, <1>2, ApartKept DEF RefusalInv
<1>4. PartnersHaveTargets' /\ NotRefused'
  BY <1>1, <1>2, PartnersKept, NotRefusedKept DEF RefusalInv
<1> QED BY <1>3, <1>4

\* The steps that let entries into the queue only if they have no open proposal.
LEMMA EntryApart ==
  ASSUME RefusalInv, NEW H \in SUBSET Handlers, NEW us, Steps(H, us),
         blocked' \subseteq blocked, declined' \subseteq declined,
         \A p \in Proposals : proposal'[p].status = "PENDING" => proposal[p].status = "PENDING" /\ proposal'[p].pair \subseteq proposal[p].pair,
         \A u \in Members : entry'[u] = "QUEUED" => entry[u] = "QUEUED" \/ Open(u)' = {}
  PROVE  Apart' /\ PartnersHaveTargets' /\ NotRefused'
<1>1. MatchInv /\ TypeOK
  BY DEF RefusalInv, MatchInv
<1>2. \A g \in Handlers : Gives(job'[g]) => job'[g] = job[g]
  BY <1>1, StepsGive
<1>3. Apart'
  BY <1>1, <1>2, ApartKept DEF RefusalInv
<1>4. PartnersHaveTargets' /\ NotRefused'
  BY <1>1, <1>2, PartnersKept, NotRefusedKept DEF RefusalInv
<1> QED BY <1>3, <1>4

\* Closing the only open row of its members leaves them without one.
LEMMA ClosedAlone ==
  ASSUME MatchInv, NEW p \in Proposals, proposal[p].status = "PENDING", proposal' = Cancelled({p})
  PROVE  /\ \A u \in proposal[p].pair : Open(u)' = {}
         /\ \A q \in Proposals : proposal'[q].status = "PENDING" => proposal[q].status = "PENDING" /\ proposal'[q].pair \subseteq proposal[q].pair
<1>1. \A q \in Proposals : proposal'[q] = IF q = p THEN Closed ELSE proposal[q]
  BY DEF Cancelled
<1>2. ASSUME NEW u \in proposal[p].pair, NEW q \in Open(u)' PROVE FALSE
  <2>0. q \in Proposals /\ proposal'[q].status = "PENDING" /\ u \in proposal'[q].pair
    BY DEF Open
  <2>1. q # p /\ proposal'[q] = proposal[q]
    BY <1>1, <2>0 DEF Closed
  <2>2. q \in Open(u) /\ p \in Open(u)
    BY <2>0, <2>1 DEF Open
  <2>3. u \in Members
    BY DEF MatchInv, TypeOK, Rows
  <2> QED BY <2>1, <2>2, <2>3 DEF MatchInv, OneProposalEach
<1> QED BY <1>1, <1>2 DEF Closed

\* Only the other members given back come into the queue.
LEMMA QueuedAfter ==
  ASSUME TypeOK, NEW left \in SUBSET Members, NEW back \in SUBSET Members, NEW late, entry' = Moved(left, back, late)
  PROVE  \A u \in Members : entry'[u] = "QUEUED" => entry[u] = "QUEUED" \/ u \in back \cap willing
BY MovedEntries

LEMMA CommitJoinApart == ASSUME RefusalInv, NEW h \in Handlers, CommitJoin(h) PROVE Apart' /\ PartnersHaveTargets' /\ NotRefused'
<1>0. MatchInv /\ TypeOK
  BY DEF RefusalInv, MatchInv
<1>1. PICK us : Steps({h}, us)
  BY <1>0, PlainSteps
<1>2. UNCHANGED <<proposal, blocked, declined>>
  BY DEF CommitJoin
<1>3. \A u \in Members : entry'[u] = "QUEUED" => entry[u] = "QUEUED" \/ Open(u)' = {}
  <2>1. CASE Open(job[h].user) # {}
    BY <2>1 DEF CommitJoin
  <2>2. CASE Open(job[h].user) = {}
    <3>1. \A u \in Members : entry'[u] # entry[u] => u = job[h].user
      BY <2>2, <1>0 DEF CommitJoin, TypeOK
    <3>2. ASSUME NEW u \in Members, u = job[h].user PROVE Open(u)' = {}
      BY <3>2, <2>2, <1>2 DEF Open
    <3> QED BY <3>1, <3>2
  <2> QED BY <2>1, <2>2
<1> QED BY <1>1, <1>2, <1>3, EntryApart

LEMMA ExpireEntryApart == ASSUME RefusalInv, NEW u \in Members, ExpireEntry(u) PROVE Apart' /\ PartnersHaveTargets' /\ NotRefused'
<1>0. MatchInv /\ TypeOK
  BY DEF RefusalInv, MatchInv
<1>1. Steps({}, {u})
  BY <1>0, TouchSteps DEF ExpireEntry
<1>2. UNCHANGED <<proposal, blocked, declined>> /\ \A v \in Members : entry'[v] = "QUEUED" => entry[v] = "QUEUED"
  BY <1>0 DEF ExpireEntry, TypeOK
<1> QED BY <1>1, <1>2, EntryApart

LEMMA AcceptApart ==
  ASSUME RefusalInv, NEW u \in Members, NEW p \in Proposals, Accept(u, p)
  PROVE  Apart' /\ PartnersHaveTargets' /\ NotRefused'
<1>0. MatchInv /\ TypeOK
  BY DEF RefusalInv, MatchInv
<1>1. Steps({}, {}) /\ UNCHANGED <<entry, blocked, declined>>
  BY <1>0, NoSteps DEF Accept
<1>2. \A q \in Proposals : proposal'[q].status = "PENDING" => proposal[q].status = "PENDING" /\ proposal'[q].pair \subseteq proposal[q].pair
  BY <1>0 DEF Accept, Undecided, Open, TypeOK
<1> QED BY <1>1, <1>2, EntryApart

LEMMA ExpireProposalApart == ASSUME RefusalInv, NEW p \in Proposals, ExpireProposal(p) PROVE Apart' /\ PartnersHaveTargets' /\ NotRefused'
<1> DEFINE back == Matched(proposal[p].pair)
<1>0. MatchInv /\ TypeOK
  BY DEF RefusalInv, MatchInv
<1>1. Steps({}, back)
  <2>1. Touch(back)
    BY DEF ExpireProposal
  <2> HIDE DEF back
  <2> QED BY <2>1, <1>0, TouchSteps
<1>2. UNCHANGED <<blocked, declined>> /\ proposal' = Cancelled({p}) /\ proposal[p].status = "PENDING"
  BY DEF ExpireProposal
<1>3. back \subseteq Members /\ back \subseteq proposal[p].pair
  BY <1>0 DEF TypeOK, Rows, Matched
<1>4. PICK late \in SUBSET back : entry' = Moved({}, back, late)
  BY DEF ExpireProposal
<1> HIDE DEF back
<1>5. \A u \in Members : entry'[u] = "QUEUED" => entry[u] = "QUEUED" \/ u \in back
  BY <1>0, <1>3, <1>4, QueuedAfter
<1> QED BY <1>0, <1>1, <1>2, <1>3, <1>5, ClosedAlone, EntryApart

\* A refusal is of two members who are not both in the queue.
LEMMA RefuseApart ==
  ASSUME RefusalInv, NEW h \in Handlers, NEW u \in Members, NEW p \in Proposals, NEW d \in {"DECLINE", "BLOCK"}, Refuse(h, u, p, d)
  PROVE  Apart' /\ PartnersHaveTargets' /\ NotRefused'
<1> DEFINE others == proposal[p].pair \ {u}
           back == Matched(others)
           left == Matched({u})
<1>0. MatchInv /\ TypeOK /\ Apart
  BY DEF RefusalInv, MatchInv
<1>1. PICK us : Steps({h}, us)
  BY <1>0, PlainSteps
<1>2. /\ proposal' = Cancelled({p}) /\ proposal[p].status = "PENDING" /\ u \in proposal[p].pair
      /\ declined' = declined \cup {{u, v} : v \in others}
      /\ blocked' = blocked \/ blocked' = blocked \cup {<<u, v>> : v \in others}
  BY DEF Refuse, Undecided, Open
<1>3. others \subseteq Members /\ left \subseteq Members /\ back \subseteq Members /\ back \subseteq proposal[p].pair
  BY <1>0 DEF TypeOK, Rows, Matched
<1>4. PICK late \in SUBSET back : entry' = Moved(left, back, late)
  BY DEF Refuse
<1>5. \A v \in others : v \in proposal[p].pair /\ v # u
  OBVIOUS
<1> HIDE DEF others, back, left
<1>6. \A w \in Members : entry'[w] = "QUEUED" => entry[w] = "QUEUED" \/ w \in back
  BY <1>0, <1>3, <1>4, QueuedAfter
<1>7. \A g \in Handlers : Gives(job'[g]) => job'[g] = job[g]
  BY <1>0, <1>1, StepsGive
<1>8. Apart'
  BY <1>0, <1>2, <1>3, <1>6, <1>7, ClosedAlone, ApartKept
<1>9. PartnersHaveTargets'
  BY <1>7, PartnersKept DEF RefusalInv
<1>10. ASSUME NEW x \in Members, NEW y \in Members, entry[x] = "QUEUED", entry[y] = "QUEUED", x # y
       PROVE  /\ <<x, y>> \in blocked' => <<x, y>> \in blocked
              /\ {x, y} \in declined' => {x, y} \in declined
  <2>1. ~(x \in proposal[p].pair /\ y \in proposal[p].pair)
    BY <1>0, <1>2, <1>10 DEF Apart
  <2>2. \A v \in others : <<u, v>> # <<x, y>>
    BY <2>1, <1>2, <1>5
  <2>3. \A v \in others : {u, v} # {x, y}
    BY <2>1, <1>2, <1>5
  <2> QED BY <2>2, <2>3, <1>2
<1>11. NotRefused'
  BY <1>0, <1>1, <1>10, NotRefusedKept DEF RefusalInv
<1> QED BY <1>8, <1>9, <1>11

LEMMA ProposeApart ==
  ASSUME RefusalInv, NEW h \in Handlers, NEW v \in Members, NEW p \in Proposals, Propose(h, v, p)
  PROVE  Apart' /\ PartnersHaveTargets' /\ NotRefused'
<1>0. MatchInv /\ TypeOK /\ Apart
  BY DEF RefusalInv, MatchInv
<1>1. PICK us : Steps({h}, us)
  BY <1>0, PlainSteps
<1>2. \A g \in Handlers : Gives(job'[g]) => job'[g] = job[g]
  BY <1>0, <1>1, StepsGive
<1> DEFINE u == job[h].user
<1>3. /\ \A q \in Proposals \ {p} : proposal'[q] = proposal[q]
      /\ proposal'[p].pair = {u, v}
      /\ \A w \in Members : entry'[w] = IF w \in {u, v} THEN "MATCHED" ELSE entry[w]
      /\ UNCHANGED <<blocked, declined>>
  BY <1>0 DEF Propose, TypeOK
<1> HIDE DEF u
<1>4. Apart'
  <2> SUFFICES ASSUME NEW q \in Proposals, proposal'[q].status = "PENDING",
                      NEW a \in proposal'[q].pair, NEW b \in proposal'[q].pair, a # b, entry'[a] = "QUEUED"
               PROVE  /\ entry'[b] # "QUEUED"
                      /\ \A g \in Overtaken : Gives(job'[g]) /\ job'[g].partner = b => job'[g].target = q
    BY DEF Apart, Gives
  <2>1. CASE q = p
    <3>1. u \in Members
      BY <1>0 DEF Propose, At, MatchInv, CandidatesWait, u
    <3> QED BY <2>1, <3>1, <1>3
  <2>2. CASE q # p
    <3>1. proposal[q].status = "PENDING" /\ a \in proposal[q].pair /\ b \in proposal[q].pair /\ {a, b} \subseteq Members
      BY <2>2, <1>0, <1>3 DEF TypeOK, Rows
    <3>2. entry[a] = "QUEUED" /\ (entry'[b] = "QUEUED" => entry[b] = "QUEUED")
      BY <3>1, <1>3
    <3> QED BY <3>1, <3>2, <1>0, <1>2, MatchingAssumption DEF Apart
  <2> QED BY <2>1, <2>2
<1>5. PartnersHaveTargets' /\ NotRefused'
  BY <1>0, <1>1, <1>2, <1>3, PartnersKept, NotRefusedKept DEF RefusalInv
<1> QED BY <1>4, <1>5

\* A leaving that commits.
LEMMA CommitLeaveApart ==
  ASSUME RefusalInv, OneOvertaken, NEW h \in Handlers, CommitLeave(h)
  PROVE  Apart' /\ PartnersHaveTargets' /\ NotRefused'
<1> DEFINE left == IF job[h].entered THEN {job[h].user} ELSE {}
           back == Matched({job[h].partner} \ {None})
           T == {job[h].target} \ {None}
<1>0. MatchInv /\ TypeOK /\ Apart /\ PartnersHaveTargets /\ Gives(job[h]) /\ Unchecked(h)
  BY DEF RefusalInv, MatchInv, CommitLeave, At, Gives
<1>1. PICK us : Steps({h}, us)
  BY <1>0, PlainSteps
<1>2. \A g \in Handlers : Gives(job'[g]) => g # h /\ job'[g] = job[g]
  BY <1>0, <1>1, StepsGive
<1>3. left \subseteq Members /\ back \subseteq Members /\ T \subseteq Proposals /\ back \subseteq {job[h].partner}
  BY <1>0, GivenBack DEF Matched
<1>4. PICK late \in SUBSET back : entry' = Moved(left, back, late)
  BY DEF CommitLeave
<1>5. proposal' = Cancelled(T) /\ UNCHANGED <<blocked, declined>>
  BY DEF CommitLeave
<1>6. \A p \in Proposals : proposal'[p] = IF p \in T THEN Closed ELSE proposal[p]
  BY <1>5 DEF Cancelled
<1>7. \A p \in Proposals : proposal'[p].status = "PENDING" =>
            p # job[h].target /\ proposal[p].status = "PENDING" /\ proposal'[p].pair \subseteq proposal[p].pair
  <2>1. \A p \in Proposals : p = job[h].target => p \in T
    BY MatchingAssumption
  <2> HIDE DEF T
  <2> QED BY <2>1, <1>6 DEF Closed
<1> HIDE DEF left, back, T
<1>8. \A u \in Members : entry'[u] = "QUEUED" => entry[u] = "QUEUED" \/ (u = job[h].partner /\ u \in willing)
  BY <1>0, <1>3, <1>4, QueuedAfter
<1>9. Apart'
  BY <1>0, <1>2, <1>7, <1>8, GivingApart
<1>10. PartnersHaveTargets' /\ NotRefused'
  BY <1>0, <1>1, <1>2, <1>5, PartnersKept, NotRefusedKept DEF RefusalInv
<1> QED BY <1>9, <1>10

\* The deletion of an account that commits.
LEMMA CommitEraseApart ==
  ASSUME RefusalInv, OneOvertaken, NEW h \in Handlers, CommitErase(h)
  PROVE  Apart' /\ PartnersHaveTargets' /\ NotRefused'
<1> DEFINE back == Matched({job[h].partner} \ {None})
           T == {job[h].target} \ {None}
<1>0. MatchInv /\ TypeOK /\ Apart /\ PartnersHaveTargets /\ Gives(job[h]) /\ Unchecked(h)
  BY DEF RefusalInv, MatchInv, CommitErase, At, Gives
<1>1. PICK us : Steps({h}, us)
  BY <1>0, PlainSteps
<1>2. \A g \in Handlers : Gives(job'[g]) => g # h /\ job'[g] = job[g]
  BY <1>0, <1>1, StepsGive
<1>3. back \subseteq Members /\ T \subseteq Proposals /\ back \subseteq {job[h].partner}
  BY <1>0, GivenBack DEF Matched
<1>4. PICK late \in SUBSET back : entry' = [Moved({}, back, late) EXCEPT ![job[h].user] = "NONE"]
  BY DEF CommitErase
<1>5. /\ proposal' = [p \in Proposals |-> Without(Cancelled(T)[p], job[h].user)]
      /\ blocked' \subseteq blocked /\ declined' \subseteq declined
  BY DEF CommitErase
<1>6. \A p \in Proposals : proposal'[p] = IF p \in T THEN Without(Closed, job[h].user) ELSE Without(proposal[p], job[h].user)
  BY <1>5 DEF Cancelled
<1>7. \A p \in Proposals : proposal'[p].status = "PENDING" =>
            p # job[h].target /\ proposal[p].status = "PENDING" /\ proposal'[p].pair \subseteq proposal[p].pair
  <2>1. \A p \in Proposals : p = job[h].target => p \in T
    BY MatchingAssumption
  <2>2. Without(Closed, job[h].user).status # "PENDING"
    BY DEF Without, Closed
  <2>3. \A p \in Proposals : /\ Without(proposal[p], job[h].user).status = proposal[p].status
                             /\ Without(proposal[p], job[h].user).pair \subseteq proposal[p].pair
    BY <1>0 DEF Without, TypeOK, Rows
  <2> HIDE DEF T
  <2> QED BY <2>1, <2>2, <2>3, <1>6
<1> HIDE DEF back, T
<1>8. \A u \in Members : entry'[u] = "QUEUED" => entry[u] = "QUEUED" \/ (u = job[h].partner /\ u \in willing)
  <2>1. Moved({}, back, late) \in [Members -> Entries]
    BY <1>0, <1>3, MovedEntries
  <2>2. \A u \in Members : entry'[u] = "QUEUED" => Moved({}, back, late)[u] = "QUEUED"
    BY <2>1, <1>4
  <2>3. \A u \in Members : Moved({}, back, late)[u] = "QUEUED" => entry[u] = "QUEUED" \/ u \in back \cap willing
    BY <1>0, <1>3, MovedEntries
  <2> QED BY <2>2, <2>3, <1>3
<1>9. Apart'
  BY <1>0, <1>2, <1>7, <1>8, GivingApart
<1>10. PartnersHaveTargets' /\ NotRefused'
  BY <1>0, <1>1, <1>2, <1>5, PartnersKept, NotRefusedKept DEF RefusalInv
<1> QED BY <1>9, <1>10

\* A handler that begins a matching or a leaving, or reads on.
LEMMA NewJobApart ==
  ASSUME RefusalInv, NEW h \in Handlers, NEW r \in Jobs, Proceed(h, r, {}),
         UNCHANGED <<entry, proposal, blocked, declined>>,
         Gives(r) /\ r.partner # None =>
           r.target \in Proposals /\ proposal[r.target].status = "PENDING" /\ r.partner \in proposal[r.target].pair,
         r.pc = "scanned" => \A v \in r.candidates :
           /\ "blocks" \notin r.unread => <<r.user, v>> \notin blocked /\ <<v, r.user>> \notin blocked
           /\ "declines" \notin r.unread => {r.user, v} \notin declined
  PROVE  Apart' /\ PartnersHaveTargets' /\ NotRefused'
<1>0. MatchInv /\ TypeOK /\ OneProposalEach /\ None \notin Members /\ None \notin Proposals
  BY MatchingAssumption DEF RefusalInv, MatchInv
<1>1. job'[h] = r /\ \A g \in Handlers \ {h} : After(g, {})
  BY <1>0, Proceeds, StaleIsAfter
<1>2. \A g \in Handlers \ {h} : Gives(job'[g]) => job'[g] = job[g]
  BY <1>1 DEF After
<1>3. Apart'
  <2> SUFFICES ASSUME NEW p \in Proposals, proposal[p].status = "PENDING",
                      NEW a \in proposal[p].pair, NEW b \in proposal[p].pair, a # b, entry[a] = "QUEUED"
               PROVE  /\ entry[b] # "QUEUED"
                      /\ \A g \in Overtaken : Gives(job'[g]) /\ job'[g].partner = b => job'[g].target = p
    BY DEF Apart, Gives
  <2>1. /\ entry[b] # "QUEUED"
        /\ \A g \in Overtaken : Gives(job[g]) /\ job[g].partner = b => job[g].target = p
    BY DEF RefusalInv, Apart
  <2>2. b \in Members /\ p \in Open(b)
    BY <1>0 DEF TypeOK, Rows, Open
  <2>3. ASSUME NEW g \in Overtaken, Gives(job'[g]), job'[g].partner = b PROVE job'[g].target = p
    <3>1. CASE g = h
      <4>1. r.target \in Open(b)
        BY <2>2, <2>3, <3>1, <1>0, <1>1 DEF Open
      <4> QED BY <4>1, <2>2, <3>1, <1>0, <1>1 DEF OneProposalEach
    <3>2. CASE g # h
      BY <2>1, <2>3, <3>2, <1>2, MatchingAssumption
    <3> QED BY <3>1, <3>2
  <2> QED BY <2>1, <2>3
<1>4. PartnersHaveTargets'
  <2> SUFFICES ASSUME NEW g \in Handlers, Gives(job'[g]), job'[g].partner # None PROVE job'[g].target # None
    BY DEF PartnersHaveTargets, Gives
  <2>1. CASE g = h
    BY <2>1, <1>0, <1>1
  <2>2. CASE g # h
    BY <2>2, <1>2 DEF RefusalInv, PartnersHaveTargets
  <2> QED BY <2>1, <2>2
<1>5. NotRefused'
  <2> SUFFICES ASSUME NEW g \in Handlers, job'[g].pc = "scanned", NEW v \in job'[g].candidates
               PROVE  /\ "blocks" \notin job'[g].unread => <<job'[g].user, v>> \notin blocked /\ <<v, job'[g].user>> \notin blocked
                      /\ "declines" \notin job'[g].unread => {job'[g].user, v} \notin declined
    BY DEF NotRefused
  <2>1. CASE g = h
    BY <2>1, <1>1
  <2>2. CASE g # h
    <3>1. /\ job[g].pc = "scanned" /\ job'[g].user = job[g].user /\ job'[g].unread = job[g].unread
          /\ v \in job[g].candidates
      BY <2>2, <1>1 DEF After
    <3> QED BY <3>1 DEF RefusalInv, NotRefused
  <2> QED BY <2>1, <2>2
<1> QED BY <1>3, <1>4, <1>5

LEMMA ScanApart ==
  ASSUME RefusalInv, NEW h \in Handlers, NEW u \in Members, Scan(h, u)
  PROVE  Apart' /\ PartnersHaveTargets' /\ NotRefused'
<1> DEFINE others == {v \in Members : Waiting(v) /\ {u, v} \in Compatible}
           r == [Idle EXCEPT !.pc = "scanned", !.user = u, !.candidates = others, !.unread = Sources]
<1>1. r \in Jobs /\ ~Gives(r) /\ r.unread = Sources
  BY DEF Idle, Jobs, Gives
<1>2. Proceed(h, r, {}) /\ UNCHANGED <<entry, proposal, blocked, declined>>
  BY DEF Scan
<1>3. "blocks" \in r.unread /\ "declines" \in r.unread
  BY <1>1 DEF Sources
<1> HIDE DEF r, others
<1> QED BY <1>1, <1>2, <1>3, NewJobApart

\* Each read drops the candidates it rules out.
LEMMA ReadApart ==
  ASSUME RefusalInv, NEW h \in Handlers, NEW what \in Sources, Read(h, what)
  PROVE  Apart' /\ PartnersHaveTargets' /\ NotRefused'
<1> DEFINE u == job[h].user
           out == CASE what = "pending" -> {v \in Members : Open(v) # {}}
                    [] what = "declines" -> {v \in Members : {u, v} \in declined}
                    [] what = "blocks" -> {v \in Members : <<u, v>> \in blocked \/ <<v, u>> \in blocked}
           left == job[h].candidates \ out
           r == [job[h] EXCEPT !.unread = @ \ {what}, !.candidates = left]
<1>0. MatchInv /\ TypeOK /\ job[h] \in Jobs /\ job[h].pc = "scanned"
  BY DEF RefusalInv, MatchInv, TypeOK, Read, At
<1>1. /\ Proceed(h, Among([job[h] EXCEPT !.unread = @ \ {what}], left), {})
      /\ UNCHANGED <<entry, proposal, blocked, declined>>
  BY DEF Read
<1>2. CASE left = {}
  <2>1. Proceed(h, Idle, {})
    BY <1>1, <1>2 DEF Among
  <2>2. Idle \in Jobs /\ ~Gives(Idle) /\ Idle.pc # "scanned"
    BY PlainJobs DEF Plain
  <2> QED BY <1>1, <2>1, <2>2, NewJobApart
<1>3. CASE left # {}
  <2>1. [[job[h] EXCEPT !.unread = @ \ {what}] EXCEPT !.candidates = left] = r
    BY <1>0 DEF Jobs
  <2>2. Proceed(h, r, {})
    BY <1>1, <1>3, <2>1 DEF Among
  <2>3. /\ r \in Jobs /\ ~Gives(r) /\ r.user = u /\ r.candidates = left /\ r.unread = job[h].unread \ {what}
        /\ left \subseteq job[h].candidates /\ left \subseteq Members
    BY <1>0 DEF Jobs, Gives
  <2>4. ASSUME NEW v \in left
        PROVE  /\ "blocks" \notin r.unread => <<u, v>> \notin blocked /\ <<v, u>> \notin blocked
               /\ "declines" \notin r.unread => {u, v} \notin declined
    <3>1. v \in job[h].candidates /\ v \in Members /\ v \notin out
      BY <2>3
    <3>2. /\ "blocks" \notin job[h].unread => <<u, v>> \notin blocked /\ <<v, u>> \notin blocked
          /\ "declines" \notin job[h].unread => {u, v} \notin declined
      BY <3>1, <1>0 DEF RefusalInv, NotRefused
    <3>3. CASE what = "blocks"
      <4>1. <<u, v>> \notin blocked /\ <<v, u>> \notin blocked
        BY <3>1, <3>3
      <4>2. "declines" \notin r.unread => "declines" \notin job[h].unread
        BY <2>3, <3>3
      <4> HIDE DEF r, u
      <4> QED BY <4>1, <4>2, <3>2
    <3>4. CASE what = "declines"
      <4>1. {u, v} \notin declined
        BY <3>1, <3>4
      <4>2. "blocks" \notin r.unread => "blocks" \notin job[h].unread
        BY <2>3, <3>4
      <4> HIDE DEF r, u
      <4> QED BY <4>1, <4>2, <3>2
    <3>5. CASE what = "pending"
      <4>1. /\ "blocks" \notin r.unread => "blocks" \notin job[h].unread
            /\ "declines" \notin r.unread => "declines" \notin job[h].unread
        BY <2>3, <3>5
      <4> HIDE DEF r, u
      <4> QED BY <4>1, <3>2
    <3> QED BY <3>3, <3>4, <3>5 DEF Sources
  <2> HIDE DEF r, left, u
  <2> QED BY <1>1, <2>2, <2>3, <2>4, NewJobApart
<1> QED BY <1>2, <1>3

LEMMA BeginLeaveApart ==
  ASSUME RefusalInv, NEW h \in Handlers, NEW u \in Members, BeginLeave(h, u)
  PROVE  Apart' /\ PartnersHaveTargets' /\ NotRefused'
<1> DEFINE seen == entry[u] \in {"QUEUED", "MATCHED"}
           r == [Idle EXCEPT !.pc = "leaving", !.user = u, !.entered = seen]
<1>0. seen \in BOOLEAN /\ MatchInv
  BY DEF RefusalInv
<1> HIDE DEF seen
<1>1. UNCHANGED <<entry, proposal, blocked, declined>>
  BY DEF BeginLeave
<1>2. r \in Jobs /\ r.partner = None /\ r.pc = "leaving"
  BY <1>0 DEF Idle, Jobs
<1>3. CASE Open(u) = {}
  <2>1. Proceed(h, r, {})
    BY <1>3 DEF BeginLeave, seen
  <2> HIDE DEF r
  <2> QED BY <2>1, <1>1, <1>2, NewJobApart
<1>4. CASE Open(u) # {}
  <2>1. PICK p \in Open(u) : \E v \in (proposal[p].pair \ {u}) \cup {None} :
               /\ v = None => proposal[p].pair = {u}
               /\ Proceed(h, [r EXCEPT !.target = p, !.partner = v], {})
    BY <1>4 DEF BeginLeave, seen
  <2>2. PICK v \in (proposal[p].pair \ {u}) \cup {None} :
               /\ v = None => proposal[p].pair = {u}
               /\ Proceed(h, [r EXCEPT !.target = p, !.partner = v], {})
    BY <2>1
  <2> DEFINE q == [r EXCEPT !.target = p, !.partner = v]
  <2>3. p \in Proposals /\ v \in Members \cup {None} /\ (v # None => v \in proposal[p].pair) /\ proposal[p].status = "PENDING"
    BY <1>0, <2>2, OtherMember DEF Open
  <2>4. q \in Jobs /\ q.target = p /\ q.partner = v /\ q.pc = "leaving"
    BY <1>0, <2>3 DEF Idle, Jobs
  <2>5. Proceed(h, q, {})
    BY <2>2
  <2> HIDE DEF q, r
  <2> QED BY <2>3, <2>4, <2>5, <1>1, NewJobApart
<1> QED BY <1>3, <1>4

LEMMA BeginEraseApart ==
  ASSUME RefusalInv, NEW h \in Handlers, NEW u \in Members, BeginErase(h, u)
  PROVE  Apart' /\ PartnersHaveTargets' /\ NotRefused'
<1> DEFINE r == [Idle EXCEPT !.pc = "erasing", !.user = u]
<1>0. MatchInv
  BY DEF RefusalInv
<1>1. UNCHANGED <<entry, proposal, blocked, declined>>
  BY DEF BeginErase
<1>2. r \in Jobs /\ r.partner = None /\ r.pc = "erasing"
  BY DEF Idle, Jobs
<1>3. CASE Open(u) = {}
  <2>1. Proceed(h, r, {})
    BY <1>3 DEF BeginErase
  <2> HIDE DEF r
  <2> QED BY <2>1, <1>1, <1>2, NewJobApart
<1>4. CASE Open(u) # {}
  <2>1. PICK p \in Open(u) : \E v \in (proposal[p].pair \ {u}) \cup {None} :
               /\ v = None => proposal[p].pair = {u}
               /\ Proceed(h, [r EXCEPT !.target = p, !.partner = v], {})
    BY <1>4 DEF BeginErase
  <2>2. PICK v \in (proposal[p].pair \ {u}) \cup {None} :
               /\ v = None => proposal[p].pair = {u}
               /\ Proceed(h, [r EXCEPT !.target = p, !.partner = v], {})
    BY <2>1
  <2> DEFINE q == [r EXCEPT !.target = p, !.partner = v]
  <2>3. p \in Proposals /\ v \in Members \cup {None} /\ (v # None => v \in proposal[p].pair) /\ proposal[p].status = "PENDING"
    BY <1>0, <2>2, OtherMember DEF Open
  <2>4. q \in Jobs /\ q.target = p /\ q.partner = v /\ q.pc = "erasing"
    BY <2>3 DEF Idle, Jobs
  <2>5. Proceed(h, q, {})
    BY <2>2
  <2> HIDE DEF q, r
  <2> QED BY <2>3, <2>4, <2>5, <1>1, NewJobApart
<1> QED BY <1>3, <1>4

-----------------------------------------------------------------------------
LEMMA RefusalInit == Init => RefusalInv
<1> SUFFICES ASSUME Init PROVE RefusalInv
  OBVIOUS
<1>1. Apart
  BY DEF Init, Apart, Closed
<1>2. PartnersHaveTargets /\ NotRefused
  BY DEF Init, PartnersHaveTargets, NotRefused, Idle, Gives
<1> QED BY <1>1, <1>2, MatchInit DEF RefusalInv

LEMMA RefusalNext == ASSUME OneOvertaken PROVE RefusalInv /\ [Next]_vars => RefusalInv'
<1> SUFFICES ASSUME RefusalInv, [Next]_vars PROVE Apart' /\ PartnersHaveTargets' /\ NotRefused'
  BY MatchNext DEF RefusalInv
<1>0. MatchInv /\ TypeOK
  BY DEF RefusalInv, MatchInv
<1>1. CASE UNCHANGED vars
  <2>1. Steps({}, {})
    BY <1>0, <1>1, NoSteps DEF vars
  <2> QED BY <2>1, <1>1, QuietApart DEF vars
<1>2. ASSUME NEW u \in Members, OptIn(u) PROVE Apart' /\ PartnersHaveTargets' /\ NotRefused'
  <2>1. Steps({}, {})
    BY <1>0, <1>2, NoSteps DEF OptIn
  <2> QED BY <2>1, <1>2, QuietApart DEF OptIn
<1>3. ASSUME NEW pair \in declined, CooldownEnds(pair) PROVE Apart' /\ PartnersHaveTargets' /\ NotRefused'
  <2>1. Steps({}, {})
    BY <1>0, <1>3, NoSteps DEF CooldownEnds
  <2> QED BY <2>1, <1>3, QuietApart DEF CooldownEnds
<1>4. ASSUME NEW u \in Members, NEW v \in Members, Unblock(u, v) PROVE Apart' /\ PartnersHaveTargets' /\ NotRefused'
  <2>1. Steps({}, {})
    BY <1>0, <1>4, NoSteps DEF Unblock
  <2> QED BY <2>1, <1>4, QuietApart DEF Unblock
<1>5. ASSUME NEW h \in Handlers, NEW u \in Members, OptOut(h, u) \/ Join(h, u) PROVE Apart' /\ PartnersHaveTargets' /\ NotRefused'
  <2>1. PICK us : Steps({h}, us)
    BY <1>0, <1>5, PlainSteps
  <2> QED BY <2>1, <1>5, QuietApart DEF OptOut, Join
<1>6. ASSUME NEW h \in Handlers, Fail(h) PROVE Apart' /\ PartnersHaveTargets' /\ NotRefused'
  <2>1. PICK us : Steps({h}, us)
    BY <1>0, <1>6, PlainSteps
  <2> QED BY <2>1, <1>6, QuietApart DEF Fail
<1>7. ASSUME NEW u \in Members, ExpireEntry(u) PROVE Apart' /\ PartnersHaveTargets' /\ NotRefused'
  BY <1>7, ExpireEntryApart
<1>8. ASSUME NEW p \in Proposals, ExpireProposal(p) \/ \E u \in Members : Accept(u, p)
      PROVE  Apart' /\ PartnersHaveTargets' /\ NotRefused'
  BY <1>8, ExpireProposalApart, AcceptApart
<1>9. ASSUME NEW h \in Handlers, NEW u \in Members, BeginLeave(h, u) \/ Scan(h, u) \/ BeginErase(h, u)
      PROVE  Apart' /\ PartnersHaveTargets' /\ NotRefused'
  BY <1>9, BeginLeaveApart, ScanApart, BeginEraseApart
<1>10. ASSUME NEW h \in Handlers, CommitJoin(h) \/ CommitLeave(h) \/ CommitErase(h)
       PROVE  Apart' /\ PartnersHaveTargets' /\ NotRefused'
  BY <1>10, CommitJoinApart, CommitLeaveApart, CommitEraseApart
<1>11. ASSUME NEW h \in Handlers, NEW what \in Sources, Read(h, what) PROVE Apart' /\ PartnersHaveTargets' /\ NotRefused'
  BY <1>11, ReadApart
<1>12. ASSUME NEW h \in Handlers, NEW v \in Members, NEW p \in Proposals, Propose(h, v, p)
       PROVE  Apart' /\ PartnersHaveTargets' /\ NotRefused'
  BY <1>12, ProposeApart
<1>13. ASSUME NEW h \in Handlers, NEW u \in Members, NEW p \in Proposals, NEW d \in {"DECLINE", "BLOCK"}, Refuse(h, u, p, d)
       PROVE  Apart' /\ PartnersHaveTargets' /\ NotRefused'
  BY <1>13, RefuseApart
<1> QED BY <1>1, <1>2, <1>3, <1>4, <1>5, <1>6, <1>7, <1>8, <1>9, <1>10, <1>11, <1>12, <1>13 DEF Next

\* Only a matching opens a row.
LEMMA OnlyProposeOpens ==
  ASSUME TypeOK, Next, NEW p \in Proposals, proposal[p] = Closed, proposal'[p].status = "PENDING"
  PROVE  \E h \in Handlers, v \in Members : Propose(h, v, p)
<1>0. Closed.status # "PENDING"
  BY DEF Closed
<1>1. proposal' # proposal
  BY <1>0
<1>2. ASSUME NEW ps, proposal' = Cancelled(ps) PROVE FALSE
  BY <1>0, <1>2 DEF Cancelled
<1>3. ASSUME NEW h \in Handlers, CommitErase(h) PROVE FALSE
  <2>1. proposal'[p] = Without(Closed, job[h].user)
    BY <1>3 DEF CommitErase, Cancelled
  <2> QED BY <2>1, <1>0 DEF Without, Closed
<1>4. ASSUME NEW u \in Members, NEW q \in Proposals, Accept(u, q) PROVE FALSE
  <2>1. q # p
    BY <1>0, <1>4 DEF Accept, Undecided, Open
  <2> QED BY <2>1, <1>0, <1>4 DEF Accept, TypeOK
<1>5. ASSUME NEW h \in Handlers, NEW v \in Members, NEW q \in Proposals, Propose(h, v, q), q # p PROVE FALSE
  BY <1>5, <1>0 DEF Propose, TypeOK
<1>6. \A u \in Members : ~(OptIn(u) \/ ExpireEntry(u))
  BY <1>1 DEF OptIn, ExpireEntry
<1>7. \A q \in Proposals : ~(ExpireProposal(q) \/ \E u \in Members : Accept(u, q))
  BY <1>2, <1>4 DEF ExpireProposal
<1>8. (\A pair \in declined : ~CooldownEnds(pair)) /\ \A u, v \in Members : ~Unblock(u, v)
  BY <1>1 DEF CooldownEnds, Unblock
<1>9. \A h \in Handlers, u \in Members : ~(OptOut(h, u) \/ Join(h, u) \/ BeginLeave(h, u) \/ Scan(h, u) \/ BeginErase(h, u))
  BY <1>1 DEF OptOut, Join, BeginLeave, Scan, BeginErase
<1>10. \A h \in Handlers : ~(CommitJoin(h) \/ CommitLeave(h) \/ CommitErase(h) \/ Fail(h))
  BY <1>1, <1>2, <1>3 DEF CommitJoin, CommitLeave, Fail
<1>11. \A h \in Handlers, what \in Sources : ~Read(h, what)
  BY <1>1 DEF Read
<1>12. \A h \in Handlers, u \in Members, q \in Proposals, d \in {"DECLINE", "BLOCK"} : ~Refuse(h, u, q, d)
  BY <1>2 DEF Refuse
<1>13. PICK h \in Handlers, v \in Members, q \in Proposals : Propose(h, v, q)
  BY <1>6, <1>7, <1>8, <1>9, <1>10, <1>11, <1>12 DEF Next
<1> QED BY <1>5, <1>13

LEMMA ProposeAfterNoRefusal ==
  ASSUME RefusalInv, NEW h \in Handlers, NEW v \in Members, NEW p \in Proposals, Propose(h, v, p)
  PROVE  \A x, y \in proposal'[p].pair : x # y => {x, y} \notin declined /\ <<x, y>> \notin blocked
<1> DEFINE u == job[h].user
<1>1. job[h].pc = "scanned" /\ job[h].unread = {} /\ v \in job[h].candidates /\ TypeOK
  BY DEF Propose, At, RefusalInv, MatchInv
<1>2. <<u, v>> \notin blocked /\ <<v, u>> \notin blocked /\ {u, v} \notin declined
  BY <1>1 DEF RefusalInv, NotRefused
<1>3. proposal'[p].pair = {u, v}
  BY <1>1 DEF Propose, TypeOK
<1> HIDE DEF u
<1>4. {u, v} = {v, u}
  OBVIOUS
<1> QED BY <1>2, <1>3, <1>4

\* Nobody is proposed to someone who refused or blocked them, although matchForUser
\* reads the refusals outside its transaction: every refusal takes a member who waits
\* for the other out of the queue, so the transaction's check of the versions covers
\* them. Two overtaken leavings could put both members of an open proposal back in
\* the queue, where a refusal changes nothing; hence the assumption.
THEOREM ProposedAfterNoRefusal == ASSUME OneOvertaken PROVE Spec => NotAfterRefusal
<1>1. RefusalInv /\ [Next]_vars => RefusalInv'
  BY RefusalNext
<1>2. RefusalInv /\ [Next]_vars =>
        [\A p \in Proposals : proposal[p] = Closed /\ proposal'[p].status = "PENDING" =>
           \A u, v \in proposal'[p].pair : u # v => {u, v} \notin declined /\ <<u, v>> \notin blocked]_vars
  <2> SUFFICES ASSUME RefusalInv, Next, NEW p \in Proposals, proposal[p] = Closed, proposal'[p].status = "PENDING",
                      NEW u \in proposal'[p].pair, NEW v \in proposal'[p].pair, u # v
               PROVE  {u, v} \notin declined /\ <<u, v>> \notin blocked
    OBVIOUS
  <2>1. PICK h \in Handlers, w \in Members : Propose(h, w, p)
    BY OnlyProposeOpens DEF RefusalInv, MatchInv
  <2> QED BY <2>1, ProposeAfterNoRefusal
<1> QED BY <1>1, <1>2, RefusalInit, PTL DEF Spec, NotAfterRefusal

-----------------------------------------------------------------------------
(* The refinement of Introductions.                                           *)

\* A closed row holds nobody any more.
ClosedHoldNobody == \A p \in Proposals : proposal[p].status = "CLOSED" => proposal[p] = Closed
IntroInv == RefusalInv /\ ClosedHoldNobody

\* The state that members see of their introductions.
seen == <<proposal, declined, blocked>>

\* A handler that holds no proposal closes none, and else the one it holds.
LEMMA CancelledOne ==
  ASSUME TypeOK, NEW q \in Proposals \cup {None}
  PROVE  /\ q = None => Cancelled({q} \ {None}) = proposal
         /\ q \in Proposals => Cancelled({q} \ {None}) = [proposal EXCEPT ![q] = Closed]
<1>1. proposal = [p \in Proposals |-> proposal[p]]
  BY DEF TypeOK
<1>2. ASSUME q = None PROVE Cancelled({q} \ {None}) = proposal
  <2>1. {q} \ {None} = {}
    BY <1>2
  <2> QED BY <1>1, <2>1 DEF Cancelled
<1>3. ASSUME q \in Proposals PROVE Cancelled({q} \ {None}) = [proposal EXCEPT ![q] = Closed]
  <2>1. {q} \ {None} = {q}
    BY <1>3, MatchingAssumption
  <2> QED BY <1>1, <1>3, <2>1 DEF Cancelled
<1> QED BY <1>2, <1>3

\* Rows are closed whole, and a deletion finds nobody in those that were.
LEMMA ClosedNext == IntroInv /\ [Next]_vars => ClosedHoldNobody'
<1> SUFFICES ASSUME IntroInv, [Next]_vars PROVE ClosedHoldNobody'
  OBVIOUS
<1>1. /\ TypeOK /\ ClosedHoldNobody
      /\ proposal \in [Proposals -> Rows]
  BY DEF IntroInv, RefusalInv, MatchInv, TypeOK
<1>2. ASSUME UNCHANGED proposal PROVE ClosedHoldNobody'
  BY <1>1, <1>2 DEF ClosedHoldNobody
<1>3. ASSUME NEW ps, proposal' = Cancelled(ps) PROVE ClosedHoldNobody'
  BY <1>1, <1>3 DEF ClosedHoldNobody, Cancelled
<1>4. ASSUME NEW h \in Handlers, CommitErase(h) PROVE ClosedHoldNobody'
  <2> SUFFICES ASSUME NEW p \in Proposals, proposal'[p].status = "CLOSED" PROVE proposal'[p] = Closed
    BY DEF ClosedHoldNobody
  <2>1. PICK row : row = Cancelled({job[h].target} \ {None})[p] /\ proposal'[p] = Without(row, job[h].user)
    BY <1>4 DEF CommitErase
  <2>2. row = Closed \/ row = proposal[p]
    BY <2>1 DEF Cancelled
  <2>3. row \in Rows
    BY <1>1, <2>2 DEF Closed, Rows
  <2>4. row.status = "CLOSED"
    BY <2>1, <2>3 DEF Without, Rows
  <2>5. row = Closed
    BY <1>1, <2>2, <2>4 DEF ClosedHoldNobody
  <2>6. \A r \in [status : {"CLOSED"}, pair : {{}}, accepts : {{}}] : r = Closed
    BY DEF Closed
  <2>7. Closed.pair \ {job[h].user} = {} /\ Closed.accepts \ {job[h].user} = {}
    BY DEF Closed
  <2>8. Without(Closed, job[h].user) \in [status : {"CLOSED"}, pair : {{}}, accepts : {{}}]
    BY <2>7 DEF Without, Closed
  <2> QED BY <2>1, <2>5, <2>6, <2>8
<1>5. ASSUME NEW u \in Members, NEW q \in Proposals, Accept(u, q) PROVE ClosedHoldNobody'
  BY <1>1, <1>5 DEF Accept, ClosedHoldNobody
<1>6. ASSUME NEW h \in Handlers, NEW v \in Members, NEW q \in Proposals, Propose(h, v, q) PROVE ClosedHoldNobody'
  BY <1>1, <1>6 DEF Propose, ClosedHoldNobody
<1>7. CASE UNCHANGED vars
  BY <1>2, <1>7 DEF vars
<1>8. CASE \E u \in Members : OptIn(u) \/ ExpireEntry(u)
  BY <1>2, <1>8 DEF OptIn, ExpireEntry
<1>9. CASE \E p \in Proposals : ExpireProposal(p) \/ (\E u \in Members : Accept(u, p))
  BY <1>3, <1>5, <1>9 DEF ExpireProposal
<1>10. CASE (\E pair \in declined : CooldownEnds(pair)) \/ \E u, v \in Members : Unblock(u, v)
  BY <1>2, <1>10 DEF CooldownEnds, Unblock
<1>11. CASE \E h \in Handlers, u \in Members : OptOut(h, u) \/ Join(h, u) \/ BeginLeave(h, u) \/ Scan(h, u) \/ BeginErase(h, u)
  BY <1>2, <1>11 DEF OptOut, Join, BeginLeave, Scan, BeginErase
<1>12. CASE \E h \in Handlers : CommitJoin(h) \/ CommitLeave(h) \/ CommitErase(h) \/ Fail(h)
  BY <1>2, <1>3, <1>4, <1>12 DEF CommitJoin, CommitLeave, Fail
<1>13. CASE \E h \in Handlers, what \in Sources : Read(h, what)
  BY <1>2, <1>13 DEF Read
<1>14. CASE \E h \in Handlers, v \in Members, p \in Proposals : Propose(h, v, p)
  BY <1>6, <1>14
<1>15. CASE \E h \in Handlers, u \in Members, p \in Proposals, d \in {"DECLINE", "BLOCK"} : Refuse(h, u, p, d)
  BY <1>3, <1>15 DEF Refuse
<1> QED BY <1>7, <1>8, <1>9, <1>10, <1>11, <1>12, <1>13, <1>14, <1>15 DEF Next

-----------------------------------------------------------------------------
\* A proposal that commits introduces two members who are free and not kept apart,
\* although it read the refusals before.
LEMMA ProposeIntroduces ==
  ASSUME IntroInv, NEW h \in Handlers, NEW v \in Members, NEW p \in Proposals, Propose(h, v, p)
  PROVE  Intro!Next
<1>1. PICK u : u = job[h].user
  OBVIOUS
<1>2. TypeOK /\ CandidatesWait /\ job[h].pc = "scanned" /\ v \in job[h].candidates
  BY DEF Propose, At, IntroInv, RefusalInv, MatchInv
<1>3. u \in Members /\ {u, v} \in Pairs
  BY <1>1, <1>2, MatchingAssumption DEF CandidatesWait
<1>4. u # v
  BY <1>3, PairsDiffer
<1>5. proposal' = [proposal EXCEPT ![p] = [status |-> "PENDING", pair |-> {u, v}, accepts |-> {}]]
  BY <1>1 DEF Propose
<1>6. proposal'[p].pair = {u, v}
  BY <1>2, <1>5 DEF TypeOK
<1>7. {u, v} \notin declined /\ <<u, v>> \notin blocked /\ <<v, u>> \notin blocked
  <2>1. \A x, y \in proposal'[p].pair : x # y => {x, y} \notin declined /\ <<x, y>> \notin blocked
    BY ProposeAfterNoRefusal DEF IntroInv
  <2> QED BY <1>4, <1>6, <2>1
<1>8. {u, v} \notin KeptApart
  <2> SUFFICES ASSUME NEW b \in blocked, {u, v} = {b[1], b[2]} PROVE FALSE
    BY <1>7 DEF KeptApart
  <2>1. b = <<b[1], b[2]>>
    BY <1>2 DEF TypeOK
  <2>2. (b[1] = u /\ b[2] = v) \/ (b[1] = v /\ b[2] = u)
    BY <1>4
  <2> QED BY <1>7, <2>1, <2>2
<1>9. ~Intro!Busy(u) /\ ~Intro!Busy(v)
  <2>1. Open(u) = {} /\ Open(v) = {}
    BY <1>1 DEF Propose, Free
  <2> QED BY <2>1 DEF Open, Intro!Busy
<1>10. proposal[p] = Intro!Closed /\ UNCHANGED KeptApart
  BY DEF Propose, Closed, Intro!Closed, KeptApart
<1>11. Intro!Introduce(p, u, v)
  BY <1>4, <1>5, <1>8, <1>9, <1>10 DEF Intro!Introduce
<1> QED BY <1>3, <1>11 DEF Intro!Next

\* The second of two acceptances, counted in the transaction, is the one that
\* completes the pair, unless the pair has lost a member.
LEMMA AcceptConcludes ==
  ASSUME IntroInv, NEW u \in Members, NEW p \in Proposals, Accept(u, p)
  PROVE  Intro!Next
<1>1. PICK pair, accepts : pair = proposal[p].pair /\ accepts = proposal[p].accepts \cup {u}
  OBVIOUS
<1>2. /\ proposal[p].status = "PENDING" /\ u \in pair \ proposal[p].accepts
      /\ proposal[p].accepts \subseteq pair
  BY <1>1 DEF Accept, Undecided, Open, IntroInv, RefusalInv, MatchInv, TypeOK
<1>3. PICK a, b : pair \subseteq {a, b}
  BY <1>1 DEF IntroInv, RefusalInv, MatchInv, RowsAreOfTwo
<1>s. accepts \subseteq pair
  BY <1>1, <1>2
<1>4. Agreed(p, accepts) <=> accepts = pair /\ pair # {u}
  <2>1. ASSUME Cardinality(accepts) = 2 PROVE accepts = pair /\ pair # {u}
    <3>1. accepts = pair
      BY <1>s, <1>3, <2>1, TwoOfTwo
    <3>2. Cardinality({u}) = 1
      BY FS_Singleton
    <3> QED BY <2>1, <3>1, <3>2
  <2>2. ASSUME accepts = pair, pair # {u} PROVE Cardinality(accepts) = 2
    <3>1. PICK w \in pair : w # u
      BY <1>2, <2>2
    <3>2. pair = {u} \cup {w} /\ w \notin {u}
      BY <1>2, <1>3, <3>1
    <3>3. IsFiniteSet({u}) /\ Cardinality({u}) = 1
      BY FS_Singleton
    <3>4. Cardinality({u} \cup {w}) = Cardinality({u}) + 1
      BY <3>2, <3>3, FS_AddElement
    <3> QED BY <2>2, <3>2, <3>3, <3>4
  <2> QED BY <2>1, <2>2 DEF Agreed
<1>5. proposal' = [proposal EXCEPT ![p] =
        [status |-> IF accepts = pair /\ pair # {u} THEN "ACCEPTED" ELSE "PENDING", pair |-> pair, accepts |-> accepts]]
  BY <1>1, <1>4 DEF Accept
<1>6. UNCHANGED KeptApart
  BY DEF Accept, KeptApart
<1>7. Intro!Accept(p, u)
  BY <1>1, <1>2, <1>5, <1>6 DEF Intro!Accept
<1> QED BY <1>7 DEF Intro!Next

\* A refusal closes the proposal and keeps its members apart.
LEMMA RefuseKeepsApart ==
  ASSUME IntroInv, NEW h \in Handlers, NEW u \in Members, NEW p \in Proposals,
         NEW d \in {"DECLINE", "BLOCK"}, Refuse(h, u, p, d)
  PROVE  Intro!Next
<1> DEFINE others == proposal[p].pair \ {u}
<1>1. TypeOK /\ proposal[p].status = "PENDING" /\ u \in proposal[p].pair \ proposal[p].accepts
  BY DEF Refuse, Undecided, Open, IntroInv, RefusalInv, MatchInv
<1>2. proposal' = [proposal EXCEPT ![p] = Closed]
  <2>1. proposal' = Cancelled({p})
    BY DEF Refuse
  <2> QED BY <1>1, <2>1 DEF Cancelled, TypeOK
<1>3. declined' = declined \cup {{u, v} : v \in others}
  BY DEF Refuse
<1>4. blocked' = blocked \/ blocked' = blocked \cup {<<u, v>> : v \in others}
  BY DEF Refuse
<1> HIDE DEF others
<1>5. KeptApart' = KeptApart \cup {{u, v} : v \in others}
  <2>1. CASE blocked' = blocked
    BY <1>3, <2>1 DEF KeptApart
  <2>2. CASE blocked' = blocked \cup {<<u, v>> : v \in others}
    <3>1. {{b[1], b[2]} : b \in {<<u, v>> : v \in others}} = {{u, v} : v \in others}
      <4>1. \A v \in others : {<<u, v>>[1], <<u, v>>[2]} = {u, v}
        OBVIOUS
      <4>2. {{b[1], b[2]} : b \in {<<u, v>> : v \in others}} = {{<<u, v>>[1], <<u, v>>[2]} : v \in others}
        OBVIOUS
      <4> QED BY <4>1, <4>2
    <3>2. {{b[1], b[2]} : b \in blocked'} = {{b[1], b[2]} : b \in blocked} \cup {{b[1], b[2]} : b \in {<<u, v>> : v \in others}}
      BY <2>2
    <3> QED BY <1>3, <3>1, <3>2 DEF KeptApart
  <2> QED BY <1>4, <2>1, <2>2
<1>6. Intro!Refuse(p, u)
  BY <1>1, <1>2, <1>5 DEF Intro!Refuse, Intro!Closed, Closed, others
<1> QED BY <1>6 DEF Intro!Next

\* A leaving closes what it read, which another transaction may have closed before.
LEMMA LeaveCloses ==
  ASSUME IntroInv, NEW h \in Handlers, CommitLeave(h)
  PROVE  Intro!Next \/ UNCHANGED <<proposal, KeptApart>>
<1>1. PICK q : q = job[h].target
  OBVIOUS
<1>2. TypeOK /\ q \in Proposals \cup {None}
  BY <1>1 DEF IntroInv, RefusalInv, MatchInv, TypeOK, Jobs
<1>3. proposal' = Cancelled({q} \ {None}) /\ UNCHANGED KeptApart
  BY <1>1 DEF CommitLeave, KeptApart
<1>4. CASE q = None
  BY <1>2, <1>3, <1>4, CancelledOne
<1>5. CASE q \in Proposals
  <2>1. proposal' = [proposal EXCEPT ![q] = Closed]
    BY <1>2, <1>3, <1>5, CancelledOne
  <2>2. CASE proposal[q].status = "CLOSED"
    <3>1. proposal[q] = Closed
      BY <1>5, <2>2 DEF IntroInv, ClosedHoldNobody
    <3>2. proposal' = proposal
      BY <1>2, <1>5, <2>1, <3>1 DEF TypeOK
    <3> QED BY <1>3, <3>2
  <2>3. CASE proposal[q].status # "CLOSED"
    <3>1. proposal[q].status \in {"PENDING", "ACCEPTED"}
      BY <1>2, <1>5, <2>3 DEF TypeOK, Rows
    <3>2. Intro!Close(q)
      BY <1>3, <2>1, <3>1 DEF Intro!Close, Intro!Closed, Closed
    <3> QED BY <1>5, <3>2 DEF Intro!Next
  <2> QED BY <2>2, <2>3
<1> QED BY <1>2, <1>4, <1>5

\* A deletion that commits takes its member out of every introduction and refusal.
LEMMA EraseForgets ==
  ASSUME IntroInv, NEW h \in Handlers, CommitErase(h)
  PROVE  Intro!Next
<1>1. PICK u, q : u = job[h].user /\ q = job[h].target
  OBVIOUS
<1>2. TypeOK /\ q \in Proposals \cup {None}
  BY <1>1 DEF IntroInv, RefusalInv, MatchInv, TypeOK, Jobs
<1>3. u \in Members
  BY <1>1 DEF IntroInv, RefusalInv, MatchInv, TargetsAreKnown, Gives, CommitErase, At
<1>4. PICK open : open = Cancelled({q} \ {None})
  OBVIOUS
<1>5. open \in {proposal} \cup {[proposal EXCEPT ![p] = Intro!Closed] : p \in Proposals}
  BY <1>2, <1>4, CancelledOne DEF Closed, Intro!Closed
<1>6. proposal' = [p \in Proposals |-> [open[p] EXCEPT !.pair = @ \ {u}, !.accepts = @ \ {u}]]
  BY <1>1, <1>4 DEF CommitErase, Without
<1>7. KeptApart' = {pair \in KeptApart : u \notin pair}
  <2>1. blocked' = {b \in blocked : u \notin {b[1], b[2]}} /\ declined' = {d \in declined : u \notin d}
    BY <1>1 DEF CommitErase
  <2>2. ASSUME NEW pair PROVE pair \in KeptApart' <=> pair \in KeptApart /\ u \notin pair
    BY <2>1 DEF KeptApart
  <2> QED BY <2>2
<1>8. Intro!Forget(u)
  BY <1>5, <1>6, <1>7 DEF Intro!Forget
<1> QED BY <1>3, <1>8 DEF Intro!Next

\* Every step is one of an introduction, or is not seen.
LEMMA StepIntroduces == IntroInv /\ [Next]_vars => [Intro!Next]_Intro!introVars
<1> SUFFICES ASSUME IntroInv, [Next]_vars PROVE Intro!Next \/ UNCHANGED <<proposal, KeptApart>>
  BY DEF Intro!introVars
<1>1. TypeOK
  BY DEF IntroInv, RefusalInv, MatchInv
<1>2. ASSUME UNCHANGED seen PROVE UNCHANGED <<proposal, KeptApart>>
  BY <1>2 DEF seen, KeptApart
<1>3. ASSUME NEW p \in Proposals, ExpireProposal(p) PROVE Intro!Next
  <2>1. proposal' = Cancelled({p}) /\ proposal[p].status = "PENDING" /\ UNCHANGED KeptApart
    BY <1>3 DEF ExpireProposal, KeptApart
  <2>2. proposal' = [proposal EXCEPT ![p] = Intro!Closed]
    BY <1>1, <2>1 DEF Cancelled, TypeOK, Closed, Intro!Closed
  <2>3. Intro!Close(p)
    BY <2>1, <2>2 DEF Intro!Close
  <2> QED BY <2>3 DEF Intro!Next
<1>4. ASSUME UNCHANGED proposal, declined' \subseteq declined, blocked' \subseteq blocked PROVE Intro!Next
  BY <1>4 DEF KeptApart, Intro!Relent, Intro!Next
<1>7. CASE UNCHANGED vars
  BY <1>2, <1>7 DEF vars, seen
<1>8. CASE \E u \in Members : OptIn(u) \/ ExpireEntry(u)
  BY <1>2, <1>8 DEF OptIn, ExpireEntry, seen
<1>9. CASE \E p \in Proposals : ExpireProposal(p) \/ (\E u \in Members : Accept(u, p))
  BY <1>3, <1>9, AcceptConcludes
<1>10. CASE (\E pair \in declined : CooldownEnds(pair)) \/ \E u, v \in Members : Unblock(u, v)
  BY <1>4, <1>10 DEF CooldownEnds, Unblock
<1>11. CASE \E h \in Handlers, u \in Members : OptOut(h, u) \/ Join(h, u) \/ BeginLeave(h, u) \/ Scan(h, u) \/ BeginErase(h, u)
  BY <1>2, <1>11 DEF OptOut, Join, BeginLeave, Scan, BeginErase, seen
<1>12. CASE \E h \in Handlers : CommitJoin(h) \/ CommitLeave(h) \/ CommitErase(h) \/ Fail(h)
  <2>1. ASSUME NEW h \in Handlers, CommitJoin(h) \/ Fail(h) PROVE UNCHANGED seen
    BY <2>1 DEF CommitJoin, Fail, seen
  <2> QED BY <1>2, <1>12, <2>1, LeaveCloses, EraseForgets
<1>13. CASE \E h \in Handlers, what \in Sources : Read(h, what)
  BY <1>2, <1>13 DEF Read, seen
<1>14. CASE \E h \in Handlers, v \in Members, p \in Proposals : Propose(h, v, p)
  BY <1>14, ProposeIntroduces
<1>15. CASE \E h \in Handlers, u \in Members, p \in Proposals, d \in {"DECLINE", "BLOCK"} : Refuse(h, u, p, d)
  BY <1>15, RefuseKeepsApart
<1> QED BY <1>7, <1>8, <1>9, <1>10, <1>11, <1>12, <1>13, <1>14, <1>15 DEF Next

\* The queue with its handlers implements Introductions, for any members, handlers and
\* rows: what a handler read before its transaction never makes an introduction that
\* could not be made when it commits. The assumption is that of ProposedAfterNoRefusal.
THEOREM MatchingIntroduces == ASSUME OneOvertaken PROVE Spec => ImplementsIntroductions
<1>1. Init => IntroInv /\ Intro!Init
  <2> SUFFICES ASSUME Init PROVE IntroInv /\ Intro!Init
    OBVIOUS
  <2>1. RefusalInv
    BY RefusalInit
  <2>2. ClosedHoldNobody
    BY DEF Init, ClosedHoldNobody
  <2>3. Intro!Init
    BY DEF Init, Intro!Init, KeptApart, Closed, Intro!Closed
  <2> QED BY <2>1, <2>2, <2>3 DEF IntroInv
<1>2. IntroInv /\ [Next]_vars => IntroInv'
  BY RefusalNext, ClosedNext DEF IntroInv
<1> QED BY <1>1, <1>2, StepIntroduces, PTL DEF Spec, ImplementsIntroductions, Intro!Spec
=============================================================================
