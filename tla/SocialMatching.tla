--------------------------- MODULE SocialMatching ---------------------------
(***************************************************************************)
(* Voluntary matchmaking (social-matchmaking.service.ts): members who opted   *)
(* in join a queue, are proposed to one another in pairs, and decide.         *)
(*                                                                           *)
(* join, decide and the creation of a proposal are serializable transactions  *)
(* and one action each. leave and the account's deletion run at read          *)
(* committed: what they read and what they write are two actions.             *)
(***************************************************************************)
EXTENDS Naturals, FiniteSets

CONSTANTS
  Members,
  Proposals,     \* places for the SocialMatchProposal rows that still count
  Handlers,      \* requests and maintenance ticks in flight
  Compatible,    \* the pairs whose criteria agree
  Fickle,        \* a bound: the members who opt out, leave, refuse or delete their account
  Overtaken,     \* the handlers whose leaving may be overtaken by another transaction
  None

Pairs == {{u, v} : u, v \in Members} \ {{u} : u \in Members}

ASSUME MatchingAssumption ==
  /\ Compatible \subseteq Pairs
  /\ Fickle \subseteq Members /\ Overtaken \subseteq Handlers
  /\ None \notin Members \cup Proposals

VARIABLES
  willing,     \* members who opted in
  gone,        \* members whose account was deleted
  entry,       \* the status of each member's queue entry
  proposal,    \* the open and the accepted proposals
  blocked,     \* SocialMatchBlock rows, <<blocker, blocked>>
  declined,    \* pairs in the cooldown that follows a refusal
  job          \* what each handler is doing and has read

vars == <<willing, gone, entry, proposal, blocked, declined, job>>

\* No row, or one that is DECLINED, BLOCKED, CANCELLED or EXPIRED: nothing is read
\* of it any more, though a handler may still hold its identifier.
Closed == [status |-> "CLOSED", pair |-> {}, accepts |-> {}]
Idle == [pc |-> "idle", user |-> None, partner |-> None, target |-> None, entered |-> FALSE,
         candidates |-> {}, unread |-> {}]

Init ==
  /\ willing = {} /\ gone = {}
  /\ entry = [u \in Members |-> "NONE"]
  /\ proposal = [p \in Proposals |-> Closed]
  /\ blocked = {} /\ declined = {}
  /\ job = [h \in Handlers |-> Idle]

At(h, pc) == job[h].pc = pc
Open(u) == {p \in Proposals : proposal[p].status = "PENDING" /\ u \in proposal[p].pair}

\* A matching with nobody left to propose ends, whatever it still does.
Among(r, us) == IF us = {} THEN Idle ELSE [r EXCEPT !.candidates = us]

\* (as if the versions of the entries were not compared)
StaleIgnored(r, us) == r

\* What becomes of a matching whose entries of us got a new version: the
\* transaction that proposes refuses them.
Stale(r, us) ==
  IF r.pc # "scanned" THEN r ELSE Among(r, IF r.user \in us THEN {} ELSE r.candidates \ us)

\* Handler h goes on with r, and the entries of us get a new version.
Proceed(h, r, us) == job' = [g \in Handlers |-> IF g = h THEN r ELSE Stale(job[g], us)]
Touch(us) == job' = [g \in Handlers |-> Stale(job[g], us)]

\* requeuePartner, for a member whose entry is MATCHED and may have run late.
Requeued(u, late) == IF u \in willing \ late THEN "QUEUED" ELSE "LEFT"

\* (as if nobody were put back in the queue when a proposal closes)
MatchedIgnored(us) == {}

Matched(us) == {u \in us : entry[u] = "MATCHED"}

\* The entries, once the members of left have left the queue and those of back
\* have been given back to it.
Moved(left, back, late) ==
  [u \in Members |-> IF u \in left THEN "LEFT" ELSE IF u \in back THEN Requeued(u, late) ELSE entry[u]]

-----------------------------------------------------------------------------
\* Fourteen days after a refusal.
CooldownEnds(pair) ==
  /\ pair \in declined
  /\ declined' = declined \ {pair}
  /\ UNCHANGED <<willing, gone, entry, proposal, blocked, job>>

-----------------------------------------------------------------------------
(* Opting in, joining and leaving.                                            *)
OptIn(u) ==
  /\ u \notin gone \cup willing
  /\ willing' = willing \cup {u}
  /\ UNCHANGED <<gone, entry, proposal, blocked, declined, job>>

\* updatePreference, which goes on with leave.
OptOut(h, u) ==
  /\ At(h, "idle") /\ u \in willing \cap Fickle
  /\ willing' = willing \ {u}
  /\ Proceed(h, [Idle EXCEPT !.pc = "leave", !.user = u], {})
  /\ UNCHANGED <<gone, entry, proposal, blocked, declined>>

Join(h, u) ==
  /\ At(h, "idle") /\ u \in willing
  /\ Proceed(h, [Idle EXCEPT !.pc = "join", !.user = u], {})
  /\ UNCHANGED <<willing, gone, entry, proposal, blocked, declined>>

CommitJoin(h) ==
  /\ At(h, "join")
  /\ LET u == job[h].user IN
       IF Open(u) # {} THEN Proceed(h, Idle, {}) /\ entry' = entry
       ELSE /\ entry' = [entry EXCEPT ![u] = "QUEUED"]
            /\ Proceed(h, [Idle EXCEPT !.pc = "match", !.user = u], {u})
  /\ UNCHANGED <<willing, gone, proposal, blocked, declined>>

\* A request to leave, or the end of updatePreference: the reads.
BeginLeave(h, u) ==
  /\ (At(h, "idle") /\ u \in Fickle \ gone) \/ (At(h, "leave") /\ job[h].user = u)
  /\ LET r == [Idle EXCEPT !.pc = "leaving", !.user = u, !.entered = entry[u] \in {"QUEUED", "MATCHED"}]
     IN IF Open(u) = {} THEN Proceed(h, r, {})
        ELSE \E p \in Open(u) : \E v \in (proposal[p].pair \ {u}) \cup {None} :
               /\ v = None => proposal[p].pair = {u}
               /\ Proceed(h, [r EXCEPT !.target = p, !.partner = v], {})
  /\ UNCHANGED <<willing, gone, entry, proposal, blocked, declined>>

\* A row once an account is deleted.
Without(row, u) == [row EXCEPT !.pair = @ \ {u}, !.accepts = @ \ {u}]

Cancelled(ps) == [p \in Proposals |-> IF p \in ps THEN Closed ELSE proposal[p]]

\* The writes find the proposal by its identifier alone, though it may have been
\* closed or accepted since it was read.
Unchecked(h) ==
  h \notin Overtaken /\ job[h].target # None => proposal[job[h].target].status = "PENDING"

CommitLeave(h) ==
  /\ At(h, "leaving") /\ Unchecked(h)
  /\ job[h].entered => entry[job[h].user] # "NONE"
  /\ LET left == IF job[h].entered THEN {job[h].user} ELSE {}
         back == Matched({job[h].partner} \ {None})
     IN /\ \E late \in SUBSET back : entry' = Moved(left, back, late)
        /\ proposal' = Cancelled({job[h].target} \ {None})
        /\ Proceed(h, IF job[h].partner = None THEN Idle ELSE [Idle EXCEPT !.pc = "match", !.user = job[h].partner],
                   left \cup back)
  /\ UNCHANGED <<willing, gone, blocked, declined>>

-----------------------------------------------------------------------------
(* matchForUser: after a join, a leave or a refusal, and by the timer.        *)
Waiting(u) == entry[u] = "QUEUED"

Sources == {"blocks", "declines", "pending"}

Scan(h, u) ==
  /\ At(h, "idle") \/ (At(h, "match") /\ job[h].user = u)
  /\ Waiting(u)
  /\ LET others == {v \in Members : Waiting(v) /\ {u, v} \in Compatible} IN
       /\ others # {}
       /\ Proceed(h, [Idle EXCEPT !.pc = "scanned", !.user = u, !.candidates = others, !.unread = Sources], {})
  /\ UNCHANGED <<willing, gone, entry, proposal, blocked, declined>>

\* The reads of Promise.all, in any order: who is not available.
Read(h, what) ==
  /\ At(h, "scanned") /\ what \in job[h].unread
  /\ LET u == job[h].user
         out == CASE what = "pending" -> {v \in Members : Open(v) # {}}
                  [] what = "declines" -> {v \in Members : {u, v} \in declined}
                  [] what = "blocks" -> {v \in Members : <<u, v>> \in blocked \/ <<v, u>> \in blocked}
     IN Proceed(h, Among([job[h] EXCEPT !.unread = @ \ {what}], job[h].candidates \ out), {})
  /\ UNCHANGED <<willing, gone, entry, proposal, blocked, declined>>

\* (as if the transaction trusted what was read before it)
FreeUnread(u, v) == {u, v} \subseteq Members

\* What the transaction verifies, besides the versions.
Free(u, v) == entry[u] = "QUEUED" /\ entry[v] = "QUEUED" /\ Open(u) \cup Open(v) = {}

\* The best candidate is proposed; the scores are not modelled, so it may be any.
Propose(h, v, p) ==
  /\ At(h, "scanned") /\ job[h].unread = {}
  /\ v \in job[h].candidates
  /\ LET u == job[h].user IN
       /\ Free(u, v)
       /\ proposal[p] = Closed /\ \A g \in Handlers : job[g].target # p
       /\ proposal' = [proposal EXCEPT ![p] = [status |-> "PENDING", pair |-> {u, v}, accepts |-> {}]]
       /\ entry' = [w \in Members |-> IF w \in {u, v} THEN "MATCHED" ELSE entry[w]]
       /\ Proceed(h, Idle, {u, v})
  /\ UNCHANGED <<willing, gone, blocked, declined>>

-----------------------------------------------------------------------------
(* The decisions of the members.                                              *)
Undecided(u, p) == p \in Open(u) /\ u \notin proposal[p].accepts

\* (as if it took the acceptances of those whom the proposal still has)
AgreedByThoseLeft(p, accepts) == accepts = proposal[p].pair

\* Two acceptances are persisted.
Agreed(p, accepts) == Cardinality(accepts) = 2

Accept(u, p) ==
  /\ Undecided(u, p)
  /\ LET accepts == proposal[p].accepts \cup {u} IN
       proposal' = [proposal EXCEPT ![p] = [status |-> IF Agreed(p, accepts) THEN "ACCEPTED" ELSE "PENDING",
                                            pair |-> proposal[p].pair, accepts |-> accepts]]
  /\ UNCHANGED <<willing, gone, entry, blocked, declined, job>>

\* DECLINE and BLOCK: the proposal is closed, its author leaves the queue, the
\* other goes back to it.
Refuse(h, u, p, decision) ==
  /\ At(h, "idle") /\ u \in Fickle /\ Undecided(u, p)
  /\ proposal' = Cancelled({p})
  /\ LET others == proposal[p].pair \ {u}
         left == Matched({u})
         back == Matched(others)
     IN /\ \E late \in SUBSET back : entry' = Moved(left, back, late)
        /\ declined' = declined \cup {{u, v} : v \in others}
        /\ blocked' = IF decision = "BLOCK" THEN blocked \cup {<<u, v>> : v \in others} ELSE blocked
        /\ \/ others = {} /\ Proceed(h, Idle, left \cup back)
           \/ \E v \in others : Proceed(h, [Idle EXCEPT !.pc = "match", !.user = v], left \cup back)
  /\ UNCHANGED <<willing, gone>>

Unblock(u, v) ==
  /\ <<u, v>> \in blocked
  /\ blocked' = blocked \ {<<u, v>>}
  /\ UNCHANGED <<willing, gone, entry, proposal, declined, job>>

-----------------------------------------------------------------------------
(* Maintenance, and the expiry that a read of the status makes.               *)
ExpireEntry(u) ==
  /\ entry[u] = "QUEUED"
  /\ entry' = [entry EXCEPT ![u] = "LEFT"]
  /\ Touch({u})
  /\ UNCHANGED <<willing, gone, proposal, blocked, declined>>

ExpireProposal(p) ==
  /\ proposal[p].status = "PENDING"
  /\ proposal' = Cancelled({p})
  /\ LET back == Matched(proposal[p].pair) IN
       /\ \E late \in SUBSET back : entry' = Moved({}, back, late)
       /\ Touch(back)
  /\ UNCHANGED <<willing, gone, blocked, declined>>

-----------------------------------------------------------------------------
(* deleteForAccount, in the transaction that deletes the account.             *)
BeginErase(h, u) ==
  /\ At(h, "idle") /\ u \in Fickle \ gone
  /\ LET r == [Idle EXCEPT !.pc = "erasing", !.user = u]
     IN IF Open(u) = {} THEN Proceed(h, r, {})
        ELSE \E p \in Open(u) : \E v \in (proposal[p].pair \ {u}) \cup {None} :
               /\ v = None => proposal[p].pair = {u}
               /\ Proceed(h, [r EXCEPT !.target = p, !.partner = v], {})
  /\ UNCHANGED <<willing, gone, entry, proposal, blocked, declined>>

CommitErase(h) ==
  /\ At(h, "erasing") /\ Unchecked(h)
  /\ LET u == job[h].user
         back == Matched({job[h].partner} \ {None})
         cancelled == Cancelled({job[h].target} \ {None})
     IN /\ \E late \in SUBSET back : entry' = [Moved({}, back, late) EXCEPT ![u] = "NONE"]
        /\ proposal' = [p \in Proposals |-> Without(cancelled[p], u)]
        /\ blocked' = {b \in blocked : u \notin {b[1], b[2]}}
        /\ declined' = {d \in declined : u \notin d}
        /\ willing' = willing \ {u} /\ gone' = gone \cup {u}
        /\ Proceed(h, Idle, {u} \cup back)

\* The process stops, a transaction is refused, or there is nothing to do.
Fail(h) ==
  /\ ~At(h, "idle")
  /\ Proceed(h, Idle, {})
  /\ UNCHANGED <<willing, gone, entry, proposal, blocked, declined>>

-----------------------------------------------------------------------------
Next ==
  \/ \E u \in Members : OptIn(u) \/ ExpireEntry(u)
  \/ \E p \in Proposals : ExpireProposal(p) \/ (\E u \in Members : Accept(u, p))
  \/ \E pair \in declined : CooldownEnds(pair)
  \/ \E u, v \in Members : Unblock(u, v)
  \/ \E h \in Handlers :
       \/ \E u \in Members : OptOut(h, u) \/ Join(h, u) \/ BeginLeave(h, u) \/ Scan(h, u) \/ BeginErase(h, u)
       \/ CommitJoin(h) \/ CommitLeave(h) \/ CommitErase(h) \/ Fail(h)
       \/ \E what \in Sources : Read(h, what)
       \/ \E v \in Members, p \in Proposals : Propose(h, v, p)
       \/ \E u \in Members, p \in Proposals, d \in {"DECLINE", "BLOCK"} : Refuse(h, u, p, d)

Spec == Init /\ [][Next]_vars

-----------------------------------------------------------------------------
Entries == {"NONE", "QUEUED", "MATCHED", "LEFT"}
Rows == [status : {"PENDING", "ACCEPTED", "CLOSED"}, pair : SUBSET Members, accepts : SUBSET Members]
Jobs == [pc : {"idle", "join", "leave", "leaving", "match", "scanned", "erasing"},
         user : Members \cup {None}, partner : Members \cup {None}, target : Proposals \cup {None}, entered : BOOLEAN,
         candidates : SUBSET Members, unread : SUBSET Sources]
TypeOK ==
  /\ willing \subseteq Members /\ gone \subseteq Members
  /\ entry \in [Members -> Entries]
  /\ proposal \in [Proposals -> Rows]
  /\ \A p \in Proposals : proposal[p].accepts \subseteq proposal[p].pair
  /\ blocked \subseteq Members \X Members /\ declined \subseteq Pairs
  /\ job \in [Handlers -> Jobs]

\* Nobody has two open proposals, whoever is matched by whom at the same time.
OneProposalEach == \A u \in Members : \A p, q \in Open(u) : p = q

\* A member who is out of the queue because of a proposal has one, open or accepted.
MatchedIsProposed ==
  \A u \in Members : entry[u] = "MATCHED" =>
    \E p \in Proposals : u \in proposal[p].pair /\ proposal[p].status \in {"PENDING", "ACCEPTED"}

\* A connection is accepted by both, or by the one who is left.
AcceptedByBoth ==
  \A p \in Proposals : proposal[p].status = "ACCEPTED" => proposal[p].accepts = proposal[p].pair

\* Nobody is proposed again to someone who refused or blocked them, although the
\* refusals are read outside the transaction.
NotAfterRefusal ==
  [][\A p \in Proposals : proposal[p] = Closed /\ proposal'[p].status = "PENDING" =>
       \A u, v \in proposal'[p].pair : u # v => {u, v} \notin declined /\ <<u, v>> \notin blocked]_vars

\* Pairs that a refusal or a block keeps apart.
KeptApart == declined \cup {{b[1], b[2]} : b \in blocked}
Intro == INSTANCE Introductions WITH Places <- Proposals, apart <- KeptApart

\* The queue, its racing transactions and their stale reads introduce members to one
\* another only as Introductions promises.
ImplementsIntroductions == Intro!Spec
=============================================================================
