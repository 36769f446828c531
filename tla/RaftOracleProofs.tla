-------------------------- MODULE RaftOracleProofs --------------------------
(***************************************************************************)
(* The cluster without terms on the wire, for any number of servers, any   *)
(* loss, delay and repetition of datagrams and any number of power cycles. *)
(* First the votes, which nothing about the contents of the logs is needed *)
(* for; then the logs: entries keep their place, committed entries stay,   *)
(* and every index and every datagram is in range.                         *)
(***************************************************************************)
EXTENDS RaftOracle, FiniteSetTheorems, SequenceTheorems, TLAPS

-----------------------------------------------------------------------------
(* Majorities and datagrams *)

\* A larger set of servers is a majority as well.
LEMMA MajorityGrows ==
    ASSUME NEW S \in SUBSET Servers, NEW T \in SUBSET S, Majority(T)
    PROVE  Majority(S)
<1>1. IsFiniteSet(Servers) BY ClusterConstants
<1>2. IsFiniteSet(S) BY <1>1, FS_Subset
<1>3. IsFiniteSet(T) /\ Cardinality(T) <= Cardinality(S) BY <1>2, FS_Subset
<1>4. Cardinality(S) \in Nat /\ Cardinality(T) \in Nat /\ Cardinality(Servers) \in Nat
  BY <1>1, <1>2, <1>3, FS_CardinalityType
<1> QED BY <1>3, <1>4 DEF Majority

\* Only what is sent comes into flight.
LEMMA SendAdds ==
    ASSUME NEW A, Send(A), NEW m \in msgs'
    PROVE  m \in msgs \/ m \in A
BY DEF Send, Taken

\* The same of an answer.
LEMMA InFlightAdds ==
    ASSUME NEW d, NEW A, InFlight(d, A), NEW m \in msgs'
    PROVE  m \in msgs \/ m \in A
<1>1. msgs' = (msgs \ {d}) \union Taken(A) \/ msgs' = msgs \union Taken(A)
  BY DEF InFlight
<1> QED BY <1>1 DEF Taken

-----------------------------------------------------------------------------
(* What the steps do to votes *)

\* The part of the state that elections are about.
VoteState ==
    /\ up \in [Servers -> BOOLEAN]
    /\ boot \in [Servers -> Nat]
    /\ role \in [Servers -> {"follower", "candidate", "leader"}]
    /\ voted \in [Servers -> Servers \union {NoOne}]
    /\ votes \in [Servers -> SUBSET Servers]
    /\ \A m \in msgs : m.src \in Servers /\ m.dst \in Servers
    /\ \A g \in grants : g.voter \in Servers /\ g.candidate \in Servers /\ g.boot \in Nat

\* A step that grants and counts no vote: it makes no leader and frees the
\* vote of a server only by a power cycle.
Quiet ==
    /\ grants' = grants
    /\ \A m \in msgs' : m \in msgs \/ (m.type # "VoteResponse" /\ m.src \in Servers
                                                              /\ m.dst \in Servers)
    /\ \A s \in Servers :
          /\ votes'[s] \subseteq votes[s]
          /\ role'[s] = "leader" => role[s] = "leader"
          /\ up'[s] /\ boot'[s] = boot[s] => up[s]
          /\ \/ boot'[s] = boot[s] /\ (voted'[s] = NoOne => voted[s] = NoOne)
             \/ boot'[s] = boot[s] + 1

\* VoteState without the datagrams and the grants.
ServerState ==
    /\ up \in [Servers -> BOOLEAN]
    /\ boot \in [Servers -> Nat]
    /\ role \in [Servers -> {"follower", "candidate", "leader"}]
    /\ voted \in [Servers -> Servers \union {NoOne}]
    /\ votes \in [Servers -> SUBSET Servers]

\* An append or a vote request is sent from and to members.
LEMMA SentByMembers ==
    ASSUME NEW s \in Servers, NEW p \in Servers, NEW lg, NEW nx, NEW ci
    PROVE  /\ cb_send_appendentries(s, p, lg, nx, ci).type # "VoteResponse"
           /\ cb_send_appendentries(s, p, lg, nx, ci).src \in Servers
           /\ cb_send_appendentries(s, p, lg, nx, ci).dst \in Servers
           /\ cb_send_requestvote(s, p).type # "VoteResponse"
           /\ cb_send_requestvote(s, p).src \in Servers
           /\ cb_send_requestvote(s, p).dst \in Servers
<1>1. cb_send_appendentries(s, p, lg, nx, ci).type = "AppendEntries" /\
      cb_send_appendentries(s, p, lg, nx, ci).src = s /\
      cb_send_appendentries(s, p, lg, nx, ci).dst = p
  BY DEF cb_send_appendentries
<1>2. cb_send_requestvote(s, p).type = "RequestVote" /\
      cb_send_requestvote(s, p).src = s /\ cb_send_requestvote(s, p).dst = p
  BY DEF cb_send_requestvote
<1> QED BY <1>1, <1>2

\* The datagrams a quiet step may add.
QuietMsgs ==
    \A m \in msgs' : m \in msgs \/ (m.type # "VoteResponse" /\ m.src \in Servers
                                                            /\ m.dst \in Servers)

\* A step that leaves the election alone is quiet.
LEMMA SameIsQuiet ==
    ASSUME ServerState, QuietMsgs, UNCHANGED <<up, boot, role, voted, votes, grants>>
    PROVE  Quiet /\ ServerState'
BY DEF ServerState, QuietMsgs, Quiet

\* A server that stops: its datagrams are lost with it.
LEMMA HaltQuiet ==
    ASSUME VoteState, NEW s \in Servers, Halt(s)
    PROVE  Quiet /\ ServerState'
<1>1. msgs' \subseteq msgs /\ up' = [up EXCEPT ![s] = FALSE] BY DEF Halt
<1>2. UNCHANGED <<boot, role, voted, votes, grants>> BY DEF Halt, voteVars, roleVars
<1>3. \A t \in Servers : up'[t] => up[t] BY <1>1 DEF VoteState
<1>4. up' \in [Servers -> BOOLEAN] BY <1>1 DEF VoteState
<1>5. Quiet BY <1>1, <1>2, <1>3 DEF VoteState, Quiet
<1>6. ServerState' BY <1>2, <1>4 DEF VoteState, ServerState
<1> QED BY <1>5, <1>6

\* A proposal sends appends only.
LEMMA ProposeQuiet ==
    ASSUME VoteState, NEW s \in Servers, NEW v \in Values, Propose(s, v)
    PROVE  Quiet /\ ServerState'
<1> DEFINE lg == Append(log[s], [term |-> term[s], value |-> v])
<1> DEFINE P == {q \in Servers \ {s} : next[s][q] = Len(lg)}
<1> DEFINE A == {cb_send_appendentries(s, p, lg, next[s][p], commit[s]) : p \in P}
<1>1. Send(A) BY DEF Propose
<1>2. UNCHANGED <<up, boot, role, voted, votes, grants>>
  BY DEF Propose, powerVars, voteVars, roleVars
<1>3. P \in SUBSET Servers OBVIOUS
<1> HIDE DEF P, lg
<1>4. \A m \in msgs' : m \in msgs \/ m \in A BY <1>1, SendAdds
<1>5. QuietMsgs BY <1>3, <1>4, SentByMembers DEF QuietMsgs
<1> QED BY <1>2, <1>5, SameIsQuiet DEF VoteState, ServerState

\* A tick without a timeout sends nothing.
LEMMA TickQuietQuiet ==
    ASSUME VoteState, NEW s \in Servers, TickQuiet(s) \/ TickWait(s)
    PROVE  Quiet /\ ServerState'
<1>1. UNCHANGED <<up, boot, role, voted, votes, grants, msgs>>
  BY DEF TickQuiet, TickWait, powerVars, voteVars, roleVars
<1>2. QuietMsgs BY <1>1 DEF QuietMsgs
<1> QED BY <1>1, <1>2, SameIsQuiet DEF VoteState, ServerState

\* A candidate starts from no votes and keeps its own.
LEMMA TickElectionQuiet ==
    ASSUME VoteState, NEW s \in Servers, TickElection(s)
    PROVE  Quiet /\ ServerState'
<1> DEFINE A == {cb_send_requestvote(s, p) : p \in Servers \ {s}}
<1>1. Send(A) BY DEF TickElection
<1>2. \A m \in msgs' : m \in msgs \/ m \in A BY <1>1, SendAdds
<1>3. QuietMsgs BY <1>2, SentByMembers DEF QuietMsgs
<1>4. /\ UNCHANGED <<up, boot, grants>>
      /\ voted' = [voted EXCEPT ![s] = s]
      /\ votes' = [votes EXCEPT ![s] = {}]
      /\ role' = [role EXCEPT ![s] = "candidate"]
  BY DEF TickElection, powerVars
<1>5. s # NoOne BY ClusterConstants
<1>6. ServerState' BY <1>4 DEF VoteState, ServerState
<1>7. \A t \in Servers : votes'[t] \subseteq votes[t] /\ (role'[t] = "leader" => role[t] = "leader")
                         /\ (voted'[t] = NoOne => voted[t] = NoOne)
  BY <1>4, <1>5 DEF VoteState
<1>8. Quiet BY <1>3, <1>4, <1>7 DEF VoteState, Quiet, QuietMsgs
<1> QED BY <1>6, <1>8

\* The tick of a leader sends appends, or stops the program.
LEMMA TickLeaderQuiet ==
    ASSUME VoteState, NEW s \in Servers, TickLeader(s)
    PROVE  Quiet /\ ServerState'
<1> DEFINE A == {cb_send_appendentries(s, p, log[s], next[s][p], commit[s]) :
                   p \in Servers \ {s}}
<1>1. CASE \A p \in Servers \ {s} : Sendable(log[s], next[s][p])
  <2>1. Send(A) BY <1>1 DEF TickLeader
  <2>2. UNCHANGED <<up, boot, role, voted, votes, grants>>
    BY <1>1 DEF TickLeader, powerVars, voteVars, roleVars
  <2>3. \A m \in msgs' : m \in msgs \/ m \in A BY <2>1, SendAdds
  <2>4. QuietMsgs BY <2>3, SentByMembers DEF QuietMsgs
  <2> QED BY <2>2, <2>4, SameIsQuiet DEF VoteState, ServerState
<1>2. CASE ~\A p \in Servers \ {s} : Sendable(log[s], next[s][p])
  BY <1>2, HaltQuiet DEF TickLeader
<1> QED BY <1>1, <1>2

\* Whoever answers an append answers with an append response.
LEMMA AnswersQuiet ==
    ASSUME VoteState, NEW m \in msgs, NEW A,
           InFlight(m, A), \A a \in A : /\ a.type # "VoteResponse"
                                        /\ a.src \in Servers /\ a.dst \in Servers
    PROVE  QuietMsgs
BY InFlightAdds DEF QuietMsgs

\* An append may make a follower of a candidate, never a leader.
LEMMA RecvAppendEntriesQuiet ==
    ASSUME VoteState, NEW m \in msgs, RecvAppendEntries(m)
    PROVE  Quiet /\ ServerState'
<1> DEFINE s == m.dst
<1>1. s \in Servers /\ m.src \in Servers BY DEF VoteState
<1>2. /\ UNCHANGED <<up, boot, voted, votes, grants>>
      /\ role' = IF role[s] = "candidate" THEN [role EXCEPT ![s] = "follower"] ELSE role
  BY DEF RecvAppendEntries, powerVars, voteVars
<1>3. \E ok \in BOOLEAN : \E i :
          InFlight(m, {[type |-> "AppendResponse", src |-> s, dst |-> m.src,
                        success |-> ok, current_idx |-> i]})
  BY DEF RecvAppendEntries, Mismatch, Fits, NoMemory
<1>4. QuietMsgs
  <2>1. PICK ok \in BOOLEAN : \E i :
          InFlight(m, {[type |-> "AppendResponse", src |-> s, dst |-> m.src,
                        success |-> ok, current_idx |-> i]})
    BY <1>3
  <2>2. PICK i :
          InFlight(m, {[type |-> "AppendResponse", src |-> s, dst |-> m.src,
                        success |-> ok, current_idx |-> i]})
    BY <2>1
  <2> QED BY <1>1, <2>2, AnswersQuiet
<1>5. ServerState' BY <1>1, <1>2 DEF VoteState, ServerState
<1>6. \A t \in Servers : role'[t] = "leader" => role[t] = "leader"
  BY <1>1, <1>2 DEF VoteState
<1>7. Quiet BY <1>2, <1>4, <1>6 DEF VoteState, Quiet, QuietMsgs
<1> QED BY <1>5, <1>7

\* A response to an append is answered with another append at most.
LEMMA RecvAppendResponseQuiet ==
    ASSUME VoteState, NEW m \in msgs, RecvAppendResponse(m)
    PROVE  Quiet /\ ServerState'
<1> DEFINE s == m.dst
<1>1. s \in Servers /\ m.src \in Servers BY DEF VoteState
<1>2. CASE Halt(s) BY <1>1, <1>2, HaltQuiet
<1>3. CASE ~Halt(s)
  <2>1. UNCHANGED <<up, boot, role, voted, votes, grants>>
    BY <1>3 DEF RecvAppendResponse, Refused, Accepted, powerVars, voteVars, roleVars
  <2>2. \/ InFlight(m, {})
        \/ \E lg, nx, ci : InFlight(m, {cb_send_appendentries(s, m.src, lg, nx, ci)})
    BY <1>3 DEF RecvAppendResponse, Refused, Accepted
  <2>3. QuietMsgs
    <3>1. CASE InFlight(m, {}) BY <3>1, AnswersQuiet
    <3>2. CASE \E lg, nx, ci : InFlight(m, {cb_send_appendentries(s, m.src, lg, nx, ci)})
      BY <1>1, <3>2, AnswersQuiet, SentByMembers
    <3> QED BY <2>2, <3>1, <3>2
  <2> QED BY <2>1, <2>3, SameIsQuiet DEF VoteState, ServerState
<1> QED BY <1>2, <1>3

\* Losing a datagram adds none.
LEMMA LoseQuiet ==
    ASSUME VoteState, NEW m \in msgs, Lose(m)
    PROVE  Quiet /\ ServerState'
<1>1. UNCHANGED <<up, boot, role, voted, votes, grants>>
  BY DEF Lose, powerVars, voteVars, roleVars
<1>2. QuietMsgs BY DEF Lose, QuietMsgs
<1> QED BY <1>1, <1>2, SameIsQuiet DEF VoteState, ServerState

\* A server that comes back knows nothing.
LEMMA PowerUpQuiet ==
    ASSUME VoteState, NEW s \in Servers, PowerUp(s)
    PROVE  Quiet /\ ServerState'
<1>1. /\ UNCHANGED <<msgs, grants>>
      /\ up' = [up EXCEPT ![s] = TRUE]
      /\ boot' = [boot EXCEPT ![s] = boot[s] + 1]
      /\ role' = [role EXCEPT ![s] = "follower"]
      /\ voted' = [voted EXCEPT ![s] = NoOne]
      /\ votes' = [votes EXCEPT ![s] = {}]
  BY DEF PowerUp
<1>2. ServerState' BY <1>1 DEF VoteState, ServerState
<1>3. ASSUME NEW t \in Servers
      PROVE  /\ votes'[t] \subseteq votes[t]
             /\ role'[t] = "leader" => role[t] = "leader"
             /\ up'[t] /\ boot'[t] = boot[t] => up[t]
             /\ \/ boot'[t] = boot[t] /\ (voted'[t] = NoOne => voted[t] = NoOne)
                \/ boot'[t] = boot[t] + 1
  <2>1. CASE t = s BY <1>1, <2>1 DEF VoteState
  <2>2. CASE t # s BY <1>1, <2>2 DEF VoteState
  <2> QED BY <2>1, <2>2
<1>4. Quiet BY <1>1, <1>3 DEF Quiet
<1> QED BY <1>2, <1>4

\* Every step is quiet, handles a vote request or handles a vote.
LEMMA StepKinds ==
    ASSUME VoteState, Next
    PROVE  \/ Quiet /\ ServerState'
           \/ \E m \in msgs : RecvRequestVote(m)
           \/ \E m \in msgs : m.type = "VoteResponse" /\ RecvVoteResponse(m)
<1>1. ASSUME NEW s \in Servers, OracleTick(s) \/ PowerLoss(s) \/ PowerUp(s)
                                \/ \E v \in Values : Propose(s, v)
      PROVE  Quiet /\ ServerState'
  BY <1>1, TickQuietQuiet, TickElectionQuiet, TickLeaderQuiet, HaltQuiet, PowerUpQuiet,
     ProposeQuiet DEF OracleTick, PowerLoss
<1>2. ASSUME NEW m \in msgs, Dispatch(m) \/ Lose(m)
      PROVE  \/ Quiet /\ ServerState'
             \/ RecvRequestVote(m)
             \/ m.type = "VoteResponse" /\ RecvVoteResponse(m)
  BY <1>2, RecvAppendEntriesQuiet, RecvAppendResponseQuiet, LoseQuiet DEF Dispatch
<1> QED BY <1>1, <1>2 DEF Next

-----------------------------------------------------------------------------
(* The two steps that move votes *)

\* A vote response that grants.
Granted(m) == m.type = "VoteResponse" /\ m.vote_granted

\* What a grant adds to the ghost.
Grant(s, m) == [voter |-> s, boot |-> boot[s], term |-> term[s], candidate |-> m.src]

\* A server grants its vote to one candidate while it has not voted, and the
\* only new datagram tells that candidate.
LEMMA RequestVoteStep ==
    ASSUME VoteState, NEW m \in msgs, RecvRequestVote(m)
    PROVE  /\ m.dst \in Servers /\ m.src \in Servers
           /\ up[m.dst] /\ UNCHANGED <<up, boot, role, votes>>
           /\ \/ /\ UNCHANGED <<grants, voted>>
                 /\ \A x \in msgs' : x \in msgs \/
                       (~Granted(x) /\ x.src \in Servers /\ x.dst \in Servers)
              \/ /\ voted[m.dst] = NoOne
                 /\ voted' = [voted EXCEPT ![m.dst] = m.src]
                 /\ grants' = grants \union {Grant(m.dst, m)}
                 /\ \A x \in msgs' : x \in msgs \/ (x.src = m.dst /\ x.dst = m.src)
<1> DEFINE s == m.dst
<1> DEFINE a == [type |-> "VoteResponse", src |-> s, dst |-> m.src,
                 vote_granted |-> Grants(s, m)]
<1>1. s \in Servers /\ m.src \in Servers BY DEF VoteState
<1>2. up[s] /\ UNCHANGED <<up, boot, role, votes>> BY DEF RecvRequestVote, powerVars
<1>3. InFlight(m, {a}) BY DEF RecvRequestVote
<1>4. a.src = s /\ a.dst = m.src /\ a.vote_granted = Grants(s, m) OBVIOUS
<1>5. /\ voted' = IF Grants(s, m) THEN [voted EXCEPT ![s] = m.src] ELSE voted
      /\ grants' = IF Grants(s, m) THEN grants \union {Grant(s, m)} ELSE grants
  BY DEF RecvRequestVote, Grant
<1>6. Grants(s, m) => voted[s] = NoOne BY DEF Grants
<1> HIDE DEF a
<1>7. \A x \in msgs' : x \in msgs \/ x = a BY <1>3, InFlightAdds
<1>8. CASE Grants(s, m) BY <1>1, <1>2, <1>4, <1>5, <1>6, <1>7, <1>8
<1>9. CASE ~Grants(s, m) BY <1>1, <1>2, <1>4, <1>5, <1>7, <1>9 DEF Granted
<1> QED BY <1>8, <1>9

\* A vote is counted only if it was granted; a new leader has a majority of
\* the votes it counted and its own.
LEMMA VoteResponseStep ==
    ASSUME VoteState, NEW m \in msgs, m.type = "VoteResponse", RecvVoteResponse(m)
    PROVE  /\ m.dst \in Servers /\ m.src \in Servers
           /\ up[m.dst] /\ UNCHANGED <<up, boot, voted, grants>>
           /\ QuietMsgs
           /\ \/ UNCHANGED <<votes, role>>
              \/ /\ Granted(m)
                 /\ votes' = [votes EXCEPT ![m.dst] = votes[m.dst] \union {m.src}]
                 /\ \/ UNCHANGED role
                    \/ /\ role' = [role EXCEPT ![m.dst] = "leader"]
                       /\ Majority(votes[m.dst] \union {m.src} \union {m.dst})
<1> DEFINE s == m.dst
<1> DEFINE got == votes[s] \union {m.src}
<1> DEFINE wins == Counted(s, m) /\ Majority(got \union {s})
<1> DEFINE A == IF wins
                THEN {cb_send_appendentries(s, p, log[s], Len(log[s]) + 1, commit[s]) :
                        p \in Servers \ {s}}
                ELSE {}
<1>1. s \in Servers /\ m.src \in Servers BY DEF VoteState
<1>2. up[s] /\ UNCHANGED <<up, boot, voted, grants>>
  BY DEF RecvVoteResponse, powerVars, voteVars
<1>3. InFlight(m, A) BY DEF RecvVoteResponse
<1>4. \A a \in A : a.type # "VoteResponse" /\ a.src \in Servers /\ a.dst \in Servers
  <2> DEFINE append(p) == cb_send_appendentries(s, p, log[s], Len(log[s]) + 1, commit[s])
  <2>1. ASSUME NEW p \in Servers
        PROVE  /\ append(p).type # "VoteResponse"
               /\ append(p).src \in Servers /\ append(p).dst \in Servers
    BY <1>1, SentByMembers
  <2>2. ASSUME NEW a \in A PROVE \E p \in Servers : a = append(p)
    OBVIOUS
  <2> HIDE DEF A, append
  <2> QED BY <2>1, <2>2
<1>5. /\ votes' = IF Counted(s, m) THEN [votes EXCEPT ![s] = got] ELSE votes
      /\ role' = IF wins THEN [role EXCEPT ![s] = "leader"] ELSE role
  BY DEF RecvVoteResponse
<1>6. Counted(s, m) => Granted(m) BY DEF Counted, Granted
<1>7. QuietMsgs
  <2> HIDE DEF A
  <2> QED BY <1>3, <1>4, AnswersQuiet
<1> QED BY <1>1, <1>2, <1>5, <1>6, <1>7

-----------------------------------------------------------------------------
(* The inductive invariant *)

\* Every vote in flight and every vote counted was granted.
VotesAreGranted ==
    /\ \A m \in msgs : Granted(m) => m.src \in Supporters(m.dst)
    /\ \A s \in Servers : votes[s] \subseteq Supporters(s)

\* A server that granted a vote since its last power-up has voted.
VoteIsKept ==
    \A g \in grants : /\ g.boot <= boot[g.voter]
                      /\ g.boot = boot[g.voter] => voted[g.voter] # NoOne

VoteInv == VoteState /\ VotesAreGranted /\ VoteIsKept /\ LeaderHasQuorum /\ VoteOncePerTerm

\* Supporters are never lost.
LEMMA SupportersGrow ==
    ASSUME NEW s, grants \subseteq grants'
    PROVE  Supporters(s) \subseteq Supporters(s)'
BY DEF Supporters

\* Nobody has voted at power-up.
LEMMA InitVotes == Init => VoteInv
<1> SUFFICES ASSUME Init PROVE VoteInv OBVIOUS
<1>1. VoteState BY DEF Init, VoteState
<1>2. VotesAreGranted BY DEF Init, VotesAreGranted, Supporters
<1>3. VoteIsKept /\ VoteOncePerTerm BY DEF Init, VoteIsKept, VoteOncePerTerm
<1>4. LeaderHasQuorum BY DEF Init, LeaderHasQuorum
<1> QED BY <1>1, <1>2, <1>3, <1>4 DEF VoteInv

\* A quiet step keeps the invariant.
LEMMA QuietKeeps ==
    ASSUME VoteInv, Quiet, ServerState'
    PROVE  VoteInv'
<1>1. grants' = grants /\ \A s : Supporters(s)' = Supporters(s) BY DEF Quiet, Supporters
<1>2. VoteState'
  <2>1. \A m \in msgs' : m.src \in Servers /\ m.dst \in Servers
    BY DEF Quiet, VoteInv, VoteState
  <2>2. \A g \in grants' : g.voter \in Servers /\ g.candidate \in Servers /\ g.boot \in Nat
    BY <1>1 DEF VoteInv, VoteState
  <2> QED BY <2>1, <2>2 DEF ServerState, VoteState
<1>3. VotesAreGranted'
  <2>1. \A m \in msgs' : Granted(m) => m.src \in Supporters(m.dst)'
    BY <1>1 DEF Quiet, VoteInv, VotesAreGranted, Granted
  <2>2. \A s \in Servers : votes'[s] \subseteq Supporters(s)'
    BY <1>1 DEF Quiet, VoteInv, VotesAreGranted
  <2> QED BY <2>1, <2>2 DEF VotesAreGranted
<1>4. VoteIsKept'
  <2> SUFFICES ASSUME NEW g \in grants'
               PROVE  g.boot <= boot'[g.voter] /\ (g.boot = boot'[g.voter] => voted'[g.voter] # NoOne)
    BY DEF VoteIsKept
  <2>1. g \in grants /\ g.voter \in Servers /\ g.boot \in Nat /\ boot[g.voter] \in Nat
    BY <1>1 DEF VoteInv, VoteState
  <2>2. /\ g.boot <= boot[g.voter]
        /\ g.boot = boot[g.voter] => voted[g.voter] # NoOne
    BY <2>1 DEF VoteInv, VoteIsKept
  <2>3. \/ boot'[g.voter] = boot[g.voter]
             /\ (voted'[g.voter] = NoOne => voted[g.voter] = NoOne)
        \/ boot'[g.voter] = boot[g.voter] + 1
    BY <2>1 DEF Quiet
  <2> QED BY <2>1, <2>2, <2>3
<1>5. LeaderHasQuorum' BY <1>1 DEF Quiet, VoteInv, LeaderHasQuorum
<1>6. VoteOncePerTerm' BY <1>1 DEF VoteInv, VoteOncePerTerm
<1> QED BY <1>2, <1>3, <1>4, <1>5, <1>6 DEF VoteInv

\* A vote request, granted or refused, keeps the invariant.
LEMMA RequestVoteKeeps ==
    ASSUME VoteInv, NEW m \in msgs, RecvRequestVote(m)
    PROVE  VoteInv'
<1> DEFINE s == m.dst
<1> DEFINE g0 == Grant(s, m)
<1>1. VoteState BY DEF VoteInv
<1>2. /\ s \in Servers /\ m.src \in Servers
      /\ UNCHANGED <<up, boot, role, votes>>
  BY <1>1, RequestVoteStep
<1>3. CASE UNCHANGED <<grants, voted>> /\
           \A x \in msgs' : x \in msgs \/ (~Granted(x) /\ x.src \in Servers /\ x.dst \in Servers)
  <2>1. \A t : Supporters(t)' = Supporters(t) BY <1>3 DEF Supporters
  <2>2. VoteState' BY <1>1, <1>2, <1>3 DEF VoteState
  <2>3. VotesAreGranted' BY <1>2, <1>3, <2>1 DEF VoteInv, VotesAreGranted, Granted
  <2>4. VoteIsKept' BY <1>2, <1>3 DEF VoteInv, VoteIsKept
  <2>5. LeaderHasQuorum' BY <1>2, <2>1 DEF VoteInv, LeaderHasQuorum
  <2>6. VoteOncePerTerm' BY <1>3 DEF VoteInv, VoteOncePerTerm
  <2> QED BY <2>2, <2>3, <2>4, <2>5, <2>6 DEF VoteInv
<1>4. CASE /\ voted[s] = NoOne
           /\ voted' = [voted EXCEPT ![s] = m.src]
           /\ grants' = grants \union {g0}
           /\ \A x \in msgs' : x \in msgs \/ (x.src = s /\ x.dst = m.src)
  <2>1. g0.voter = s /\ g0.candidate = m.src /\ g0.boot = boot[s] BY DEF Grant
  <2> HIDE DEF g0
  <2>2. \A t : Supporters(t) \subseteq Supporters(t)' BY <1>4, SupportersGrow
  <2>3. s \in Supporters(m.src)' BY <1>2, <1>4, <2>1 DEF Supporters
  <2>4. boot[s] \in Nat /\ m.src # NoOne BY <1>1, <1>2, ClusterConstants DEF VoteState
  <2>5. VoteState' BY <1>1, <1>2, <1>4, <2>1, <2>4 DEF VoteState
  <2>6. VotesAreGranted'
    <3>1. \A x \in msgs' : Granted(x) => x.src \in Supporters(x.dst)'
      BY <1>4, <2>2, <2>3 DEF VoteInv, VotesAreGranted
    <3>2. \A t \in Servers : votes'[t] \subseteq Supporters(t)'
      BY <1>2, <2>2 DEF VoteInv, VotesAreGranted
    <3> QED BY <3>1, <3>2 DEF VotesAreGranted, Granted
  <2>7. \A g \in grants : /\ g.voter \in Servers /\ g.boot \in Nat
                          /\ g.boot <= boot[g.voter]
                          /\ g.boot = boot[g.voter] => voted[g.voter] # NoOne
    BY <1>1 DEF VoteInv, VoteIsKept, VoteState
  <2>8. VoteIsKept'
    <3> SUFFICES ASSUME NEW g \in grants'
                 PROVE  g.boot <= boot[g.voter] /\ (g.boot = boot[g.voter] => voted'[g.voter] # NoOne)
      BY <1>2 DEF VoteIsKept
    <3>1. CASE g \in grants BY <1>1, <1>2, <1>4, <2>4, <2>7, <3>1 DEF VoteState
    <3>2. CASE g = g0 BY <1>1, <1>2, <1>4, <2>1, <2>4, <3>2 DEF VoteState
    <3> QED BY <1>4, <3>1, <3>2
  <2>9. LeaderHasQuorum'
    <3> SUFFICES ASSUME NEW t \in Servers, role[t] = "leader"
                 PROVE  Majority(Supporters(t)' \union {t})
      BY <1>2 DEF LeaderHasQuorum, Majority
    <3>1. Majority(Supporters(t) \union {t}) BY DEF VoteInv, LeaderHasQuorum
    <3>2. Supporters(t)' \union {t} \in SUBSET Servers BY DEF Supporters
    <3> QED BY <2>2, <3>1, <3>2, MajorityGrows
  <2>10. VoteOncePerTerm'
    <3>1. \A g \in grants : ~(g.voter = g0.voter /\ g.boot = g0.boot)
      BY <1>4, <2>1, <2>7
    <3>2. \A g, h \in grants : g.voter = h.voter /\ g.boot = h.boot /\ g.term = h.term =>
                                   g.candidate = h.candidate
      BY DEF VoteInv, VoteOncePerTerm
    <3> QED BY <1>4, <3>1, <3>2 DEF VoteOncePerTerm
  <2> QED BY <2>5, <2>6, <2>8, <2>9, <2>10 DEF VoteInv
<1> QED BY <1>1, <1>3, <1>4, RequestVoteStep

\* A vote, counted or not, keeps the invariant.
LEMMA VoteResponseKeeps ==
    ASSUME VoteInv, NEW m \in msgs, m.type = "VoteResponse", RecvVoteResponse(m)
    PROVE  VoteInv'
<1> DEFINE s == m.dst
<1> DEFINE got == votes[s] \union {m.src}
<1>1. VoteState BY DEF VoteInv
<1>2. /\ s \in Servers /\ m.src \in Servers
      /\ UNCHANGED <<up, boot, voted, grants>> /\ QuietMsgs
      /\ \/ UNCHANGED <<votes, role>>
         \/ /\ Granted(m)
            /\ votes' = [votes EXCEPT ![s] = got]
            /\ \/ UNCHANGED role
               \/ role' = [role EXCEPT ![s] = "leader"] /\ Majority(got \union {s})
  BY <1>1, VoteResponseStep
<1>3. \A t : Supporters(t)' = Supporters(t) BY <1>2 DEF Supporters
<1>4. VoteState'
  <2>1. ServerState' BY <1>1, <1>2 DEF VoteState, ServerState
  <2>2. /\ \A x \in msgs' : x.src \in Servers /\ x.dst \in Servers
        /\ \A g \in grants' : g.voter \in Servers /\ g.candidate \in Servers /\ g.boot \in Nat
    BY <1>1, <1>2 DEF VoteState, QuietMsgs
  <2> QED BY <2>1, <2>2 DEF ServerState, VoteState
<1>5. got \subseteq Supporters(s) \/ ~Granted(m) BY <1>2 DEF VoteInv, VotesAreGranted
<1>6. VotesAreGranted'
  <2>1. \A x \in msgs' : Granted(x) => x.src \in Supporters(x.dst)'
    BY <1>2, <1>3 DEF QuietMsgs, VoteInv, VotesAreGranted, Granted
  <2>2. \A t \in Servers : votes'[t] \subseteq Supporters(t)'
    BY <1>1, <1>2, <1>3, <1>5 DEF VoteInv, VotesAreGranted, VoteState
  <2> QED BY <2>1, <2>2 DEF VotesAreGranted, Granted
<1>7. VoteIsKept' /\ VoteOncePerTerm' BY <1>2 DEF VoteInv, VoteIsKept, VoteOncePerTerm
<1>8. LeaderHasQuorum'
  <2> SUFFICES ASSUME NEW t \in Servers, role'[t] = "leader"
               PROVE  Majority(Supporters(t) \union {t})
    BY <1>3 DEF LeaderHasQuorum, Majority
  <2>1. CASE role[t] = "leader" BY <2>1 DEF VoteInv, LeaderHasQuorum
  <2>2. CASE role[t] # "leader"
    <3>1. t = s /\ Granted(m) /\ Majority(got \union {s}) BY <1>1, <1>2, <2>2 DEF VoteState
    <3>2. Supporters(s) \union {s} \in SUBSET Servers BY <1>2 DEF Supporters
    <3>3. got \union {s} \in SUBSET (Supporters(s) \union {s}) BY <1>5, <3>1
    <3> HIDE DEF got
    <3> QED BY <3>1, <3>2, <3>3, MajorityGrows
  <2> QED BY <2>1, <2>2
<1> QED BY <1>4, <1>6, <1>7, <1>8 DEF VoteInv

\* Every step of the cluster keeps the invariant.
LEMMA VoteInvariant == Spec => []VoteInv
<1>1. Init => VoteInv BY InitVotes
<1>2. VoteInv /\ [Next]_vars => VoteInv'
  <2> SUFFICES ASSUME VoteInv, [Next]_vars PROVE VoteInv' OBVIOUS
  <2>1. CASE Next
    <3>1. VoteState BY DEF VoteInv
    <3> QED BY <2>1, <3>1, StepKinds, QuietKeeps, RequestVoteKeeps, VoteResponseKeeps
  <2>2. CASE UNCHANGED vars
    <3>1. UNCHANGED <<up, boot, role, voted, votes, grants, msgs>>
      BY <2>2 DEF vars, powerVars, voteVars, roleVars
    <3>2. Quiet /\ ServerState'
      BY <3>1, SameIsQuiet DEF VoteInv, VoteState, ServerState, QuietMsgs
    <3> QED BY <3>2, QuietKeeps
  <2> QED BY <2>1, <2>2
<1> QED BY <1>1, <1>2, PTL DEF Spec

-----------------------------------------------------------------------------
(* Theorems *)

\* In a cluster of any size, over a network that loses, delays, reorders and
\* repeats, with servers losing power at any time, no candidate ever becomes
\* leader without the granted votes of a majority.
THEOREM LeaderHasQuorumAlways == Spec => []LeaderHasQuorum
<1>1. VoteInv => LeaderHasQuorum BY DEF VoteInv
<1> QED BY <1>1, VoteInvariant, PTL

\* Between two power cycles a server supports one candidate per term,
\* although no term is ever compared.
THEOREM VoteOncePerTermAlways == Spec => []VoteOncePerTerm
<1>1. VoteInv => VoteOncePerTerm BY DEF VoteInv
<1> QED BY <1>1, VoteInvariant, PTL

\* Votes that s holds or that are under way to it, its own included.
Reachable(s) ==
    {s} \union votes[s] \union
    {v \in Servers : \E m \in msgs : m.type = "VoteResponse" /\ m.src = v /\ m.dst = s
                                     /\ m.vote_granted}

\* Everybody that runs has voted, nobody leads or can still be voted leader.
Stalemate ==
    \A s \in Servers : up[s] =>
        role[s] # "leader" /\ voted[s] # NoOne /\ ~Majority(Reachable(s))

\* Terms are not on the wire, so no message frees a vote: a lost election is
\* lost for good.  Only a power cycle ends a stalemate.
StalemateLasts == [][Stalemate /\ boot' = boot => Stalemate']_vars

\* An election that nobody won is final, whatever arrives and however the
\* timeouts fall: unless a server is powered up again there is never another
\* leader.
THEOREM StalemateLastsAlways == Spec => StalemateLasts
<1>1. ASSUME VoteState, [Next]_vars, Stalemate, boot' = boot
      PROVE  Stalemate'
  <2> SUFFICES ASSUME NEW s \in Servers, up'[s]
               PROVE  role'[s] # "leader" /\ voted'[s] # NoOne /\ ~Majority(Reachable(s)')
    BY DEF Stalemate, Majority
  <2>1. Reachable(s) \in SUBSET Servers BY <1>1 DEF Reachable, VoteState
  <2>2. CASE Quiet
    <3>1. up[s] /\ role'[s] # "leader" /\ voted'[s] # NoOne
      BY <1>1, <2>2 DEF Quiet, Stalemate, VoteState
    <3>2. Reachable(s)' \subseteq Reachable(s) BY <2>2 DEF Quiet, Reachable
    <3> QED BY <1>1, <2>1, <3>1, <3>2, MajorityGrows DEF Stalemate
  <2>3. ASSUME NEW m \in msgs, RecvRequestVote(m)
        PROVE  role'[s] # "leader" /\ voted'[s] # NoOne /\ ~Majority(Reachable(s)')
    <3>1. /\ UNCHANGED <<up, role, votes, voted>>
          /\ \A x \in msgs' : x \in msgs \/ ~Granted(x)
      BY <1>1, <2>3, RequestVoteStep DEF Stalemate
    <3>2. Reachable(s)' \subseteq Reachable(s) BY <3>1 DEF Reachable, Granted
    <3> QED BY <1>1, <2>1, <3>1, <3>2, MajorityGrows DEF Stalemate
  <2>4. ASSUME NEW m \in msgs, m.type = "VoteResponse", RecvVoteResponse(m)
        PROVE  role'[s] # "leader" /\ voted'[s] # NoOne /\ ~Majority(Reachable(s)')
    <3>1. /\ m.dst \in Servers /\ UNCHANGED <<up, voted>> /\ QuietMsgs /\ up[m.dst]
          /\ \/ UNCHANGED <<votes, role>>
             \/ /\ Granted(m)
                /\ votes' = [votes EXCEPT ![m.dst] = votes[m.dst] \union {m.src}]
                /\ \/ UNCHANGED role
                   \/ /\ role' = [role EXCEPT ![m.dst] = "leader"]
                      /\ Majority(votes[m.dst] \union {m.src} \union {m.dst})
      BY <1>1, <2>4, VoteResponseStep
    <3>2. Granted(m) => votes[m.dst] \union {m.src} \union {m.dst} \in SUBSET Reachable(m.dst)
      BY <1>1 DEF Reachable, Granted, VoteState
    <3>3. Reachable(m.dst) \in SUBSET Servers BY <1>1, <3>1 DEF Reachable, VoteState
    <3>4. Granted(m) => ~Majority(votes[m.dst] \union {m.src} \union {m.dst})
      BY <1>1, <3>1, <3>2, <3>3, MajorityGrows DEF Stalemate
    <3>5. UNCHANGED role BY <3>1, <3>4
    <3>6. Reachable(s)' \subseteq Reachable(s)
      BY <1>1, <3>1, <3>2 DEF Reachable, QuietMsgs, VoteState
    <3> QED BY <1>1, <2>1, <3>1, <3>5, <3>6, MajorityGrows DEF Stalemate
  <2>5. CASE UNCHANGED vars
    BY <1>1, <2>5 DEF vars, powerVars, voteVars, roleVars, Stalemate, Reachable, Majority
  <2> QED BY <1>1, <2>2, <2>3, <2>4, <2>5, StepKinds
<1>2. VoteInv => VoteState BY DEF VoteInv
<1> QED BY <1>1, <1>2, VoteInvariant, PTL DEF Spec, StalemateLasts

-----------------------------------------------------------------------------
(* One server's log *)

\* The entry at index i is one that was proposed for that index.
InPlace(lg, pr) == \A i \in 1 .. Len(lg) : [idx |-> i, entry |-> lg[i]] \in pr

\* A log with its indices.
LogOK(lg, ci, ap) ==
    /\ lg \in Seq(Entries) /\ Len(lg) <= LOG_CAPACITY
    /\ ci \in Indices /\ ap \in Indices /\ ap <= ci /\ ci <= Len(lg)

\* The committed part of lg is still there in new.
Keeps(lg, ci, new) == Len(new) >= ci /\ \A i \in 1 .. ci : new[i] = lg[i]

\* The shortest prefix that matters: i entries of lg.
LEMMA Prefix ==
    ASSUME NEW lg \in Seq(Entries), NEW i \in 0 .. Len(lg)
    PROVE  /\ SubSeq(lg, 1, i) \in Seq(Entries)
           /\ Len(SubSeq(lg, 1, i)) = i
           /\ \A j \in 1 .. i : SubSeq(lg, 1, i)[j] = lg[j]
OBVIOUS

\* A log cut to i entries that include the committed ones.
LEMMA PrefixOK ==
    ASSUME NEW lg, NEW ci, NEW ap, NEW pr, LogOK(lg, ci, ap), InPlace(lg, pr),
           NEW i \in Nat, ci <= i, i <= Len(lg)
    PROVE  LET new == SubSeq(lg, 1, i)
           IN  LogOK(new, ci, ap) /\ InPlace(new, pr) /\ Keeps(lg, ci, new) /\ Len(new) = i
<1>1. lg \in Seq(Entries) /\ i \in 0 .. Len(lg) /\ Len(lg) \in Nat BY DEF LogOK
<1> DEFINE new == SubSeq(lg, 1, i)
<1>2. new \in Seq(Entries) /\ Len(new) = i /\ \A j \in 1 .. i : new[j] = lg[j] BY <1>1, Prefix
<1> HIDE DEF new
<1>3. LOG_CAPACITY \in Nat /\ ci \in Nat BY ClusterConstants DEF LogOK, Indices
<1>4. LogOK(new, ci, ap) BY <1>1, <1>2, <1>3 DEF LogOK
<1>5. InPlace(new, pr) BY <1>1, <1>2 DEF InPlace
<1>6. Keeps(lg, ci, new) BY <1>2, <1>3 DEF Keeps
<1> QED BY <1>2, <1>4, <1>5, <1>6 DEF new

\* CutTo() protects what is committed.
LEMMA CutToOK ==
    ASSUME NEW lg, NEW ci, NEW ap, NEW pr, LogOK(lg, ci, ap), InPlace(lg, pr),
           NEW i \in Int, i <= Len(lg)
    PROVE  LET new == CutTo(lg, i, ci)
           IN  LogOK(new, ci, ap) /\ InPlace(new, pr) /\ Keeps(lg, ci, new)
<1>1. ci \in Nat /\ ci <= Len(lg) BY ClusterConstants DEF LogOK, Indices
<1>2. CASE i < ci
  <2>1. CutTo(lg, i, ci) = lg BY <1>2 DEF CutTo
  <2>2. Keeps(lg, ci, lg) BY <1>1 DEF Keeps
  <2> QED BY <2>1, <2>2
<1>3. CASE ~(i < ci)
  <2>1. CutTo(lg, i, ci) = SubSeq(lg, 1, i) BY <1>3 DEF CutTo
  <2>2. i \in Nat /\ ci <= i BY <1>1, <1>3
  <2> QED BY <2>1, <2>2, PrefixOK
<1> QED BY <1>2, <1>3

\* A log with one more entry.
LEMMA AppendOK ==
    ASSUME NEW lg, NEW ci, NEW ap, NEW pr, LogOK(lg, ci, ap), InPlace(lg, pr),
           NEW e \in Entries, Len(lg) < LOG_CAPACITY,
           [idx |-> Len(lg) + 1, entry |-> e] \in pr
    PROVE  LET new == Append(lg, e)
           IN  /\ LogOK(new, ci, ap) /\ InPlace(new, pr) /\ Keeps(lg, ci, new)
               /\ Len(new) = Len(lg) + 1
<1> DEFINE new == Append(lg, e)
<1>1. lg \in Seq(Entries) /\ Len(lg) \in Nat /\ ci \in Nat /\ LOG_CAPACITY \in Nat
  BY ClusterConstants DEF LogOK, Indices
<1>2. /\ new \in Seq(Entries) /\ Len(new) = Len(lg) + 1 /\ new[Len(lg) + 1] = e
      /\ \A i \in 1 .. Len(lg) : new[i] = lg[i]
  BY <1>1
<1> HIDE DEF new
<1>3. LogOK(new, ci, ap) BY <1>1, <1>2 DEF LogOK
<1>4. InPlace(new, pr) BY <1>1, <1>2 DEF InPlace
<1>5. Keeps(lg, ci, new) BY <1>1, <1>2 DEF Keeps, LogOK
<1> QED BY <1>2, <1>3, <1>4, <1>5 DEF new

-----------------------------------------------------------------------------
(* Appends *)

\* An append of wire_format.h: its entry was proposed for the index after
\* prev_log_idx, and one that announces a commit has an entry before or in it.
AppendMsgOK(m, pr) ==
    /\ m.prev_log_idx \in Indices /\ m.prev_log_term \in Terms /\ m.leader_commit \in Indices
    /\ \/ m.entries = <<>>
       \/ /\ \E e \in Entries : m.entries = <<e>>
          /\ m.prev_log_idx < LOG_CAPACITY
          /\ [idx |-> m.prev_log_idx + 1, entry |-> m.entries[1]] \in pr
    /\ m.leader_commit > 0 => m.prev_log_idx > 0 \/ m.entries # <<>>

\* The log that an append leaves behind, and the commit index.
LEMMA MergedOK ==
    ASSUME NEW lg, NEW ci, NEW ap, NEW pr, LogOK(lg, ci, ap), InPlace(lg, pr),
           NEW m, AppendMsgOK(m, pr), PrevMatches(lg, m)
    PROVE  LET new == Merged(lg, m, ci)
           IN  /\ LogOK(new, ci, ap) /\ InPlace(new, pr) /\ Keeps(lg, ci, new)
               /\ ~Shutdown(lg, m, ci) /\ m.leader_commit > 0 => Len(new) > 0
<1>1. /\ lg \in Seq(Entries) /\ Len(lg) \in Nat /\ ci \in Nat /\ LOG_CAPACITY \in Nat
      /\ m.prev_log_idx \in Nat /\ ci <= Len(lg) /\ m.leader_commit \in Nat
  BY ClusterConstants DEF LogOK, Indices, AppendMsgOK
<1>2. m.prev_log_idx <= Len(lg) BY <1>1 DEF PrevMatches
<1>3. Keeps(lg, ci, lg) BY <1>1 DEF Keeps
<1>4. CASE m.entries = <<>>
  <2>1. Merged(lg, m, ci) = lg BY <1>4 DEF Merged
  <2> QED BY <1>1, <1>2, <1>3, <1>4, <2>1 DEF AppendMsgOK
<1>5. CASE Shutdown(lg, m, ci)
  <2>1. Merged(lg, m, ci) = lg BY <1>5 DEF Merged
  <2> QED BY <1>3, <1>5, <2>1
<1>6. CASE m.entries # <<>> /\ ~Shutdown(lg, m, ci)
  <2> DEFINE kept == IF Conflict(lg, m) THEN CutTo(lg, m.prev_log_idx, ci) ELSE lg
  <2>1. LogOK(kept, ci, ap) /\ InPlace(kept, pr) /\ Keeps(lg, ci, kept)
    BY <1>1, <1>2, <1>3, CutToOK
  <2>2. PICK e \in Entries : m.entries = <<e>> BY <1>6 DEF AppendMsgOK
  <2>3. m.prev_log_idx < LOG_CAPACITY /\ [idx |-> m.prev_log_idx + 1, entry |-> e] \in pr
    BY <1>6, <2>2 DEF AppendMsgOK
  <2>4. Merged(lg, m, ci) = IF Len(kept) = m.prev_log_idx THEN kept \o m.entries ELSE kept
    BY <1>6 DEF Merged
  <2>5. Conflict(lg, m) => m.prev_log_idx >= ci BY <1>1, <1>6 DEF Shutdown
  <2>6. Conflict(lg, m) => Len(kept) = m.prev_log_idx
    BY <1>1, <1>2, <2>5, PrefixOK DEF CutTo
  <2>7. Len(kept) = m.prev_log_idx \/ Len(kept) > m.prev_log_idx
    BY <1>1, <1>2, <2>6
  <2> HIDE DEF kept
  <2>8. kept \in Seq(Entries) /\ Len(kept) \in Nat BY <2>1 DEF LogOK
  <2>9. CASE Len(kept) = m.prev_log_idx
    <3>1. kept \o m.entries = Append(kept, e) BY <2>2, <2>8
    <3>2. LET new == Append(kept, e)
          IN  /\ LogOK(new, ci, ap) /\ InPlace(new, pr) /\ Keeps(kept, ci, new)
              /\ Len(new) = Len(kept) + 1
      BY <2>1, <2>3, <2>9, AppendOK
    <3>3. Keeps(lg, ci, Append(kept, e)) BY <2>1, <3>2, <1>1 DEF Keeps
    <3> QED BY <2>4, <2>8, <2>9, <3>1, <3>2, <3>3
  <2>10. CASE Len(kept) > m.prev_log_idx BY <1>1, <2>1, <2>4, <2>8, <2>10
  <2> QED BY <2>7, <2>9, <2>10
<1> QED BY <1>4, <1>5, <1>6

\* The same when the copy of the entry could not be allocated.
LEMMA NoMemoryOK ==
    ASSUME NEW lg, NEW ci, NEW ap, NEW pr, LogOK(lg, ci, ap), InPlace(lg, pr),
           NEW m, AppendMsgOK(m, pr), PrevMatches(lg, m), ~Shutdown(lg, m, ci),
           m.prev_log_idx < Len(lg) => Conflict(lg, m)
    PROVE  LET new == SubSeq(lg, 1, m.prev_log_idx)
           IN  LogOK(new, ci, ap) /\ InPlace(new, pr) /\ Keeps(lg, ci, new)
<1>1. /\ Len(lg) \in Nat /\ ci \in Nat /\ m.prev_log_idx \in Nat /\ ci <= Len(lg)
  BY ClusterConstants DEF LogOK, Indices, AppendMsgOK
<1>2. m.prev_log_idx <= Len(lg) BY <1>1 DEF PrevMatches
<1>3. ci <= m.prev_log_idx BY <1>1, <1>2 DEF Shutdown
<1> QED BY <1>1, <1>2, <1>3, PrefixOK

\* What a leader sends is in order.
LEMMA SentAppendOK ==
    ASSUME NEW s, NEW p, NEW lg, NEW ci, NEW ap, NEW pr, LogOK(lg, ci, ap), InPlace(lg, pr),
           NEW nx \in Nat, 1 <= nx, nx <= Len(lg) + 1
    PROVE  AppendMsgOK(cb_send_appendentries(s, p, lg, nx, ci), pr)
<1> DEFINE rest == SubSeq(lg, nx, Len(lg))
<1> DEFINE m == cb_send_appendentries(s, p, lg, nx, ci)
<1>1. /\ lg \in Seq(Entries) /\ Len(lg) \in Nat /\ ci \in Nat /\ ci <= Len(lg)
      /\ Len(lg) <= LOG_CAPACITY /\ LOG_CAPACITY \in Nat
  BY ClusterConstants DEF LogOK, Indices
<1>2. /\ m.prev_log_idx = nx - 1 /\ m.prev_log_term = TermAt(lg, nx - 1)
      /\ m.leader_commit = ci /\ m.entries = capped(rest)
  BY DEF cb_send_appendentries
<1>3. TermAt(lg, nx - 1) \in Terms
  <2>1. CASE nx - 1 = 0 BY <2>1, ClusterConstants DEF TermAt, Terms
  <2>2. CASE nx - 1 # 0
    <3>1. nx - 1 \in 1 .. Len(lg) BY <1>1, <2>2
    <3>2. lg[nx - 1] \in Entries BY <1>1, <3>1
    <3> QED BY <2>2, <3>2 DEF TermAt, Entries
  <2> QED BY <2>1, <2>2
<1> HIDE DEF m
<1>4. CASE nx = Len(lg) + 1
  <2>1. rest = <<>> BY <1>1, <1>4
  <2>2. m.entries = <<>> BY <1>2, <2>1 DEF capped
  <2> QED BY <1>1, <1>2, <1>3, <1>4, <2>2 DEF AppendMsgOK, Indices, m
<1>5. CASE nx <= Len(lg)
  <2>1. nx \in 1 .. Len(lg) /\ lg[nx] \in Entries /\ [idx |-> nx, entry |-> lg[nx]] \in pr
    BY <1>1, <1>5 DEF InPlace
  <2>2. rest # <<>> /\ rest[1] = lg[nx]
    <3>1. \A i \in nx .. Len(lg) : lg[i] \in Entries BY <1>1
    <3>2. nx \in Int /\ Len(lg) \in Int BY <1>1
    <3>3. /\ Len(rest) = IF nx <= Len(lg) THEN Len(lg) - nx + 1 ELSE 0
          /\ \A i \in 1 .. Len(lg) - nx + 1 : rest[i] = lg[nx + i - 1]
      BY <3>1, <3>2, SubSeqProperties
    <3>4. 1 \in 1 .. Len(lg) - nx + 1 /\ nx + 1 - 1 = nx BY <1>1, <1>5
    <3>5. rest[1] = lg[nx] BY <3>3, <3>4
    <3>6. Len(rest) # 0 BY <1>1, <1>5, <3>3
    <3> HIDE DEF rest
    <3> QED BY <3>5, <3>6
  <2>3. m.entries = <<lg[nx]>> BY <1>2, <2>2 DEF capped
  <2>4. m.entries # <<>> /\ m.entries[1] = lg[nx] BY <2>3
  <2>5. m.prev_log_idx + 1 = nx /\ m.prev_log_idx < LOG_CAPACITY /\ m.prev_log_idx \in Indices
    BY <1>1, <1>2, <1>5 DEF Indices
  <2>6. m.leader_commit \in Indices BY <1>1, <1>2 DEF Indices
  <2> QED BY <1>2, <1>3, <2>1, <2>3, <2>4, <2>5, <2>6 DEF AppendMsgOK, m
<1> QED BY <1>1, <1>4, <1>5

-----------------------------------------------------------------------------
(* The inductive invariant *)

\* Everything but logs, peers and datagrams.
RestOK ==
    /\ up \in [Servers -> BOOLEAN] /\ boot \in [Servers -> 0 .. MAX_BOOT]
    /\ role \in [Servers -> {"follower", "candidate", "leader"}]
    /\ term \in [Servers -> Terms]
    /\ voted \in [Servers -> Servers \union {NoOne}]
    /\ votes \in [Servers -> SUBSET Servers]
    /\ leader \in [Servers -> Servers \union {NoOne}]
    /\ waited \in [Servers -> BOOLEAN]
    /\ grants \subseteq [voter : Servers, boot : 0 .. MAX_BOOT, term : Terms,
                         candidate : Servers]

LogsOK ==
    /\ log \in [Servers -> Seq(Entries)]
    /\ commit \in [Servers -> Indices] /\ applied \in [Servers -> Indices]
    /\ proposed \subseteq [idx : Indices, entry : Entries]
    /\ \A s \in Servers : LogOK(log[s], commit[s], applied[s]) /\ InPlace(log[s], proposed)

\* A peer that has answered gets what follows its answer: match_idx is 0 or
\* just before next_idx.  This is why next_idx never falls below 1.
PeersOK ==
    /\ next \in [Servers -> [Servers -> 1 .. LOG_CAPACITY + 1]]
    /\ match \in [Servers -> [Servers -> Indices]]
    /\ \A s, p \in Servers : match[s][p] = 0 \/ match[s][p] = next[s][p] - 1

MsgOK(m, pr) == m \in Messages /\ (m.type = "AppendEntries" => AppendMsgOK(m, pr))

MsgsOK == \A m \in msgs : MsgOK(m, proposed)

LogInv == RestOK /\ LogsOK /\ PeersOK /\ MsgsOK

\* The invariant contains both properties.
LEMMA LogInvImplies == LogInv => TypeOK /\ EntryInPlace
<1> SUFFICES ASSUME LogInv PROVE TypeOK /\ EntryInPlace OBVIOUS
<1>1. msgs \subseteq Messages BY DEF LogInv, MsgsOK, MsgOK
<1>2. EntryInPlace BY DEF LogInv, LogsOK, InPlace, EntryInPlace
<1>3. \A s \in Servers : /\ Len(log[s]) <= LOG_CAPACITY
                         /\ applied[s] <= commit[s] /\ commit[s] <= Len(log[s])
  BY DEF LogInv, LogsOK, LogOK
<1>4. TypeOK BY <1>1, <1>3 DEF LogInv, RestOK, LogsOK, PeersOK, TypeOK
<1> QED BY <1>2, <1>4

\* It holds at power-up.
LEMMA InitLogs == Init => LogInv
<1> SUFFICES ASSUME Init PROVE LogInv OBVIOUS
<1>1. LOG_CAPACITY \in Nat /\ MAX_TERM \in Nat /\ MAX_BOOT \in Nat BY ClusterConstants
<1>2. RestOK BY <1>1 DEF Init, RestOK, Terms
<1>3. <<>> \in Seq(Entries) /\ Len(<<>>) = 0 OBVIOUS
<1>4. LogsOK BY <1>1, <1>3 DEF Init, LogsOK, LogOK, InPlace, Indices
<1>5. PeersOK BY <1>1 DEF Init, PeersOK, Indices
<1>6. MsgsOK BY DEF Init, MsgsOK
<1> QED BY <1>2, <1>4, <1>5, <1>6 DEF LogInv

\* A change of a variable at one server stays in its type.
LEMMA RestStep ==
    ASSUME LogInv, Next PROVE RestOK'
<1>1. RestOK BY DEF LogInv
<1>2. \A m \in msgs : m.src \in Servers /\ m.dst \in Servers
  BY DEF LogInv, MsgsOK, MsgOK, Messages, RequestVotes, VoteResponses, AppendEntries,
         AppendResponses
<1>3. ASSUME UNCHANGED <<powerVars, voteVars, roleVars>> PROVE RestOK'
  BY <1>1, <1>3 DEF RestOK, powerVars, voteVars, roleVars
<1>4. ASSUME NEW s \in Servers, Halt(s) PROVE RestOK'
  BY <1>1, <1>4 DEF RestOK, Halt, voteVars, roleVars
<1>5. ASSUME NEW s \in Servers, OracleTick(s) PROVE RestOK'
  <2>1. CASE TickQuiet(s) BY <1>3, <2>1 DEF TickQuiet
  <2>2. CASE TickWait(s) BY <1>1, <2>2 DEF TickWait, RestOK, powerVars, voteVars
  <2>3. CASE TickElection(s)
    <3>1. MAX_TERM \in Nat BY ClusterConstants
    <3>2. Smaller(term[s] + 1, MAX_TERM) \in Terms BY <1>1, <3>1 DEF RestOK, Terms, Smaller
    <3>3. term' = [term EXCEPT ![s] = Smaller(term[s] + 1, MAX_TERM)] BY <2>3 DEF TickElection
    <3>4. term' \in [Servers -> Terms] BY <1>1, <3>2, <3>3 DEF RestOK
    <3> QED BY <1>1, <2>3, <3>4 DEF TickElection, RestOK, powerVars
  <2>4. CASE TickLeader(s) BY <1>3, <1>4, <2>4 DEF TickLeader
  <2> QED BY <1>5, <2>1, <2>2, <2>3, <2>4 DEF OracleTick
<1>6. ASSUME NEW s \in Servers, PowerLoss(s) PROVE RestOK' BY <1>4, <1>6 DEF PowerLoss
<1>7. ASSUME NEW s \in Servers, PowerUp(s) PROVE RestOK'
  <2>1. MAX_TERM \in Nat /\ MAX_BOOT \in Nat BY ClusterConstants
  <2>2. boot[s] + 1 \in 0 .. MAX_BOOT BY <1>1, <1>7, <2>1 DEF PowerUp, RestOK
  <2>3. boot' \in [Servers -> 0 .. MAX_BOOT] BY <1>1, <1>7, <2>2 DEF PowerUp, RestOK
  <2>4. term' \in [Servers -> Terms] BY <1>1, <1>7, <2>1 DEF PowerUp, RestOK, Terms
  <2> QED BY <1>1, <1>7, <2>3, <2>4 DEF PowerUp, RestOK
<1>8. ASSUME NEW s \in Servers, NEW v \in Values, Propose(s, v) PROVE RestOK'
  BY <1>3, <1>8 DEF Propose
<1>9. ASSUME NEW m \in msgs, RecvRequestVote(m) PROVE RestOK'
  <2> DEFINE s == m.dst
  <2>1. s \in Servers /\ m.src \in Servers BY <1>2
  <2>2. /\ UNCHANGED <<up, boot, term, role, votes>>
        /\ voted' = IF Grants(s, m) THEN [voted EXCEPT ![s] = m.src] ELSE voted
        /\ leader' = IF Grants(s, m) THEN [leader EXCEPT ![s] = NoOne] ELSE leader
        /\ waited' = IF Grants(s, m) THEN [waited EXCEPT ![s] = FALSE] ELSE waited
        /\ grants' = IF Grants(s, m) THEN grants \union {Grant(s, m)} ELSE grants
    BY <1>9 DEF RecvRequestVote, powerVars, Grant
  <2>3. Grant(s, m) \in [voter : Servers, boot : 0 .. MAX_BOOT, term : Terms,
                         candidate : Servers]
    BY <1>1, <2>1 DEF RestOK, Grant
  <2>4. grants' \subseteq [voter : Servers, boot : 0 .. MAX_BOOT, term : Terms,
                          candidate : Servers]
    BY <1>1, <2>2, <2>3 DEF RestOK
  <2> HIDE DEF s
  <2> QED BY <1>1, <2>1, <2>2, <2>4 DEF RestOK
<1>10. ASSUME NEW m \in msgs, RecvVoteResponse(m) PROVE RestOK'
  <2> DEFINE s == m.dst
  <2>1. s \in Servers /\ m.src \in Servers BY <1>2
  <2>2. /\ UNCHANGED <<up, boot, term, voted, grants>>
        /\ votes' = votes \/ votes' = [votes EXCEPT ![s] = votes[s] \union {m.src}]
        /\ role' = role \/ role' = [role EXCEPT ![s] = "leader"]
        /\ leader' = leader \/ leader' = [leader EXCEPT ![s] = s]
        /\ waited' = waited \/ waited' = [waited EXCEPT ![s] = FALSE]
    BY <1>10 DEF RecvVoteResponse, powerVars, voteVars
  <2> HIDE DEF s
  <2>3. votes' \in [Servers -> SUBSET Servers] BY <1>1, <2>1, <2>2 DEF RestOK
  <2>4. role' \in [Servers -> {"follower", "candidate", "leader"}] BY <1>1, <2>1, <2>2 DEF RestOK
  <2>5. leader' \in [Servers -> Servers \union {NoOne}] BY <1>1, <2>1, <2>2 DEF RestOK
  <2>6. waited' \in [Servers -> BOOLEAN] BY <1>1, <2>1, <2>2 DEF RestOK
  <2> QED BY <1>1, <2>2, <2>3, <2>4, <2>5, <2>6 DEF RestOK
<1>11. ASSUME NEW m \in msgs, RecvAppendEntries(m) PROVE RestOK'
  <2> DEFINE s == m.dst
  <2>1. s \in Servers /\ m.src \in Servers BY <1>2
  <2>2. /\ UNCHANGED <<up, boot, term, voted, grants, votes>>
        /\ role' = role \/ role' = [role EXCEPT ![s] = "follower"]
        /\ leader' = [leader EXCEPT ![s] = m.src]
        /\ waited' = [waited EXCEPT ![s] = FALSE]
    BY <1>11 DEF RecvAppendEntries, powerVars, voteVars
  <2> HIDE DEF s
  <2> QED BY <1>1, <2>1, <2>2 DEF RestOK
<1>12. ASSUME NEW m \in msgs, RecvAppendResponse(m) PROVE RestOK'
  BY <1>2, <1>3, <1>4, <1>12 DEF RecvAppendResponse, Refused, Accepted
<1>13. ASSUME NEW m \in msgs, Lose(m) PROVE RestOK' BY <1>3, <1>13 DEF Lose
<1> QED BY <1>5, <1>6, <1>7, <1>8, <1>9, <1>10, <1>11, <1>12, <1>13 DEF Next, Dispatch

-----------------------------------------------------------------------------
(* Logs *)

\* The body of CommittedStays.
CommitKept ==
    \A s \in Servers :
        up'[s] /\ boot'[s] = boot[s] =>
            commit'[s] >= commit[s] /\ Keeps(log[s], commit[s], log'[s])

\* A log keeps what it has.
LEMMA KeepsSelf ==
    ASSUME LogsOK, NEW s \in Servers
    PROVE  Keeps(log[s], commit[s], log[s]) /\ commit[s] >= commit[s]
BY ClusterConstants DEF LogsOK, LogOK, Keeps, Indices

\* Steps that leave all logs alone.
LEMMA SameLogs ==
    ASSUME LogsOK, UNCHANGED <<log, commit, applied, proposed>>
    PROVE  LogsOK' /\ CommitKept /\ proposed \subseteq proposed'
<1>1. LogsOK' BY DEF LogsOK
<1>2. CommitKept BY KeepsSelf DEF CommitKept
<1> QED BY <1>1, <1>2

\* Steps that change the log of one server.
LEMMA OneLog ==
    ASSUME LogsOK, NEW s \in Servers, NEW lg, NEW ci, NEW ap,
           log' = [log EXCEPT ![s] = lg], commit' = [commit EXCEPT ![s] = ci],
           applied' = [applied EXCEPT ![s] = ap],
           proposed \subseteq proposed', proposed' \subseteq [idx : Indices, entry : Entries],
           LogOK(lg, ci, ap), InPlace(lg, proposed'),
           up'[s] /\ boot'[s] = boot[s] => ci >= commit[s] /\ Keeps(log[s], commit[s], lg)
    PROVE  LogsOK' /\ CommitKept
<1>1. log' \in [Servers -> Seq(Entries)] BY DEF LogsOK, LogOK
<1>2. commit' \in [Servers -> Indices] /\ applied' \in [Servers -> Indices] BY DEF LogsOK, LogOK
<1>3. \A t \in Servers : IF t = s THEN log'[t] = lg /\ commit'[t] = ci /\ applied'[t] = ap
                         ELSE /\ log'[t] = log[t] /\ commit'[t] = commit[t]
                              /\ applied'[t] = applied[t]
  BY DEF LogsOK
<1>4. ASSUME NEW t \in Servers
      PROVE  LogOK(log'[t], commit'[t], applied'[t]) /\ InPlace(log'[t], proposed')
  <2>1. CASE t = s BY <1>3, <2>1
  <2>2. CASE t # s
    <3>1. LogOK(log[t], commit[t], applied[t]) /\ InPlace(log[t], proposed) BY DEF LogsOK
    <3>2. InPlace(log[t], proposed') BY <3>1 DEF InPlace
    <3> QED BY <1>3, <2>2, <3>1, <3>2
  <2> QED BY <2>1, <2>2
<1>5. LogsOK' BY <1>1, <1>2, <1>4 DEF LogsOK
<1>6. CommitKept BY <1>3, KeepsSelf DEF CommitKept
<1> QED BY <1>5, <1>6

\* raft_apply_all() does not touch the log.
LEMMA ApplyLogs ==
    ASSUME LogsOK, NEW s \in Servers, ApplyAll(s), UNCHANGED <<log, commit, proposed>>
    PROVE  LogsOK' /\ CommitKept /\ proposed \subseteq proposed'
<1>1. log' = [log EXCEPT ![s] = log[s]] /\ commit' = [commit EXCEPT ![s] = commit[s]]
  BY DEF LogsOK
<1>2. applied' = [applied EXCEPT ![s] = commit[s]] BY DEF ApplyAll
<1>3. LogOK(log[s], commit[s], commit[s]) /\ InPlace(log[s], proposed)
  BY ClusterConstants DEF LogsOK, LogOK, Indices
<1>4. proposed \subseteq proposed' /\ proposed' \subseteq [idx : Indices, entry : Entries]
  BY DEF LogsOK
<1>5. InPlace(log[s], proposed') BY <1>3
<1>6. commit[s] >= commit[s] /\ Keeps(log[s], commit[s], log[s]) BY KeepsSelf
<1> QED BY <1>1, <1>2, <1>3, <1>4, <1>5, <1>6, OneLog

\* A proposal extends the leader's log.
LEMMA ProposeLogs ==
    ASSUME LogInv, NEW s \in Servers, NEW v \in Values, Propose(s, v)
    PROVE  LogsOK' /\ CommitKept /\ proposed \subseteq proposed'
<1> DEFINE e == [term |-> term[s], value |-> v]
<1> DEFINE lg == Append(log[s], e)
<1>1. LogsOK BY DEF LogInv
<1>2. e \in Entries BY DEF LogInv, RestOK, Entries
<1>3. /\ log' = [log EXCEPT ![s] = lg] /\ Len(log[s]) < LOG_CAPACITY
      /\ proposed' = proposed \union {[idx |-> Len(lg), entry |-> e]}
      /\ UNCHANGED <<commit, applied>>
  BY DEF Propose
<1>4. log[s] \in Seq(Entries) /\ Len(log[s]) \in Nat /\ LOG_CAPACITY \in Nat
  BY <1>1, ClusterConstants DEF LogsOK
<1> HIDE DEF e
<1>5. Len(lg) = Len(log[s]) + 1 BY <1>2, <1>4
<1>6. LogOK(log[s], commit[s], applied[s]) /\ InPlace(log[s], proposed') /\
      [idx |-> Len(log[s]) + 1, entry |-> e] \in proposed'
  BY <1>1, <1>3, <1>5 DEF LogsOK, InPlace
<1>7. LogOK(lg, commit[s], applied[s]) /\ InPlace(lg, proposed') /\ Keeps(log[s], commit[s], lg)
  BY <1>2, <1>3, <1>6, AppendOK
<1>8. proposed' \subseteq [idx : Indices, entry : Entries]
  <2>1. Len(lg) \in Indices BY <1>3, <1>4, <1>5 DEF Indices
  <2> QED BY <1>1, <1>2, <1>3, <2>1 DEF LogsOK
<1>9. commit' = [commit EXCEPT ![s] = commit[s]] /\ applied' = [applied EXCEPT ![s] = applied[s]]
  BY <1>1, <1>3 DEF LogsOK
<1> HIDE DEF lg
<1> QED BY <1>1, <1>3, <1>7, <1>8, <1>9, OneLog, KeepsSelf

\* An append leaves the committed entries of its receiver alone.
LEMMA RecvAppendEntriesLogs ==
    ASSUME LogInv, NEW m \in msgs, m.type = "AppendEntries", RecvAppendEntries(m)
    PROVE  LogsOK' /\ CommitKept /\ proposed \subseteq proposed'
<1> DEFINE s == m.dst
<1> DEFINE lg0 == log[s]
<1> DEFINE ci0 == commit[s]
<1>1. LogsOK /\ s \in Servers
  BY DEF LogInv, MsgsOK, MsgOK, Messages, RequestVotes, VoteResponses, AppendEntries,
         AppendResponses
<1>2. AppendMsgOK(m, proposed) BY DEF LogInv, MsgsOK, MsgOK
<1>3. LogOK(lg0, ci0, applied[s]) /\ InPlace(lg0, proposed) BY <1>1 DEF LogsOK
<1>4. UNCHANGED <<applied, proposed>> BY DEF RecvAppendEntries
<1>5. /\ applied' = [applied EXCEPT ![s] = applied[s]]
      /\ commit = [commit EXCEPT ![s] = ci0]
      /\ proposed \subseteq proposed' /\ proposed' \subseteq [idx : Indices, entry : Entries]
  BY <1>1, <1>4 DEF LogsOK
<1>6. /\ ci0 >= ci0
      /\ Len(lg0) \in Nat /\ ci0 \in Nat /\ ci0 <= Len(lg0) /\ m.prev_log_idx \in Nat
      /\ m.leader_commit \in Nat /\ Len(lg0) <= LOG_CAPACITY /\ LOG_CAPACITY \in Nat
  BY <1>2, <1>3, ClusterConstants DEF LogOK, AppendMsgOK, Indices
<1>7. CASE Mismatch(m)
  <2> DEFINE lg == IF m.prev_log_idx <= Len(lg0) THEN CutTo(lg0, m.prev_log_idx - 1, ci0) ELSE lg0
  <2>1. log' = [log EXCEPT ![s] = lg] /\ commit' = commit BY <1>7 DEF Mismatch
  <2>2. LogOK(lg, ci0, applied[s]) /\ InPlace(lg, proposed) /\ Keeps(lg0, ci0, lg)
    <3>1. CASE m.prev_log_idx <= Len(lg0)
      <4>1. m.prev_log_idx - 1 \in Int /\ m.prev_log_idx - 1 <= Len(lg0) BY <1>6, <3>1
      <4> QED BY <1>3, <3>1, <4>1, CutToOK
    <3>2. CASE ~(m.prev_log_idx <= Len(lg0)) BY <1>1, <1>3, <3>2, KeepsSelf
    <3> QED BY <3>1, <3>2
  <2>3. InPlace(lg, proposed') /\ commit' = [commit EXCEPT ![s] = ci0]
    BY <1>4, <1>5, <2>1, <2>2
  <2> HIDE DEF lg, s
  <2> QED BY <1>1, <1>5, <1>6, <2>1, <2>2, <2>3, OneLog
<1>8. CASE PrevMatches(lg0, m) /\ Fits(m)
  <2> DEFINE lg == Merged(lg0, m, ci0)
  <2> DEFINE ci == IF ~Shutdown(lg0, m, ci0) /\ ci0 < m.leader_commit
                   THEN Smaller(Larger(Len(lg), 1), m.leader_commit) ELSE ci0
  <2>1. log' = [log EXCEPT ![s] = lg] BY <1>8 DEF Fits
  <2>2. commit' = [commit EXCEPT ![s] = ci] BY <1>5, <1>8 DEF Fits
  <2>3. /\ LogOK(lg, ci0, applied[s]) /\ InPlace(lg, proposed) /\ Keeps(lg0, ci0, lg)
        /\ ~Shutdown(lg0, m, ci0) /\ m.leader_commit > 0 => Len(lg) > 0
    BY <1>2, <1>3, <1>8, MergedOK
  <2> HIDE DEF lg
  <2>4. Len(lg) \in Nat /\ Len(lg) <= LOG_CAPACITY /\ ci0 <= Len(lg) /\ lg \in Seq(Entries)
    BY <2>3 DEF LogOK
  <2>5. ci \in Nat /\ ci >= ci0 /\ ci <= Len(lg)
    BY <1>6, <2>3, <2>4 DEF Smaller, Larger
  <2> HIDE DEF ci
  <2>6. LogOK(lg, ci, applied[s])
    BY <1>6, <2>3, <2>4, <2>5 DEF LogOK, Indices
  <2>7. InPlace(lg, proposed') BY <1>4, <2>3
  <2> HIDE DEF s
  <2> QED BY <1>1, <1>5, <2>1, <2>2, <2>3, <2>5, <2>6, <2>7, OneLog
<1>9. CASE PrevMatches(lg0, m) /\ NoMemory(m)
  <2> DEFINE lg == SubSeq(lg0, 1, m.prev_log_idx)
  <2>1. log' = [log EXCEPT ![s] = lg] /\ commit' = commit BY <1>9 DEF NoMemory
  <2>2. ~Shutdown(lg0, m, ci0) /\ (m.prev_log_idx < Len(lg0) => Conflict(lg0, m))
    BY <1>9 DEF NoMemory
  <2>3. LogOK(lg, ci0, applied[s]) /\ InPlace(lg, proposed) /\ Keeps(lg0, ci0, lg)
    BY <1>2, <1>3, <1>9, <2>2, NoMemoryOK
  <2>4. InPlace(lg, proposed') /\ commit' = [commit EXCEPT ![s] = ci0]
    BY <1>4, <1>5, <2>1, <2>3
  <2> HIDE DEF lg, s
  <2> QED BY <1>1, <1>5, <1>6, <2>1, <2>3, <2>4, OneLog
<1> QED BY <1>7, <1>8, <1>9 DEF RecvAppendEntries

\* A leader commits an index within its log, and never a lower one.
LEMMA AcceptedLogs ==
    ASSUME LogInv, NEW m \in msgs, m.type = "AppendResponse", Accepted(m)
    PROVE  LogsOK' /\ CommitKept /\ proposed \subseteq proposed'
<1> DEFINE s == m.dst
<1>1. LogsOK /\ s \in Servers /\ m.current_idx \in Indices
  BY DEF LogInv, MsgsOK, MsgOK, Messages, RequestVotes, VoteResponses, AppendEntries,
         AppendResponses
<1>2. CASE UNCHANGED <<log, commit, applied, proposed>> BY <1>1, <1>2, SameLogs
<1>3. CASE /\ commit' = [commit EXCEPT ![s] = m.current_idx]
           /\ commit[s] < m.current_idx /\ m.current_idx <= Len(log[s])
           /\ UNCHANGED <<log, applied, proposed>>
  <2>1. LogOK(log[s], commit[s], applied[s]) /\ InPlace(log[s], proposed) BY <1>1 DEF LogsOK
  <2>2. LogOK(log[s], m.current_idx, applied[s])
    BY <1>1, <1>3, <2>1, ClusterConstants DEF LogOK, Indices
  <2>3. log' = [log EXCEPT ![s] = log[s]] /\ applied' = [applied EXCEPT ![s] = applied[s]]
    BY <1>1, <1>3 DEF LogsOK
  <2>4. m.current_idx >= commit[s] BY <1>1, <1>3, <2>1, ClusterConstants DEF LogOK, Indices
  <2>5. /\ proposed \subseteq proposed' /\ proposed' \subseteq [idx : Indices, entry : Entries]
        /\ InPlace(log[s], proposed')
    BY <1>1, <1>3, <2>1 DEF LogsOK
  <2>6. Keeps(log[s], commit[s], log[s]) BY <1>1, KeepsSelf
  <2> HIDE DEF s
  <2> QED BY <1>1, <1>3, <2>1, <2>2, <2>3, <2>4, <2>5, <2>6, OneLog
<1> QED BY <1>2, <1>3 DEF Accepted, Halt, logVars

\* A server that comes back has an empty log.
LEMMA PowerUpLogs ==
    ASSUME LogInv, NEW s \in Servers, PowerUp(s)
    PROVE  LogsOK' /\ CommitKept /\ proposed \subseteq proposed'
<1>1. LogsOK BY DEF LogInv
<1>2. LogOK(<<>>, 0, 0) /\ InPlace(<<>>, proposed)
  BY ClusterConstants DEF LogOK, InPlace, Indices
<1>3. ~(boot'[s] = boot[s]) BY DEF PowerUp, LogInv, RestOK
<1>4. /\ log' = [log EXCEPT ![s] = <<>>] /\ commit' = [commit EXCEPT ![s] = 0]
      /\ applied' = [applied EXCEPT ![s] = 0] /\ proposed' = proposed
  BY DEF PowerUp
<1>5. proposed \subseteq [idx : Indices, entry : Entries] BY <1>1 DEF LogsOK
<1> QED BY <1>1, <1>2, <1>3, <1>4, <1>5, OneLog

\* Every step keeps the logs in order, and their committed entries.
LEMMA LogsStep ==
    ASSUME LogInv, Next PROVE LogsOK' /\ CommitKept /\ proposed \subseteq proposed'
<1> DEFINE Goal == LogsOK' /\ CommitKept /\ proposed \subseteq proposed'
<1>1. LogsOK BY DEF LogInv
<1>2. ASSUME UNCHANGED <<logVars, proposed>> PROVE Goal BY <1>1, <1>2, SameLogs DEF logVars
<1>3. ASSUME NEW s \in Servers, Halt(s) PROVE Goal BY <1>2, <1>3 DEF Halt
<1>4. ASSUME NEW s \in Servers, OracleTick(s) PROVE Goal
  <2>1. \/ Halt(s)
        \/ ApplyAll(s) /\ UNCHANGED <<log, commit, proposed>>
    BY <1>4 DEF OracleTick, TickQuiet, TickWait, TickElection, TickLeader
  <2> QED BY <1>1, <1>3, <2>1, ApplyLogs
<1>5. ASSUME NEW m \in msgs, Dispatch(m) \/ Lose(m) PROVE Goal
  <2>1. m.dst \in Servers
    BY DEF LogInv, MsgsOK, MsgOK, Messages, RequestVotes, VoteResponses, AppendEntries,
           AppendResponses
  <2>2. CASE RecvRequestVote(m) \/ RecvVoteResponse(m) \/ Lose(m)
    BY <1>2, <2>2 DEF RecvRequestVote, RecvVoteResponse, Lose
  <2>3. CASE m.type = "AppendEntries" /\ RecvAppendEntries(m) BY <2>3, RecvAppendEntriesLogs
  <2>4. CASE m.type = "AppendResponse" /\ RecvAppendResponse(m)
    BY <1>2, <1>3, <2>1, <2>4, AcceptedLogs DEF RecvAppendResponse, Refused
  <2> QED BY <1>5, <2>2, <2>3, <2>4 DEF Dispatch
<1> HIDE DEF Goal
<1>6. ASSUME NEW s \in Servers, PowerLoss(s) \/ PowerUp(s) \/ \E v \in Values : Propose(s, v)
      PROVE  Goal
  BY <1>3, <1>6, PowerUpLogs, ProposeLogs DEF PowerLoss, Goal
<1>7. Goal BY <1>4, <1>5, <1>6 DEF Next
<1> QED BY <1>7 DEF Goal

-----------------------------------------------------------------------------
(* Peers *)

\* A change of one peer's indices.
LEMMA OnePeer ==
    ASSUME PeersOK, NEW s \in Servers, NEW q \in Servers,
           NEW nx \in 1 .. LOG_CAPACITY + 1, NEW mt \in Indices, mt = 0 \/ mt = nx - 1,
           next' = [next EXCEPT ![s][q] = nx], match' = [match EXCEPT ![s][q] = mt]
    PROVE  PeersOK'
<1>1. next' \in [Servers -> [Servers -> 1 .. LOG_CAPACITY + 1]] BY DEF PeersOK
<1>2. match' \in [Servers -> [Servers -> Indices]] BY DEF PeersOK
<1>3. \A t, p \in Servers :
         /\ next'[t][p] = IF t = s /\ p = q THEN nx ELSE next[t][p]
         /\ match'[t][p] = IF t = s /\ p = q THEN mt ELSE match[t][p]
  BY DEF PeersOK
<1>4. \A t, p \in Servers : match'[t][p] = 0 \/ match'[t][p] = next'[t][p] - 1
  BY <1>3 DEF PeersOK
<1> QED BY <1>1, <1>2, <1>4 DEF PeersOK

\* All peers of one server start over.
LEMMA NewPeers ==
    ASSUME PeersOK, NEW s \in Servers, NEW nx \in 1 .. LOG_CAPACITY + 1,
           next' = [next EXCEPT ![s] = [p \in Servers |-> nx]],
           match' = [match EXCEPT ![s] = [p \in Servers |-> 0]]
    PROVE  PeersOK'
<1>1. [p \in Servers |-> nx] \in [Servers -> 1 .. LOG_CAPACITY + 1] OBVIOUS
<1>2. [p \in Servers |-> 0] \in [Servers -> Indices] BY ClusterConstants DEF Indices
<1>3. next' \in [Servers -> [Servers -> 1 .. LOG_CAPACITY + 1]] BY <1>1 DEF PeersOK
<1>4. match' \in [Servers -> [Servers -> Indices]] BY <1>2 DEF PeersOK
<1>5. \A t, p \in Servers : match'[t][p] = 0 \/ match'[t][p] = next'[t][p] - 1
  BY DEF PeersOK
<1> QED BY <1>3, <1>4, <1>5 DEF PeersOK

\* A refusal backs up only while the peer has confirmed nothing, so never
\* below the first entry.
LEMMA BackedOK ==
    ASSUME LogInv, NEW m \in msgs, m.type = "AppendResponse",
           match[m.dst][m.src] # next[m.dst][m.src] - 1
    PROVE  Backed(m.dst, m) \in 1 .. LOG_CAPACITY + 1 /\ match[m.dst][m.src] = 0
<1> DEFINE s == m.dst
<1>1. s \in Servers /\ m.src \in Servers /\ m.current_idx \in Indices
  BY DEF LogInv, MsgsOK, MsgOK, Messages, RequestVotes, VoteResponses, AppendEntries,
         AppendResponses
<1>2. next[s][m.src] \in 1 .. LOG_CAPACITY + 1 /\ match[s][m.src] = 0
  BY <1>1 DEF LogInv, PeersOK
<1>3. next[s][m.src] # 1 BY <1>2
<1>4. Len(log[s]) \in Nat /\ Len(log[s]) <= LOG_CAPACITY /\ LOG_CAPACITY \in Nat
  BY <1>1, ClusterConstants DEF LogInv, LogsOK, LogOK
<1> QED BY <1>1, <1>2, <1>3, <1>4 DEF Backed, Larger, Smaller, Indices

\* Every step keeps next_idx and match_idx in range and in step.
LEMMA PeersStep ==
    ASSUME LogInv, Next PROVE PeersOK'
<1>1. PeersOK BY DEF LogInv
<1>2. LOG_CAPACITY \in Nat /\ \A t \in Servers : Len(log[t]) \in Nat /\ Len(log[t]) <= LOG_CAPACITY
  BY ClusterConstants DEF LogInv, LogsOK, LogOK
<1>3. ASSUME UNCHANGED peerVars PROVE PeersOK' BY <1>1, <1>3 DEF PeersOK, peerVars
<1>4. ASSUME NEW s \in Servers, Halt(s) PROVE PeersOK' BY <1>3, <1>4 DEF Halt
<1>5. ASSUME NEW s \in Servers, OracleTick(s) \/ PowerLoss(s) \/ \E v \in Values : Propose(s, v)
      PROVE  PeersOK'
  BY <1>3, <1>4, <1>5 DEF OracleTick, TickQuiet, TickWait, TickElection, TickLeader, PowerLoss,
     Propose
<1>6. ASSUME NEW s \in Servers, PowerUp(s) PROVE PeersOK'
  <2>1. 1 \in 1 .. LOG_CAPACITY + 1 BY <1>2
  <2> QED BY <1>1, <1>6, <2>1, NewPeers DEF PowerUp
<1>7. ASSUME NEW m \in msgs, Dispatch(m) \/ Lose(m) PROVE PeersOK'
  <2> DEFINE s == m.dst
  <2>1. s \in Servers /\ m.src \in Servers
    BY DEF LogInv, MsgsOK, MsgOK, Messages, RequestVotes, VoteResponses, AppendEntries,
           AppendResponses
  <2>2. CASE RecvRequestVote(m) \/ RecvAppendEntries(m) \/ Lose(m)
    BY <1>3, <2>2 DEF RecvRequestVote, RecvAppendEntries, Lose
  <2>3. CASE RecvVoteResponse(m)
    <3>1. \/ UNCHANGED peerVars
          \/ /\ next' = [next EXCEPT ![s] = [p \in Servers |-> Len(log[s]) + 1]]
             /\ match' = [match EXCEPT ![s] = [p \in Servers |-> 0]]
      BY <2>3 DEF RecvVoteResponse, peerVars
    <3>2. Len(log[s]) + 1 \in 1 .. LOG_CAPACITY + 1 BY <1>2, <2>1
    <3> QED BY <1>1, <1>3, <2>1, <3>1, <3>2, NewPeers
  <2>4. CASE m.type = "AppendResponse" /\ Refused(m)
    <3>1. CASE match[s][m.src] # next[s][m.src] - 1 /\ ~Halt(s)
      <4>1. /\ next' = [next EXCEPT ![s][m.src] = Backed(s, m)] /\ match' = match
        BY <2>4, <3>1 DEF Refused
      <4>2. Backed(s, m) \in 1 .. LOG_CAPACITY + 1 /\ match[s][m.src] = 0
        BY <2>4, <3>1, BackedOK
      <4>3. match' = [match EXCEPT ![s][m.src] = 0]
        BY <1>1, <2>1, <4>1, <4>2 DEF PeersOK
      <4>4. 0 \in Indices BY <1>2 DEF Indices
      <4> QED BY <1>1, <2>1, <4>1, <4>2, <4>3, <4>4, OnePeer
    <3>2. CASE match[s][m.src] = next[s][m.src] - 1 BY <1>3, <2>4, <3>2 DEF Refused
    <3> QED BY <1>4, <2>1, <3>1, <3>2
  <2>5. CASE m.type = "AppendResponse" /\ Accepted(m)
    <3>1. \/ UNCHANGED peerVars
          \/ /\ m.current_idx <= Len(log[s])
             /\ match' = [match EXCEPT ![s] = [match[s] EXCEPT ![m.src] = m.current_idx]]
             /\ next' = [next EXCEPT ![s][m.src] = m.current_idx + 1]
      BY <2>5 DEF Accepted, Halt
    <3>2. CASE /\ m.current_idx <= Len(log[s])
               /\ match' = [match EXCEPT ![s] = [match[s] EXCEPT ![m.src] = m.current_idx]]
               /\ next' = [next EXCEPT ![s][m.src] = m.current_idx + 1]
      <4>1. m.current_idx \in Indices
        BY <2>5 DEF LogInv, MsgsOK, MsgOK, Messages, RequestVotes, VoteResponses, AppendEntries,
                    AppendResponses
      <4>2. /\ m.current_idx + 1 \in 1 .. LOG_CAPACITY + 1
            /\ m.current_idx = (m.current_idx + 1) - 1
        BY <1>2, <4>1 DEF Indices
      <4>3. match' = [match EXCEPT ![s][m.src] = m.current_idx]
        BY <1>1, <2>1, <3>2 DEF PeersOK
      <4> QED BY <1>1, <2>1, <3>2, <4>1, <4>2, <4>3, OnePeer
    <3> QED BY <1>3, <3>1, <3>2
  <2>6. CASE m.type = "AppendResponse" /\ RecvAppendResponse(m)
    BY <1>3, <2>4, <2>5, <2>6 DEF RecvAppendResponse
  <2> QED BY <1>7, <2>2, <2>3, <2>6 DEF Dispatch
<1> QED BY <1>5, <1>6, <1>7 DEF Next

-----------------------------------------------------------------------------
(* Datagrams *)

\* A datagram stays valid while entries are proposed.
LEMMA MsgsStay ==
    ASSUME MsgsOK, proposed \subseteq proposed', NEW m \in msgs
    PROVE  MsgOK(m, proposed')
BY DEF MsgsOK, MsgOK, AppendMsgOK

\* An append as cb_send_appendentries() builds it.
LEMMA AppendIsMsg ==
    ASSUME NEW s \in Servers, NEW p \in Servers, NEW lg, NEW ci, NEW ap, NEW pr,
           LogOK(lg, ci, ap), InPlace(lg, pr), NEW nx \in Nat, 1 <= nx, nx <= Len(lg) + 1
    PROVE  MsgOK(cb_send_appendentries(s, p, lg, nx, ci), pr)
<1> DEFINE m == cb_send_appendentries(s, p, lg, nx, ci)
<1>1. AppendMsgOK(m, pr) BY SentAppendOK
<1>2. m = [type |-> "AppendEntries", src |-> s, dst |-> p, prev_log_idx |-> m.prev_log_idx,
           prev_log_term |-> m.prev_log_term, leader_commit |-> m.leader_commit,
           entries |-> m.entries]
  BY DEF cb_send_appendentries
<1> HIDE DEF m
<1>3. m.entries \in {<<>>} \union {<<e>> : e \in Entries} BY <1>1 DEF AppendMsgOK
<1>4. m.prev_log_idx \in Indices /\ m.prev_log_term \in Terms /\ m.leader_commit \in Indices
  BY <1>1 DEF AppendMsgOK
<1>5. m \in AppendEntries BY <1>2, <1>3, <1>4 DEF AppendEntries
<1> QED BY <1>1, <1>5 DEF MsgOK, Messages, m

\* What a server sends to its peers.
LEMMA SentMsgs ==
    ASSUME LogInv, LogsOK', proposed \subseteq proposed', Next,
           NEW s \in Servers, OracleTick(s) \/ \E v \in Values : Propose(s, v)
    PROVE  MsgsOK'
<1>1. MsgsOK /\ PeersOK /\ LogsOK BY DEF LogInv
<1>2. \A t \in Servers : Len(log[t]) \in Nat /\ LogOK(log[t], commit[t], applied[t])
                         /\ InPlace(log[t], proposed) /\ InPlace(log[t], proposed')
  BY <1>1 DEF LogsOK, InPlace
<1>3. ASSUME NEW A, \A a \in A : MsgOK(a, proposed'), \A x \in msgs' : x \in msgs \/ x \in A
      PROVE  MsgsOK'
  BY <1>1, <1>3, MsgsStay DEF MsgsOK
<1>4. CASE UNCHANGED msgs BY <1>1, <1>4, MsgsStay DEF MsgsOK
<1>5. CASE Halt(s)
  <2>1. \A x \in msgs' : x \in msgs BY <1>5 DEF Halt
  <2> QED BY <1>1, <2>1, MsgsStay DEF MsgsOK
<1>6. CASE TickElection(s)
  <2> DEFINE A == {cb_send_requestvote(s, p) : p \in Servers \ {s}}
  <2>1. Send(A) BY <1>6 DEF TickElection
  <2>2. \A x \in msgs' : x \in msgs \/ x \in A BY <2>1, SendAdds
  <2>3. TermAt(log[s], Len(log[s])) \in Terms /\ Len(log[s]) \in Indices
    <3>1. Len(log[s]) \in Indices
      BY <1>2, ClusterConstants DEF LogOK, Indices
    <3>2. CASE Len(log[s]) = 0 BY <3>1, <3>2, ClusterConstants DEF TermAt, Terms
    <3>3. CASE Len(log[s]) # 0
      <4>1. log[s] \in Seq(Entries) /\ Len(log[s]) \in 1 .. Len(log[s])
        BY <1>2, <3>3 DEF LogOK
      <4>2. log[s][Len(log[s])] \in Entries BY <4>1
      <4> QED BY <3>1, <3>3, <4>2 DEF TermAt, Entries
    <3> QED BY <3>1, <3>2, <3>3
  <2>4. ASSUME NEW p \in Servers PROVE MsgOK(cb_send_requestvote(s, p), proposed')
    <3>1. cb_send_requestvote(s, p) \in RequestVotes
      BY <2>3 DEF cb_send_requestvote, RequestVotes
    <3>2. cb_send_requestvote(s, p).type = "RequestVote" BY DEF cb_send_requestvote
    <3> QED BY <3>1, <3>2 DEF MsgOK, Messages
  <2>5. \A a \in A : MsgOK(a, proposed') BY <2>4
  <2> HIDE DEF A
  <2> QED BY <1>3, <2>2, <2>5
<1>7. CASE TickLeader(s) /\ ~Halt(s)
  <2> DEFINE A == {cb_send_appendentries(s, p, log[s], next[s][p], commit[s]) :
                     p \in Servers \ {s}}
  <2>1. Send(A) /\ \A p \in Servers \ {s} : Sendable(log[s], next[s][p])
    BY <1>7 DEF TickLeader
  <2>2. \A x \in msgs' : x \in msgs \/ x \in A BY <2>1, SendAdds
  <2>3. ASSUME NEW p \in Servers \ {s}
        PROVE  MsgOK(cb_send_appendentries(s, p, log[s], next[s][p], commit[s]), proposed')
    <3>1. next[s][p] \in Nat /\ 1 <= next[s][p] /\ next[s][p] <= Len(log[s]) + 1
      BY <1>1, <1>2, <2>1, ClusterConstants DEF Sendable, PeersOK
    <3> QED BY <1>2, <3>1, AppendIsMsg
  <2>4. \A a \in A : MsgOK(a, proposed') BY <2>3
  <2> HIDE DEF A
  <2> QED BY <1>3, <2>2, <2>4
<1>8. ASSUME NEW v \in Values, Propose(s, v) PROVE MsgsOK'
  <2> DEFINE e == [term |-> term[s], value |-> v]
  <2> DEFINE lg == Append(log[s], e)
  <2> DEFINE A == {cb_send_appendentries(s, p, lg, next[s][p], commit[s]) :
                     p \in {q \in Servers \ {s} : next[s][q] = Len(lg)}}
  <2>1. Send(A) /\ log' = [log EXCEPT ![s] = lg] /\ UNCHANGED <<commit, applied>>
    BY <1>8 DEF Propose
  <2>2. \A x \in msgs' : x \in msgs \/ x \in A BY <2>1, SendAdds
  <2>3. log'[s] = lg BY <1>1, <2>1 DEF LogsOK
  <2> HIDE DEF lg
  <2>4. LogOK(lg, commit[s], applied[s]) /\ InPlace(lg, proposed')
    BY <2>1, <2>3 DEF LogsOK
  <2>5. Len(lg) \in Nat BY <2>4 DEF LogOK
  <2>6. ASSUME NEW p \in Servers \ {s}, next[s][p] = Len(lg)
        PROVE  MsgOK(cb_send_appendentries(s, p, lg, next[s][p], commit[s]), proposed')
    <3>1. next[s][p] \in Nat /\ 1 <= next[s][p] /\ next[s][p] <= Len(lg) + 1
      BY <1>1, <2>5, <2>6, ClusterConstants DEF PeersOK
    <3> QED BY <2>4, <3>1, AppendIsMsg
  <2>7. \A a \in A : MsgOK(a, proposed') BY <2>6
  <2> HIDE DEF A
  <2> QED BY <1>3, <2>2, <2>7
<1>9. CASE TickQuiet(s) \/ TickWait(s) BY <1>4, <1>9 DEF TickQuiet, TickWait
<1> QED BY <1>5, <1>6, <1>7, <1>8, <1>9 DEF OracleTick

\* What a server answers.
LEMMA AnsweredMsgs ==
    ASSUME LogInv, LogsOK', proposed \subseteq proposed', NEW m \in msgs, Dispatch(m)
    PROVE  MsgsOK'
<1> DEFINE s == m.dst
<1>1. MsgsOK /\ PeersOK /\ LogsOK BY DEF LogInv
<1>2. s \in Servers /\ m.src \in Servers
  BY DEF LogInv, MsgsOK, MsgOK, Messages, RequestVotes, VoteResponses, AppendEntries,
         AppendResponses
<1>3. Len(log[s]) \in Nat /\ LogOK(log[s], commit[s], applied[s]) /\ InPlace(log[s], proposed')
  BY <1>1, <1>2 DEF LogsOK, InPlace
<1>4. ASSUME NEW A, \A a \in A : MsgOK(a, proposed'), InFlight(m, A) PROVE MsgsOK'
  <2>1. \A x \in msgs' : x \in msgs \/ x \in A BY <1>4, InFlightAdds
  <2> QED BY <1>1, <1>4, <2>1, MsgsStay DEF MsgsOK
<1>5. CASE Halt(s)
  <2>1. \A x \in msgs' : x \in msgs BY <1>5 DEF Halt
  <2> QED BY <1>1, <2>1, MsgsStay DEF MsgsOK
<1>6. CASE InFlight(m, {})
  <2>1. \A a \in {} : MsgOK(a, proposed') OBVIOUS
  <2> QED BY <1>4, <1>6, <2>1
<1>7. ASSUME NEW nx \in Nat, 1 <= nx, nx <= Len(log'[s]) + 1,
             InFlight(m, {cb_send_appendentries(s, m.src, log'[s], nx, commit'[s])})
      PROVE  MsgsOK'
  <2>1. LogOK(log'[s], commit'[s], applied'[s]) /\ InPlace(log'[s], proposed')
    BY <1>2 DEF LogsOK
  <2>2. MsgOK(cb_send_appendentries(s, m.src, log'[s], nx, commit'[s]), proposed')
    BY <1>2, <1>7, <2>1, AppendIsMsg
  <2> QED BY <1>4, <1>7, <2>2
<1>8. CASE m.type = "RequestVote" /\ RecvRequestVote(m)
  <2> DEFINE a == [type |-> "VoteResponse", src |-> s, dst |-> m.src,
                   vote_granted |-> Grants(s, m)]
  <2>1. InFlight(m, {a}) BY <1>8 DEF RecvRequestVote
  <2>2. Grants(s, m) \in BOOLEAN BY DEF Grants
  <2>3. a \in VoteResponses BY <1>2, <2>2 DEF VoteResponses
  <2>4. a.type = "VoteResponse" OBVIOUS
  <2> HIDE DEF a
  <2>5. MsgOK(a, proposed') BY <2>3, <2>4 DEF MsgOK, Messages
  <2> QED BY <1>4, <2>1, <2>5
<1>9. CASE m.type = "VoteResponse" /\ RecvVoteResponse(m)
  <2> DEFINE A == {cb_send_appendentries(s, p, log[s], Len(log[s]) + 1, commit[s]) :
                     p \in Servers \ {s}}
  <2>1. InFlight(m, A) \/ InFlight(m, {}) BY <1>9 DEF RecvVoteResponse
  <2>2. Len(log[s]) + 1 \in Nat /\ 1 <= Len(log[s]) + 1 BY <1>3
  <2>3. \A a \in A : MsgOK(a, proposed') BY <1>2, <1>3, <2>2, AppendIsMsg
  <2> HIDE DEF A
  <2> QED BY <1>4, <1>6, <2>1, <2>3
<1>10. CASE m.type = "AppendEntries" /\ RecvAppendEntries(m)
  <2>1. AppendMsgOK(m, proposed) BY <1>1, <1>10 DEF MsgsOK, MsgOK
  <2>2. m.prev_log_idx \in Indices BY <2>1 DEF AppendMsgOK
  <2>3. m.prev_log_idx + Len(m.entries) \in Indices
    <3>1. CASE m.entries = <<>> BY <2>2, <3>1 DEF Indices
    <3>2. CASE m.entries # <<>>
      <4>1. Len(m.entries) = 1 /\ m.prev_log_idx < LOG_CAPACITY BY <2>1, <3>2 DEF AppendMsgOK
      <4> QED BY <2>2, <4>1, ClusterConstants DEF Indices
    <3> QED BY <3>1, <3>2
  <2>4. ASSUME NEW ok \in BOOLEAN, NEW i \in Indices,
               InFlight(m, {[type |-> "AppendResponse", src |-> s, dst |-> m.src,
                             success |-> ok, current_idx |-> i]})
        PROVE  MsgsOK'
    <3> DEFINE a == [type |-> "AppendResponse", src |-> s, dst |-> m.src,
                     success |-> ok, current_idx |-> i]
    <3>1. a \in AppendResponses BY <1>2 DEF AppendResponses
    <3>2. a.type = "AppendResponse" OBVIOUS
    <3>3. InFlight(m, {a}) BY <2>4
    <3> HIDE DEF a
    <3>4. MsgOK(a, proposed') BY <3>1, <3>2 DEF MsgOK, Messages
    <3> QED BY <1>4, <3>3, <3>4
  <2>5. Len(log'[s]) \in Indices
    <3>1. LogOK(log'[s], commit'[s], applied'[s]) BY <1>2 DEF LogsOK
    <3> QED BY <3>1, ClusterConstants DEF LogOK, Indices
  <2>6. CASE Mismatch(m)
    <3> DEFINE lg == IF m.prev_log_idx <= Len(log[s])
                     THEN CutTo(log[s], m.prev_log_idx - 1, commit[s]) ELSE log[s]
    <3>1. log' = [log EXCEPT ![s] = lg] BY <2>6 DEF Mismatch
    <3>2. log'[s] = lg BY <1>1, <1>2, <3>1 DEF LogsOK
    <3>3. InFlight(m, {[type |-> "AppendResponse", src |-> s, dst |-> m.src,
                        success |-> FALSE, current_idx |-> Len(lg)]})
      BY <2>6 DEF Mismatch
    <3> HIDE DEF lg
    <3> QED BY <2>4, <2>5, <3>2, <3>3
  <2>7. CASE Fits(m)
    <3> DEFINE i == IF Shutdown(log[s], m, commit[s]) THEN m.prev_log_idx
                    ELSE m.prev_log_idx + Len(m.entries)
    <3>1. InFlight(m, {[type |-> "AppendResponse", src |-> s, dst |-> m.src,
                        success |-> TRUE, current_idx |-> i]})
      BY <2>7 DEF Fits
    <3>2. i \in Indices BY <2>2, <2>3
    <3> HIDE DEF i
    <3> QED BY <2>4, <3>1, <3>2
  <2>8. CASE NoMemory(m)
    <3>1. InFlight(m, {[type |-> "AppendResponse", src |-> s, dst |-> m.src,
                        success |-> TRUE, current_idx |-> m.prev_log_idx]})
      BY <2>8 DEF NoMemory
    <3> QED BY <2>2, <2>4, <3>1
  <2> QED BY <1>10, <2>6, <2>7, <2>8 DEF RecvAppendEntries
<1>11. CASE m.type = "AppendResponse" /\ RecvAppendResponse(m)
  <2>1. CASE Refused(m) /\ ~Halt(s) /\ ~InFlight(m, {})
    <3>1. /\ match[s][m.src] # next[s][m.src] - 1
          /\ InFlight(m, {cb_send_appendentries(s, m.src, log[s], Backed(s, m), commit[s])})
          /\ Sendable(log[s], Backed(s, m)) /\ UNCHANGED <<log, commit>>
      BY <2>1 DEF Refused, logVars
    <3>2. Backed(s, m) \in 1 .. LOG_CAPACITY + 1 BY <1>11, <3>1, BackedOK
    <3>3. /\ Backed(s, m) \in Nat /\ 1 <= Backed(s, m)
          /\ Backed(s, m) <= Len(log'[s]) + 1
      BY <1>3, <3>1, <3>2, ClusterConstants DEF Sendable
    <3> QED BY <1>7, <3>1, <3>3
  <2>2. CASE Accepted(m) /\ ~Halt(s) /\ ~InFlight(m, {})
    <3>1. /\ m.current_idx < Len(log[s]) /\ UNCHANGED log
          /\ InFlight(m, {cb_send_appendentries(s, m.src, log[s], m.current_idx + 1,
                                                commit'[s])})
      BY <2>2 DEF Accepted
    <3>2. m.current_idx \in Nat
      BY <1>1, <1>11, ClusterConstants DEF MsgsOK, MsgOK, Messages, RequestVotes, VoteResponses,
         AppendEntries, AppendResponses, Indices
    <3>3. m.current_idx + 1 \in Nat /\ 1 <= m.current_idx + 1
          /\ m.current_idx + 1 <= Len(log'[s]) + 1
      BY <1>3, <3>1, <3>2
    <3> QED BY <1>7, <3>1, <3>3
  <2> QED BY <1>5, <1>6, <1>11, <2>1, <2>2 DEF RecvAppendResponse
<1> QED BY <1>8, <1>9, <1>10, <1>11 DEF Dispatch

-----------------------------------------------------------------------------
(* Theorems *)

\* Every step keeps the invariant, and the committed entries.
LEMMA LogInvStep ==
    ASSUME LogInv, [Next]_vars PROVE LogInv' /\ CommitKept
<1>1. CASE Next
  <2>1. RestOK' /\ PeersOK' BY <1>1, RestStep, PeersStep
  <2>2. LogsOK' /\ CommitKept /\ proposed \subseteq proposed' BY <1>1, LogsStep
  <2>3. ASSUME NEW s \in Servers, PowerLoss(s) \/ PowerUp(s) PROVE MsgsOK'
    <3>1. \A x \in msgs' : x \in msgs BY <2>3 DEF PowerLoss, PowerUp, Halt
    <3> QED BY <2>2, <3>1, MsgsStay DEF LogInv, MsgsOK
  <2>4. ASSUME NEW m \in msgs, Lose(m) PROVE MsgsOK'
    <3>1. \A x \in msgs' : x \in msgs BY <2>4 DEF Lose
    <3> QED BY <2>2, <3>1, MsgsStay DEF LogInv, MsgsOK
  <2>5. MsgsOK' BY <1>1, <2>2, <2>3, <2>4, SentMsgs, AnsweredMsgs DEF Next
  <2> QED BY <2>1, <2>2, <2>5 DEF LogInv
<1>2. CASE UNCHANGED vars
  <2>1. RestOK' BY <1>2 DEF vars, powerVars, voteVars, roleVars, LogInv, RestOK
  <2>2. PeersOK' BY <1>2 DEF vars, peerVars, LogInv, PeersOK
  <2>3. MsgsOK' BY <1>2 DEF vars, LogInv, MsgsOK
  <2>4. LogsOK' /\ CommitKept BY <1>2, SameLogs DEF vars, logVars, LogInv
  <2> QED BY <2>1, <2>2, <2>3, <2>4 DEF LogInv
<1> QED BY <1>1, <1>2

\* The invariant of the logs.
LEMMA LogInvariant == Spec => []LogInv
<1>1. LogInv /\ [Next]_vars => LogInv' BY LogInvStep
<1> QED BY <1>1, InitLogs, PTL DEF Spec

\* In a cluster of any size every index of the library stays within its log,
\* next_idx never falls below the first entry, and every datagram has the
\* layout of wire_format.h.
THEOREM ClusterTypes == Spec => []TypeOK
<1>1. LogInv => TypeOK BY LogInvImplies
<1> QED BY <1>1, LogInvariant, PTL

\* Whatever leaders, appends and power cycles a cluster sees: what a server
\* holds at an index was proposed at that index.
THEOREM EntryInPlaceAlways == Spec => []EntryInPlace
<1>1. LogInv => EntryInPlace BY LogInvImplies
<1> QED BY <1>1, LogInvariant, PTL

\* No append and no failed allocation takes a committed entry from a server
\* that keeps its power, whichever leader sends it and however late.
THEOREM CommittedStaysAlways == Spec => CommittedStays
<1>1. LogInv /\ [Next]_vars =>
         [\A s \in Servers :
             up'[s] /\ boot'[s] = boot[s] =>
                 /\ commit'[s] >= commit[s]
                 /\ Len(log'[s]) >= commit[s]
                 /\ \A i \in 1 .. commit[s] : log'[s][i] = log[s][i]]_vars
  BY LogInvStep DEF CommitKept, Keeps
<1> QED BY <1>1, LogInvariant, PTL DEF Spec, CommittedStays
=============================================================================
