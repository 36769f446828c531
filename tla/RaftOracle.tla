----------------------------- MODULE RaftOracle -----------------------------
(***************************************************************************)
(* Several STM32s running raft_oracle.c over a datagram network: the       *)
(* callbacks that put the library's messages on the wire and               *)
(* oracle_dispatch_raft_message(), which takes them off it.                *)
(*                                                                         *)
(* The wire carries no term.  The dispatcher fills the term of every       *)
(* message it hands to the library with the receiver's own, so the         *)
(* library's comparisons of terms always find them equal; what is left of  *)
(* each library function is modelled, and marked external in the map.      *)
(*                                                                         *)
(* One thread (raft_task, or node_thread of the simulator) runs all        *)
(* handlers of a server, so each is one step.  A datagram may be delivered *)
(* late or out of order, never where LOSSY and twice where DUPLICATES.     *)
(***************************************************************************)
EXTENDS Integers, Sequences, FiniteSets

CONSTANTS
    Servers,        \* the members of the cluster
    Values,         \* health transitions that may be proposed
    NoOne,          \* the library's -1 and NULL for a server
    MAX_TERM,       \* elections stop counting terms here
    LOG_CAPACITY,   \* entries a leader may hold before proposals stop
    MAX_FAILED,     \* how many servers may ever lose power
    MAX_BOOT,       \* how often a server may be powered up again
    MAX_IN_FLIGHT,  \* datagrams under way at once; a sender waits for the rest
                    \* to be delivered or lost
    LOSSY,          \* whether the network may lose a datagram
    DUPLICATES      \* whether it may deliver a datagram twice

ASSUME ClusterConstants ==
    /\ IsFiniteSet(Servers) /\ Cardinality(Servers) > 1
    /\ NoOne \notin Servers
    /\ MAX_TERM \in Nat \ {0}
    /\ LOG_CAPACITY \in Nat \ {0}
    /\ MAX_FAILED \in Nat /\ MAX_BOOT \in Nat /\ MAX_IN_FLIGHT \in Nat
    /\ LOSSY \in BOOLEAN /\ DUPLICATES \in BOOLEAN

VARIABLES
    up,         \* whether the STM32 runs
    boot,       \* ghost: how often it was powered up again
    role,       \* follower, candidate or leader
    term,       \* current term, persisted in RAM only
    voted,      \* who got the vote of that term, persisted in RAM only
    votes,      \* peers whose granted vote this candidate has counted
    leader,     \* current_leader
    waited,     \* timeout_elapsed has reached the election timeout
    log,        \* entries [term, value]
    commit,     \* commit_idx
    applied,    \* last_applied_idx
    next,       \* next_idx of each peer
    match,      \* match_idx of each peer
    msgs,       \* datagrams in flight
    grants,     \* ghost: votes ever granted, with the voter's term
    proposed    \* ghost: entries ever proposed, with their index

powerVars == <<up, boot>>
voteVars == <<term, voted, grants>>
roleVars == <<role, votes, leader, waited>>
logVars == <<log, commit, applied>>
peerVars == <<next, match>>
vars == <<powerVars, voteVars, roleVars, logVars, peerVars, msgs, proposed>>

Terms == 0 .. MAX_TERM
Indices == 0 .. LOG_CAPACITY
Entries == [term : Terms, value : Values]

RequestVotes ==
    [type : {"RequestVote"}, src : Servers, dst : Servers,
     last_log_idx : Indices, last_log_term : Terms]
VoteResponses ==
    [type : {"VoteResponse"}, src : Servers, dst : Servers, vote_granted : BOOLEAN]
AppendEntries ==
    [type : {"AppendEntries"}, src : Servers, dst : Servers,
     prev_log_idx : Indices, prev_log_term : Terms, leader_commit : Indices,
     entries : {<<>>} \union {<<e>> : e \in Entries}]
AppendResponses ==
    [type : {"AppendResponse"}, src : Servers, dst : Servers,
     success : BOOLEAN, current_idx : Indices]
Messages == RequestVotes \union VoteResponses \union AppendEntries \union AppendResponses

Majority(S) == 2 * Cardinality(S) > Cardinality(Servers)
TermAt(lg, i) == IF i = 0 THEN 0 ELSE lg[i].term
Smaller(a, b) == IF a < b THEN a ELSE b
Larger(a, b) == IF a < b THEN b ELSE a

Failed == {s \in Servers : ~up[s] \/ boot[s] > 0}

\* A server as oracle_init() leaves it, all at once at power-up.
Init ==
    /\ up = [s \in Servers |-> TRUE]
    /\ boot = [s \in Servers |-> 0]
    /\ role = [s \in Servers |-> "follower"]
    /\ term = [s \in Servers |-> 0]
    /\ voted = [s \in Servers |-> NoOne]
    /\ votes = [s \in Servers |-> {}]
    /\ leader = [s \in Servers |-> NoOne]
    /\ waited = [s \in Servers |-> FALSE]
    /\ log = [s \in Servers |-> <<>>]
    /\ commit = [s \in Servers |-> 0]
    /\ applied = [s \in Servers |-> 0]
    /\ next = [s \in Servers |-> [p \in Servers |-> 1]]
    /\ match = [s \in Servers |-> [p \in Servers |-> 0]]
    /\ msgs = {} /\ grants = {} /\ proposed = {}

-----------------------------------------------------------------------------
(* What the callbacks put on the wire *)

cb_send_requestvote(s, p) ==
    [type |-> "RequestVote", src |-> s, dst |-> p,
     last_log_idx |-> Len(log[s]), last_log_term |-> TermAt(log[s], Len(log[s]))]

\* Mutants of capped: no cap; the newest entry instead of the oldest.
capped_not(entries) == entries
capped_newest(entries) == IF entries = <<>> THEN <<>> ELSE <<entries[Len(entries)]>>

\* At most one entry fits a frame: the oldest the peer still needs.
capped(entries) == IF entries = <<>> THEN <<>> ELSE <<entries[1]>>

\* The library hands over everything from next_idx on.
cb_send_appendentries(s, p, lg, nx, ci) ==
    [type |-> "AppendEntries", src |-> s, dst |-> p,
     prev_log_idx |-> nx - 1, prev_log_term |-> TermAt(lg, nx - 1),
     leader_commit |-> ci, entries |-> capped(SubSeq(lg, nx, Len(lg)))]

\* raft_send_appendentries() reads the entry before next_idx, which is not
\* there once another leader has cut this leader's log.
Sendable(lg, nx) == nx - 1 <= Len(lg)

\* Nobody takes what is sent to a server without power.
Taken(sent) == {m \in sent : up[m.dst]}

Send(sent) ==
    /\ msgs' = msgs \union Taken(sent)
    /\ Cardinality(msgs') <= MAX_IN_FLIGHT

\* What is in flight once m is handled and the answers are sent.
InFlight(m, answers) ==
    /\ msgs' \in {(msgs \ {m}) \union Taken(answers)}
                 \union IF DUPLICATES THEN {msgs \union Taken(answers)} ELSE {}
    /\ Cardinality(msgs') <= MAX_IN_FLIGHT

\* An assertion or a null pointer of the library stops the program.
Halt(s) ==
    /\ up' = [up EXCEPT ![s] = FALSE]
    /\ msgs' = {m \in msgs : m.dst # s}
    /\ UNCHANGED <<boot, voteVars, roleVars, logVars, peerVars, proposed>>

-----------------------------------------------------------------------------
(* Proposals and the periodic tick *)

\* oracle_propose_health_transition() at the leader: append, and send to the
\* peers that have everything before the new entry.
Propose(s, v) ==
    /\ up[s] /\ role[s] = "leader"
    /\ Len(log[s]) < LOG_CAPACITY
    /\ LET entry == [term |-> term[s], value |-> v]
           lg == Append(log[s], entry)
       IN  /\ log' = [log EXCEPT ![s] = lg]
           /\ proposed' = proposed \union {[idx |-> Len(lg), entry |-> entry]}
           /\ Send({cb_send_appendentries(s, p, lg, next[s][p], commit[s]) :
                      p \in {q \in Servers \ {s} : next[s][q] = Len(lg)}})
    /\ UNCHANGED <<powerVars, voteVars, roleVars, commit, applied, peerVars>>

\* raft_periodic() ends with raft_apply_all(), whatever it did before.
ApplyAll(s) == applied' = [applied EXCEPT ![s] = commit[s]]

\* A tick on which no timeout is due.
TickQuiet(s) ==
    /\ up[s]
    /\ ApplyAll(s)
    /\ UNCHANGED <<powerVars, voteVars, roleVars, log, commit, peerVars, msgs, proposed>>

\* A tick that brings timeout_elapsed to the election timeout, but not yet
\* to this server's random share on top of it.
TickWait(s) ==
    /\ up[s] /\ role[s] # "leader" /\ ~waited[s]
    /\ waited' = [waited EXCEPT ![s] = TRUE]
    /\ ApplyAll(s)
    /\ UNCHANGED <<powerVars, voteVars, role, votes, leader, log, commit, peerVars,
                   msgs, proposed>>

\* The election timeout: a candidate of the next term that votes for itself.
TickElection(s) ==
    /\ up[s] /\ role[s] # "leader" /\ waited[s]
    /\ term' = [term EXCEPT ![s] = Smaller(term[s] + 1, MAX_TERM)]
    /\ voted' = [voted EXCEPT ![s] = s]
    /\ votes' = [votes EXCEPT ![s] = {}]
    /\ leader' = [leader EXCEPT ![s] = NoOne]
    /\ role' = [role EXCEPT ![s] = "candidate"]
    /\ waited' = [waited EXCEPT ![s] = FALSE]
    /\ Send({cb_send_requestvote(s, p) : p \in Servers \ {s}})
    /\ ApplyAll(s)
    /\ UNCHANGED <<powerVars, grants, log, commit, peerVars, proposed>>

\* The request timeout of a leader: an append to every peer.
TickLeader(s) ==
    /\ up[s] /\ role[s] = "leader"
    /\ IF \A p \in Servers \ {s} : Sendable(log[s], next[s][p])
       THEN /\ Send({cb_send_appendentries(s, p, log[s], next[s][p], commit[s]) :
                       p \in Servers \ {s}})
            /\ ApplyAll(s)
            /\ UNCHANGED <<powerVars, voteVars, roleVars, log, commit, peerVars, proposed>>
       ELSE Halt(s)

OracleTick(s) == TickQuiet(s) \/ TickWait(s) \/ TickElection(s) \/ TickLeader(s)

-----------------------------------------------------------------------------
(* oracle_dispatch_raft_message() *)

\* A server that follows a leader refuses every other candidate until the
\* election timeout; otherwise it grants one vote per term of its own, to a
\* log that is not behind its own.
Grants(s, m) ==
    /\ leader[s] \in {NoOne, m.src} \/ waited[s]
    /\ voted[s] = NoOne
    /\ \/ log[s] = <<>>
       \/ TermAt(log[s], Len(log[s])) < m.last_log_term
       \/ /\ TermAt(log[s], Len(log[s])) = m.last_log_term
          /\ Len(log[s]) <= m.last_log_idx

\* Mutant of RecvRequestVote: cb_persist_vote() is lost.
RecvRequestVote_NoPersist(m) ==
    LET s == m.dst
        grant == Grants(s, m)
    IN  /\ up[s]
        /\ leader' = IF grant THEN [leader EXCEPT ![s] = NoOne] ELSE leader
        /\ waited' = IF grant THEN [waited EXCEPT ![s] = FALSE] ELSE waited
        /\ grants' = IF grant
                     THEN grants \union {[voter |-> s, boot |-> boot[s], term |-> term[s],
                                          candidate |-> m.src]}
                     ELSE grants
        /\ InFlight(m, {[type |-> "VoteResponse", src |-> s, dst |-> m.src,
                         vote_granted |-> grant]})
        /\ UNCHANGED <<powerVars, term, voted, role, votes, logVars, peerVars, proposed>>

RecvRequestVote(m) ==
    LET s == m.dst
        grant == Grants(s, m)
    IN  /\ up[s]
        /\ voted' = IF grant THEN [voted EXCEPT ![s] = m.src] ELSE voted
        /\ leader' = IF grant THEN [leader EXCEPT ![s] = NoOne] ELSE leader
        /\ waited' = IF grant THEN [waited EXCEPT ![s] = FALSE] ELSE waited
        /\ grants' = IF grant
                     THEN grants \union {[voter |-> s, boot |-> boot[s], term |-> term[s],
                                          candidate |-> m.src]}
                     ELSE grants
        /\ InFlight(m, {[type |-> "VoteResponse", src |-> s, dst |-> m.src,
                         vote_granted |-> grant]})
        /\ UNCHANGED <<powerVars, term, role, votes, logVars, peerVars, proposed>>

\* Mutant of Counted: a refusal is taken for a vote.
Counted_Any(s, m) == role[s] = "candidate"

\* A response counts while its receiver is a candidate, of whatever term.
Counted(s, m) == role[s] = "candidate" /\ m.vote_granted

\* The vote that completes a majority makes the candidate the leader, which
\* sends its first appends at once.
RecvVoteResponse(m) ==
    LET s == m.dst
        got == votes[s] \union {m.src}
        wins == Counted(s, m) /\ Majority(got \union {s})
    IN  /\ up[s]
        /\ votes' = IF Counted(s, m) THEN [votes EXCEPT ![s] = got] ELSE votes
        /\ role' = IF wins THEN [role EXCEPT ![s] = "leader"] ELSE role
        /\ leader' = IF wins THEN [leader EXCEPT ![s] = s] ELSE leader
        /\ waited' = IF wins THEN [waited EXCEPT ![s] = FALSE] ELSE waited
        /\ next' = IF wins
                   THEN [next EXCEPT ![s] = [p \in Servers |-> Len(log[s]) + 1]] ELSE next
        /\ match' = IF wins THEN [match EXCEPT ![s] = [p \in Servers |-> 0]] ELSE match
        /\ InFlight(m, IF wins
                       THEN {cb_send_appendentries(s, p, log[s], Len(log[s]) + 1, commit[s]) :
                               p \in Servers \ {s}}
                       ELSE {})
        /\ UNCHANGED <<powerVars, voteVars, logVars, proposed>>

\* Whether the entry before the new ones is the leader's.
PrevMatches(lg, m) ==
    m.prev_log_idx > 0 =>
        m.prev_log_idx <= Len(lg) /\ lg[m.prev_log_idx].term = m.prev_log_term

\* Whether the entry of m contradicts one that is there: the terms decide.
Conflict(lg, m) ==
    /\ m.entries # <<>> /\ m.prev_log_idx < Len(lg)
    /\ lg[m.prev_log_idx + 1].term # m.entries[1].term

\* That would undo a committed entry: RAFT_ERR_SHUTDOWN, which no caller reads.
Shutdown(lg, m, ci) == Conflict(lg, m) /\ m.prev_log_idx < ci

\* Mutant of CutTo: committed entries are not protected.
CutTo_Committed(lg, i, ci) == SubSeq(lg, 1, i)

\* The log cut to length i, unless that would lose a committed entry.
CutTo(lg, i, ci) == IF i < ci THEN lg ELSE SubSeq(lg, 1, i)

\* The log after an append whose previous entry matches.
Merged(lg, m, ci) ==
    IF m.entries = <<>> \/ Shutdown(lg, m, ci) THEN lg
    ELSE LET kept == IF Conflict(lg, m) THEN CutTo(lg, m.prev_log_idx, ci) ELSE lg
         IN  IF Len(kept) = m.prev_log_idx THEN kept \o m.entries ELSE kept

\* A failed append: the log may be cut, and its length is reported.
Mismatch(m) ==
    LET s == m.dst
        lg == IF m.prev_log_idx <= Len(log[s])
              THEN CutTo(log[s], m.prev_log_idx - 1, commit[s]) ELSE log[s]
    IN  /\ log' = [log EXCEPT ![s] = lg]
        /\ InFlight(m, {[type |-> "AppendResponse", src |-> s, dst |-> m.src,
                         success |-> FALSE, current_idx |-> Len(lg)]})
        /\ UNCHANGED commit

\* An append that fits.  The commit index follows the leader's up to the end
\* of the log; a conflict with a committed entry leaves everything alone.
Fits(m) ==
    LET s == m.dst
        lg == Merged(log[s], m, commit[s])
        shutdown == Shutdown(log[s], m, commit[s])
    IN  /\ log' = [log EXCEPT ![s] = lg]
        /\ commit' = IF ~shutdown /\ commit[s] < m.leader_commit
                     THEN [commit EXCEPT ![s] = Smaller(Larger(Len(lg), 1), m.leader_commit)]
                     ELSE commit
        /\ InFlight(m, {[type |-> "AppendResponse", src |-> s, dst |-> m.src,
                         success |-> TRUE,
                         current_idx |-> IF shutdown THEN m.prev_log_idx
                                         ELSE m.prev_log_idx + Len(m.entries)]})

\* cb_log_offer() has no memory for the copy: the entry is not appended.
NoMemory(m) ==
    /\ m.entries # <<>> /\ ~Shutdown(log[m.dst], m, commit[m.dst])
    /\ m.prev_log_idx < Len(log[m.dst]) => Conflict(log[m.dst], m)
    /\ log' = [log EXCEPT ![m.dst] = SubSeq(@, 1, m.prev_log_idx)]
    /\ InFlight(m, {[type |-> "AppendResponse", src |-> m.dst, dst |-> m.src,
                     success |-> TRUE, current_idx |-> m.prev_log_idx]})
    /\ UNCHANGED commit

\* Whoever sends an append is the leader from now on; a candidate gives up,
\* a leader of the same term does not.
RecvAppendEntries(m) ==
    LET s == m.dst
    IN  /\ up[s]
        /\ role' = IF role[s] = "candidate" THEN [role EXCEPT ![s] = "follower"] ELSE role
        /\ leader' = [leader EXCEPT ![s] = m.src]
        /\ waited' = [waited EXCEPT ![s] = FALSE]
        /\ \/ ~PrevMatches(log[s], m) /\ Mismatch(m)
           \/ PrevMatches(log[s], m) /\ Fits(m)
           \/ PrevMatches(log[s], m) /\ NoMemory(m)
        /\ UNCHANGED <<powerVars, voteVars, votes, applied, peerVars, proposed>>

\* next_idx after a refusal that is not stale.
Backed(s, m) ==
    LET nx == next[s][m.src]
    IN  IF m.current_idx < nx - 1
        THEN Larger(1, Smaller(m.current_idx + 1, Len(log[s])))
        ELSE nx - 1

\* A refused append backs up and is retried, unless it is a late answer.
Refused(m) ==
    LET s == m.dst
        nx == Backed(s, m)
    IN  IF match[s][m.src] = next[s][m.src] - 1
        THEN InFlight(m, {}) /\ UNCHANGED <<powerVars, voteVars, roleVars, logVars, peerVars, proposed>>
        ELSE IF Sendable(log[s], nx)
        THEN /\ next' = [next EXCEPT ![s][m.src] = nx]
             /\ InFlight(m, {cb_send_appendentries(s, m.src, log[s], nx, commit[s])})
             /\ UNCHANGED <<powerVars, voteVars, roleVars, logVars, match, proposed>>
        ELSE Halt(s)

\* An accepted one raises match_idx; an entry of this term that a majority
\* holds is committed, and the peer gets what it still lacks.
Accepted(m) ==
    LET s == m.dst
        mt == [match[s] EXCEPT ![m.src] = m.current_idx]
        holders == {s} \union {p \in Servers \ {s} : m.current_idx <= mt[p]}
    IN  IF m.current_idx <= match[s][m.src]
        THEN InFlight(m, {}) /\ UNCHANGED <<powerVars, voteVars, roleVars, logVars, peerVars, proposed>>
        ELSE IF m.current_idx <= Len(log[s])
        THEN /\ match' = [match EXCEPT ![s] = mt]
             /\ next' = [next EXCEPT ![s][m.src] = m.current_idx + 1]
             /\ commit' = IF /\ commit[s] < m.current_idx
                             /\ log[s][m.current_idx].term = term[s]
                             /\ Majority(holders)
                          THEN [commit EXCEPT ![s] = m.current_idx] ELSE commit
             /\ InFlight(m, IF m.current_idx < Len(log[s])
                            THEN {cb_send_appendentries(s, m.src, log[s], m.current_idx + 1,
                                                        commit'[s])}
                            ELSE {})
             /\ UNCHANGED <<powerVars, voteVars, roleVars, log, applied, proposed>>
        ELSE Halt(s)

RecvAppendResponse(m) ==
    /\ up[m.dst]
    /\ \/ /\ role[m.dst] # "leader"
          /\ InFlight(m, {})
          /\ UNCHANGED <<powerVars, voteVars, roleVars, logVars, peerVars, proposed>>
       \/ role[m.dst] = "leader" /\ ~m.success /\ Refused(m)
       \/ role[m.dst] = "leader" /\ m.success /\ Accepted(m)

Dispatch(m) ==
    \/ m.type = "RequestVote" /\ RecvRequestVote(m)
    \/ m.type = "VoteResponse" /\ RecvVoteResponse(m)
    \/ m.type = "AppendEntries" /\ RecvAppendEntries(m)
    \/ m.type = "AppendResponse" /\ RecvAppendResponse(m)

-----------------------------------------------------------------------------
(* The network and the power supply *)

Lose(m) ==
    /\ LOSSY
    /\ msgs' = msgs \ {m}
    /\ UNCHANGED <<powerVars, voteVars, roleVars, logVars, peerVars, proposed>>

PowerLoss(s) ==
    /\ up[s]
    /\ s \in Failed \/ Cardinality(Failed) < MAX_FAILED
    /\ Halt(s)

\* Power-up runs oracle_init() on cleared RAM: term, vote and log are gone.
PowerUp(s) ==
    /\ ~up[s] /\ boot[s] < MAX_BOOT
    /\ up' = [up EXCEPT ![s] = TRUE]
    /\ boot' = [boot EXCEPT ![s] = @ + 1]
    /\ role' = [role EXCEPT ![s] = "follower"]
    /\ term' = [term EXCEPT ![s] = 0]
    /\ voted' = [voted EXCEPT ![s] = NoOne]
    /\ votes' = [votes EXCEPT ![s] = {}]
    /\ leader' = [leader EXCEPT ![s] = NoOne]
    /\ waited' = [waited EXCEPT ![s] = FALSE]
    /\ log' = [log EXCEPT ![s] = <<>>]
    /\ commit' = [commit EXCEPT ![s] = 0]
    /\ applied' = [applied EXCEPT ![s] = 0]
    /\ next' = [next EXCEPT ![s] = [p \in Servers |-> 1]]
    /\ match' = [match EXCEPT ![s] = [p \in Servers |-> 0]]
    /\ UNCHANGED <<msgs, grants, proposed>>

-----------------------------------------------------------------------------

Next ==
    \/ \E s \in Servers :
          OracleTick(s) \/ PowerLoss(s) \/ PowerUp(s) \/ \E v \in Values : Propose(s, v)
    \/ \E m \in msgs : Dispatch(m) \/ Lose(m)

Spec == Init /\ [][Next]_vars

\* Every server that has power goes on ticking and takes what arrives.
Fairness ==
    \A s \in Servers :
        /\ WF_vars(TickWait(s)) /\ WF_vars(TickElection(s)) /\ WF_vars(TickLeader(s))
        /\ WF_vars(\E m \in msgs : m.dst = s /\ Dispatch(m))

\* The best timing an election can ask for: from some time on a timeout fires
\* only when all requests and answers of the election before have arrived.
SerialElections == <>[][\A s \in Servers : TickElection(s) => msgs = {}]_vars

ElectionSpec == Spec /\ Fairness /\ SerialElections

-----------------------------------------------------------------------------
(* Properties *)

\* Every server keeps its indices within its log, every datagram has the
\* layout of wire_format.h, with one entry at most.
TypeOK ==
    /\ up \in [Servers -> BOOLEAN] /\ boot \in [Servers -> 0 .. MAX_BOOT]
    /\ role \in [Servers -> {"follower", "candidate", "leader"}]
    /\ term \in [Servers -> Terms]
    /\ voted \in [Servers -> Servers \union {NoOne}]
    /\ votes \in [Servers -> SUBSET Servers]
    /\ leader \in [Servers -> Servers \union {NoOne}]
    /\ waited \in [Servers -> BOOLEAN]
    /\ log \in [Servers -> Seq(Entries)]
    /\ \A s \in Servers : Len(log[s]) <= LOG_CAPACITY
    /\ commit \in [Servers -> Indices] /\ applied \in [Servers -> Indices]
    /\ \A s \in Servers : applied[s] <= commit[s] /\ commit[s] <= Len(log[s])
    /\ next \in [Servers -> [Servers -> 1 .. LOG_CAPACITY + 1]]
    /\ match \in [Servers -> [Servers -> Indices]]
    /\ msgs \subseteq Messages
    /\ grants \subseteq [voter : Servers, boot : 0 .. MAX_BOOT, term : Terms,
                         candidate : Servers]
    /\ proposed \subseteq [idx : Indices, entry : Entries]

\* Who has ever granted s a vote, in any term.
Supporters(s) == {v \in Servers : \E g \in grants : g.voter = v /\ g.candidate = s}

\* Lost, late and repeated responses never make a leader without support: a
\* leader has been granted a vote by every peer it counted, and with its own
\* these are a majority.
LeaderHasQuorum ==
    \A s \in Servers : role[s] = "leader" => Majority(Supporters(s) \union {s})

\* Until it loses power, a server grants its vote to one candidate in each
\* term of its own, however often it is asked: cb_persist_vote() keeps it in
\* RAM only, so a power cycle in the same term may bring a second vote.
VoteOncePerTerm ==
    \A g, h \in grants :
        g.voter = h.voter /\ g.boot = h.boot /\ g.term = h.term =>
            g.candidate = h.candidate

\* An entry keeps its place and its content on its way through
\* cb_send_appendentries() and the dispatcher: what a server holds at an
\* index, some leader proposed at that index, in that term.
EntryInPlace ==
    \A s \in Servers : \A i \in 1 .. Len(log[s]) : [idx |-> i, entry |-> log[s][i]] \in proposed

\* No append, of either of two leaders, takes back or changes an entry that
\* its receiver has committed and goes on running.
CommittedStays ==
    [][\A s \in Servers :
          up'[s] /\ boot'[s] = boot[s] =>
              /\ commit'[s] >= commit[s]
              /\ Len(log'[s]) >= commit[s]
              /\ \A i \in 1 .. commit[s] : log'[s][i] = log[s][i]]_vars

\* docs/design.md says of the start that the election timeout fires and "one
\* leader emerges", and of the test "Kill leader STM32" that a new leader is
\* elected: whenever no server that has power leads, one will.
LeaderEmerges == []<>(\E s \in Servers : up[s] /\ role[s] = "leader")

\* What docs/design.md asks of a health state that is committed: two servers
\* never apply different entries at the same index.
EveryoneAgrees ==
    \A s, t \in Servers : \A i \in 1 .. Smaller(applied[s], applied[t]) :
        up[s] /\ up[t] => log[s][i] = log[t][i]
=============================================================================
