------------------------------ MODULE IceAgent ------------------------------
(***************************************************************************)
(* The ICE agent of libpeer and its TURN client, from gathering to the       *)
(* keepalive of a connected session. The agent runs on the main task and      *)
(* reads one socket, so each of its waits takes whatever packet comes first.   *)
(* Packets to the device are a set in flight: they may come late, in any order *)
(* or never. The TURN server is outside the repository: it grants what carries *)
(* its current nonce, answers 438 with the nonce otherwise, and forgets a        *)
(* permission or an allocation that is not renewed. Time passes by keepalive     *)
(* intervals, in a connected session only: all before takes seconds.            *)
(***************************************************************************)
EXTENDS Naturals, Sequences, FiniteSets

CONSTANTS
  Remotes,     \* the candidates of the answer, in its order
  MaxCheck,    \* AGENT_CONNCHECK_MAX
  Period,      \* AGENT_CONNCHECK_PERIOD
  PermLife, LeaseLife,  \* a permission and an allocation, in keepalive intervals
  MaxNonce     \* bound: how many nonces the server issues

ASSUME IceAssumption ==
  /\ Len(Remotes) \in Nat \ {0}
  /\ \A i, j \in 1 .. Len(Remotes) : Remotes[i] = Remotes[j] => i = j
  /\ {MaxCheck, Period, PermLife, LeaseLife, MaxNonce} \subseteq Nat \ {0}

N     == Len(Remotes)
Peers == {Remotes[i] : i \in 1 .. N}
None  == "none"

VARIABLES
  phase,      \* what the agent is doing
  local,      \* the local candidate; a bogus one stands for an allocation that was not granted
  nonce,      \* turn_nonce
  perm_addr,  \* turn_permission_addr
  state,      \* of the candidate pairs; the local candidate is the same in all
  nominated,  \* nominated_pair, 0 before there is one
  conncheck,  \* of the nominated pair
  ask,        \* agent_turn_set_permission: for whom, attempts left, and what called it
  net,        \* packets on their way to the device
  lease, perms, fresh,  \* the server's allocation, permissions and current nonce
  heard,      \* the pairs whose check was answered (read by properties only)
  calm        \* keepalive intervals without a fault (read by properties only)

pairs   == <<state, nominated, conncheck>>
server  == <<lease, perms, fresh>>
history == <<heard, calm>>
icevars == <<phase, local, nonce, perm_addr, pairs, ask, net, server, history>>

Allocated == local \in {"relay", "bogus"}     \* turn_allocated
Idle      == [who |-> 0, left |-> 0, sent |-> FALSE, from |-> "none"]

Challenge(n) == [kind |-> "stale", nonce |-> n]     \* 401 and 438 carry a nonce
Plain(k)     == [kind |-> k]
Answer(i)    == [kind |-> "answer", pair |-> i]

IceInit ==
  /\ phase = "idle" /\ local = "none" /\ nonce = 0 /\ perm_addr = None
  /\ state = [i \in 1 .. N |-> "frozen"] /\ nominated = 0 /\ conncheck = 0 /\ ask = Idle
  /\ net = {}
  /\ lease = 0 /\ perms = [r \in Peers |-> 0] /\ fresh = 1
  /\ heard = {} /\ calm = 0

----------------------------------------------------------------------------
(* Gathering: agent_gather_candidate, agent_create_turn_addr                *)

\* Without an ICE server there is a host candidate; a server that cannot be resolved leaves none.
Gather ==
  /\ phase = "idle"
  /\ \/ phase' = "offer" /\ local' \in {"host", "none"} /\ UNCHANGED net
     \/ phase' = "probe" /\ UNCHANGED local /\ net' \in {{}, {Challenge(fresh)}}
  /\ UNCHANGED <<nonce, perm_addr, pairs, ask, server, history>>

\* The second Allocate carries the nonce of the first reply. Its own reply may be
\* anything: the code does not look at the result of the read.
Authenticate ==
  /\ phase = "probe"
  /\ \/ \E p \in net :
          /\ phase' = "auth" /\ nonce' = p.nonce
          /\ \/ net' = {} /\ UNCHANGED lease
             \/ net' \in {{}, {Plain("allocated")}} /\ lease' = LeaseLife
             \/ net' = {Plain("error")} /\ UNCHANGED lease
     \/ phase' = "offer" /\ UNCHANGED <<nonce, net, lease>>         \* nothing came in time
  /\ UNCHANGED <<local, perm_addr, pairs, ask, perms, fresh, history>>

AddRelay ==
  /\ phase = "auth" /\ phase' = "offer"
  /\ \/ \E p \in net : /\ local' = IF p.kind = "allocated" THEN "relay" ELSE "bogus"
                       /\ net' = net \ {p}
     \/ local' = "bogus" /\ UNCHANGED net
  /\ UNCHANGED <<nonce, perm_addr, pairs, ask, server, history>>

----------------------------------------------------------------------------
(* Permissions: agent_turn_set_permission                                   *)

AskFor(i, caller) == phase' = "permit" /\ ask' = [who |-> i, left |-> 2, sent |-> FALSE, from |-> caller]

\* What the server makes of a CreatePermission; request and reply may each get lost.
Granted(r)    == lease > 0 /\ nonce = fresh /\ perms' = [perms EXCEPT ![r] = PermLife]
PermitReply   == IF lease = 0 THEN Plain("error") ELSE IF nonce = fresh THEN Plain("granted") ELSE Challenge(fresh)
PermitAt(r, inflight) ==
  \/ net' = inflight /\ UNCHANGED perms
  \/ /\ Granted(r) \/ (~(lease > 0 /\ nonce = fresh) /\ UNCHANGED perms)
     /\ net' \in {inflight, inflight \cup {PermitReply}}

SendPermit ==
  /\ phase = "permit" /\ ~ask.sent
  /\ PermitAt(Remotes[ask.who], net)
  /\ ask' = [ask EXCEPT !.sent = TRUE]
  /\ UNCHANGED <<phase, local, nonce, perm_addr, pairs, lease, fresh, history>>

\* The caller goes on the same way after a failure: it does not look at the result.
PermitDone ==
  \/ ask.from = "answer" /\ ask.who < N /\ AskFor(ask.who + 1, "answer")
  \/ ask.from = "answer" /\ ask.who = N /\ phase' = "check" /\ ask' = Idle
  \/ ask.from = "nominate" /\ phase' = "verify" /\ ask' = Idle

\* Any packet ends the wait: the ack, a 438 that is retried once, or one of the peer's.
HearPermit ==
  /\ phase = "permit" /\ ask.sent
  /\ \/ UNCHANGED <<net, nonce, perm_addr>> /\ PermitDone
     \/ \E p \in net :
          /\ net' = net \ {p}
          /\ \/ p.kind = "granted" /\ perm_addr' = Remotes[ask.who] /\ UNCHANGED nonce /\ PermitDone
             \/ /\ p.kind = "stale" /\ nonce' = p.nonce /\ UNCHANGED perm_addr
                /\ \/ ask.left = 2 /\ ask' = [ask EXCEPT !.left = 1, !.sent = FALSE] /\ UNCHANGED phase
                   \/ ask.left = 1 /\ PermitDone
             \/ p.kind \notin {"granted", "stale"} /\ UNCHANGED <<nonce, perm_addr>> /\ PermitDone
  /\ UNCHANGED <<local, pairs, server, history>>

----------------------------------------------------------------------------
(* Pairs: agent_update_candidate_pairs, agent_select_candidate_pair         *)

\* The answer makes the pairs and asks for a permission for each of its candidates.
SetRemote ==
  /\ phase = "offer"
  /\ \/ Allocated /\ AskFor(1, "answer")
     \/ ~Allocated /\ phase' = "check" /\ UNCHANGED ask
  /\ UNCHANGED <<local, nonce, perm_addr, pairs, net, server, history>>

HasPairs == local # "none"

Nominate(i) ==
  /\ nominated' = i /\ conncheck' = 0
  /\ \/ Allocated /\ AskFor(i, "nominate")
     \/ ~Allocated /\ phase' = "verify" /\ UNCHANGED ask

\* Planted: every look starts the checks of the pair again.
BugChecksAgain ==
  /\ phase = "check"
  /\ \/ HasPairs /\ nominated = 0 /\ state' = [state EXCEPT ![1] = "inprogress"] /\ Nominate(1)
     \/ nominated > 0 /\ conncheck' = 0 /\ phase' = "verify" /\ UNCHANGED <<ask, state, nominated>>
     \/ ~HasPairs /\ phase' = "failed" /\ UNCHANGED <<ask, pairs>>
  /\ UNCHANGED <<local, nonce, perm_addr, net, server, history>>

\* Planted: a pair whose checks are used up stays in progress.
BugNeverFailed ==
  /\ phase = "check"
  /\ \/ HasPairs /\ nominated = 0 /\ state' = [state EXCEPT ![1] = "inprogress"] /\ Nominate(1)
     \/ /\ nominated \in 1 .. N - 1
        /\ state' = [state EXCEPT ![nominated + 1] = "inprogress"] /\ Nominate(nominated + 1)
     \/ (nominated = N \/ ~HasPairs) /\ phase' = "failed" /\ UNCHANGED <<ask, pairs>>
  /\ UNCHANGED <<local, nonce, perm_addr, net, server, history>>

Select ==
  /\ phase = "check"
  /\ \/ HasPairs /\ nominated = 0 /\ state' = [state EXCEPT ![1] = "inprogress"] /\ Nominate(1)
     \/ /\ nominated > 0 /\ conncheck + 1 < MaxCheck
        /\ conncheck' = conncheck + 1 /\ phase' = "verify" /\ UNCHANGED <<ask, state, nominated>>
     \/ /\ nominated \in 1 .. N - 1 /\ conncheck + 1 = MaxCheck
        /\ state' = [state EXCEPT ![nominated] = "failed", ![nominated + 1] = "inprogress"]
        /\ Nominate(nominated + 1)
     \/ /\ nominated = N /\ conncheck + 1 = MaxCheck
        /\ state' = [state EXCEPT ![N] = "failed"] /\ phase' = "failed" /\ UNCHANGED <<ask, nominated, conncheck>>
     \/ ~HasPairs /\ phase' = "failed" /\ UNCHANGED <<ask, pairs>>
  /\ UNCHANGED <<local, nonce, perm_addr, net, server, history>>

----------------------------------------------------------------------------
(* Checks and packets: agent_connectivity_check, agent_recv                 *)

\* The peer's packets reach the device directly, or through the relay by permission.
Reachable(r) == local = "host" \/ (Allocated /\ lease > 0 /\ perms[r] > 0)

Due     == conncheck % Period = 0
Answers == IF Due /\ Reachable(Remotes[nominated]) THEN {{}, {Answer(nominated)}} ELSE {{}}

\* Planted: any response is taken for the answer to a check.
BugAnyResponse(p) == p.kind \in {"answer", "granted"}

\* agent_process_stun_response: a binding response, whichever check it answers.
Validates(p) == p.kind = "answer"

\* Planted: the nonce of a 438 is dropped.
BugIgnoresStale(p) == UNCHANGED nonce

\* agent_recv: the nonce of an error reply is kept for the next keepalive.
Fold(p) == nonce' = IF p.kind = "stale" THEN p.nonce ELSE nonce

Verify ==
  /\ phase = "verify"
  /\ \E answer \in Answers :
       \/ /\ net' = net \cup answer
          /\ phase' = "check" /\ UNCHANGED <<nonce, state, heard>>
       \/ \E p \in net \cup answer :
            /\ net' = (net \cup answer) \ {p} /\ Fold(p)
            /\ heard' = IF p.kind = "answer" THEN heard \cup {p.pair} ELSE heard
            /\ \/ Validates(p) /\ phase' = "up" /\ state' = [state EXCEPT ![nominated] = "succeeded"]
               \/ ~Validates(p) /\ phase' = "check" /\ UNCHANGED state
  /\ UNCHANGED <<local, perm_addr, nominated, conncheck, ask, server, calm>>

Receive ==
  /\ phase = "up"
  /\ \E p \in net : net' = net \ {p} /\ Fold(p)
  /\ UNCHANGED <<phase, local, perm_addr, pairs, ask, server, history>>

----------------------------------------------------------------------------
(* The keepalive: agent_turn_refresh, once per interval of a live session    *)

Aged(x)   == IF x = 0 THEN 0 ELSE x - 1
Unheard   == {p \in net : p.kind = "stale"}
Renews    == lease > 1 /\ nonce = fresh      \* the request comes before the lease runs out
Calmer(n) == IF n < 2 THEN n + 1 ELSE n

\* The interval ends: CreatePermission for perm_addr and Refresh, each delivered or lost,
\* their stale-nonce reply delivered or lost; a reply that is still unheard is a fault too.
Interval ==
  /\ phase = "up" /\ Allocated
  /\ \E permit, refresh, reply \in BOOLEAN :
       /\ perms' = [r \in Peers |-> IF permit /\ Renews /\ r = perm_addr THEN PermLife ELSE Aged(perms[r])]
       /\ lease' = IF refresh /\ Renews THEN LeaseLife ELSE Aged(lease)
       /\ net' = IF reply /\ (permit \/ refresh) /\ lease > 1 /\ nonce # fresh
                 THEN net \cup {Challenge(fresh)} ELSE net
       /\ calm' = IF permit /\ refresh /\ reply /\ Unheard = {} THEN Calmer(calm) ELSE 0
  /\ UNCHANGED <<phase, local, nonce, perm_addr, pairs, ask, fresh, heard>>

----------------------------------------------------------------------------
(* The network                                                              *)

\* The peer probes the relay, or sends media.
PeerSends ==
  /\ phase \in {"permit", "check", "verify"}
  /\ \E r \in Peers : Reachable(r)
  /\ net' = net \cup {Plain("peer")}
  /\ UNCHANGED <<phase, local, nonce, perm_addr, pairs, ask, server, history>>

Lost ==
  /\ \E p \in net : net' = net \ {p} /\ calm' = IF p.kind = "stale" THEN 0 ELSE calm
  /\ UNCHANGED <<phase, local, nonce, perm_addr, pairs, ask, server, heard>>

NewNonce ==
  /\ phase \notin {"idle", "probe", "auth", "failed"} /\ Allocated /\ fresh < MaxNonce
  /\ fresh' = fresh + 1 /\ calm' = 0
  /\ UNCHANGED <<phase, local, nonce, perm_addr, pairs, ask, net, lease, perms, heard>>

Agent == Gather \/ Authenticate \/ AddRelay \/ SendPermit \/ HearPermit \/ SetRemote \/ Select \/ Verify

IceNext == Agent \/ Receive \/ Interval \/ PeerSends \/ Lost \/ NewNonce

\* peer_connection_loop runs on, and every read has a timeout. Nothing is assumed of the network.
IceSpec == IceInit /\ [][IceNext]_icevars /\ WF_icevars(Agent)

----------------------------------------------------------------------------

Packets == {Challenge(n) : n \in 1 .. MaxNonce} \cup {Answer(i) : i \in 1 .. N}
             \cup {Plain(k) : k \in {"allocated", "granted", "error", "peer"}}

(* States, counters and packets stay in range; one pair at most is in progress, those  *)
(* before it have failed and those after it are frozen (agent.c:813-852).              *)
IceTypeOK ==
  /\ phase \in {"idle", "probe", "auth", "offer", "permit", "check", "verify", "up", "failed"}
  /\ local \in {"none", "host", "relay", "bogus"}
  /\ nonce \in 0 .. MaxNonce /\ fresh \in 1 .. MaxNonce
  /\ perm_addr \in Peers \cup {None}
  /\ nominated \in 0 .. N /\ conncheck \in 0 .. MaxCheck - 1
  /\ \A i \in 1 .. N : /\ i < nominated => state[i] = "failed"
                       /\ i > nominated => state[i] = "frozen"
                       /\ i = nominated => state[i] # "frozen"
  /\ net \subseteq Packets
  /\ lease \in 0 .. LeaseLife /\ perms \in [Peers -> 0 .. PermLife]
  /\ heard \subseteq 1 .. N /\ calm \in 0 .. 2

(* No pair is selected before the peer has answered a check: acks of permissions that   *)
(* come late, the peer's own checks and its media do not validate a pair. The answer     *)
(* may be a late one to an earlier pair (agent.c:617-627, 783-811).                      *)
SelectedWasAnswered == phase = "up" => \E i \in heard : i <= nominated

(* Two intervals after the last fault - a lost or delayed packet, a new nonce - the      *)
(* permission that the keepalive renews and the allocation are fresh again, unless the   *)
(* allocation is gone: a 438 costs one keepalive, not the session (agent.c:390-422,       *)
(* 679-694).                                                                            *)
KeepaliveRecovers ==
  (phase = "up" /\ Allocated /\ calm = 2 /\ lease > 0)
    => lease = LeaseLife /\ (perm_addr # None => perms[perm_addr] = PermLife)

(* From the answer on the agent decides: a pair is selected or all have failed, whatever  *)
(* the relay and the peer do (agent.c:764-852).                                          *)
Decides == phase \in {"permit", "check", "verify"} ~> phase \in {"up", "failed"}

(* "CreatePermission for the active (nominated) peer" (agent.c:394): the permission that  *)
(* the keepalive renews is the one the session's media needs.                             *)
KeepaliveRenewsNominated == phase = "up" /\ perm_addr # None => perm_addr = Remotes[nominated]
=============================================================================
