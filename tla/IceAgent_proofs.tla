---------------------------- MODULE IceAgent_proofs ----------------------------
(***************************************************************************)
(* Safety of the ICE agent for any number of candidates and checks, and any  *)
(* loss, delay and reordering of the packets it waits for.                   *)
(***************************************************************************)
EXTENDS IceAgent, TLAPS

LEMMA Constants == N \in Nat /\ N > 0 /\ {MaxCheck, Period, PermLife, LeaseLife, MaxNonce} \subseteq Nat \ {0}
BY IceAssumption DEF N

(* What the packets carry.                                                      *)
LEMMA PacketFields ==
  ASSUME NEW p \in Packets
  PROVE  /\ p.kind = "stale" => p.nonce \in 1 .. MaxNonce
         /\ p.kind = "answer" => p.pair \in 1 .. N
BY DEF Packets, Challenge, Answer, Plain

LEMMA PacketsMade ==
  /\ \A n \in 1 .. MaxNonce : Challenge(n) \in Packets /\ Challenge(n).kind = "stale"
  /\ \A i \in 1 .. N : Answer(i) \in Packets /\ Answer(i).kind = "answer" /\ Answer(i).pair = i
  /\ \A k \in {"allocated", "granted", "error", "peer"} : Plain(k) \in Packets /\ Plain(k).kind = k
BY DEF Packets, Challenge, Answer, Plain

----------------------------------------------------------------------------
(* The parts of the invariant                                               *)

ServerTypes ==
  /\ local \in {"none", "host", "relay", "bogus"}
  /\ nonce \in 0 .. MaxNonce /\ fresh \in 1 .. MaxNonce
  /\ perm_addr \in Peers \cup {None}
  /\ lease \in 0 .. LeaseLife /\ perms \in [Peers -> 0 .. PermLife]
  /\ calm \in 0 .. 2

(* No packet answers a check of a pair that was not reached yet, and before the second *)
(* Allocate the server can only have asked for one.                                  *)
NetInv ==
  /\ net \subseteq Packets
  /\ \A p \in net : p.kind = "answer" => p.pair <= nominated
  /\ phase = "idle" => net = {}
  /\ phase = "probe" => \A p \in net : p.kind = "stale"

Phases == {"idle", "probe", "auth", "offer", "permit", "check", "verify", "up", "failed"}

(* The pairs before the nominated one have failed and those after it are frozen.     *)
PairInv ==
  /\ phase \in Phases
  /\ nominated \in 0 .. N /\ conncheck \in 0 .. MaxCheck - 1
  /\ state \in [1 .. N -> {"frozen", "inprogress", "succeeded", "failed"}]
  /\ \A i \in 1 .. N : /\ i < nominated => state[i] = "failed"
                       /\ i > nominated => state[i] = "frozen"
                       /\ i = nominated => state[i] # "frozen"
  /\ phase \in {"verify", "up"} => nominated > 0

(* A permission is asked for a candidate of the answer, or for the nominated one.     *)
AskInv ==
  phase = "permit" =>
    /\ ask.who \in 1 .. N
    /\ ask.from \in {"answer", "nominate"}
    /\ ask.from = "nominate" => nominated > 0

HeardInv ==
  /\ heard \subseteq 1 .. nominated
  /\ phase = "up" => heard # {}

IceInv == ServerTypes /\ NetInv /\ PairInv /\ AskInv /\ HeardInv

LEMMA PeerOf == ASSUME NEW i \in 1 .. N PROVE Remotes[i] \in Peers
BY DEF Peers

LEMMA IceStarts == IceInit => IceInv
<1> SUFFICES ASSUME IceInit PROVE IceInv OBVIOUS
<1> USE Constants DEF IceInit
<1>1. ServerTypes BY DEF ServerTypes
<1>2. NetInv BY DEF NetInv
<1>3. PairInv BY DEF PairInv, Phases
<1>4. AskInv /\ HeardInv BY DEF AskInv, HeardInv
<1> QED BY <1>1, <1>2, <1>3, <1>4 DEF IceInv

----------------------------------------------------------------------------
(* Gathering                                                                *)

LEMMA GatherKeeps == ASSUME IceInv, Gather PROVE IceInv'
<1> USE Constants DEF IceInv
<1>1. /\ phase = "idle" /\ phase' \in {"offer", "probe"} /\ local' \in {local, "host", "none"}
      /\ net' \subseteq net \cup {Challenge(fresh)} /\ (phase' = "offer" => net' = net)
      /\ UNCHANGED <<nonce, perm_addr, state, nominated, conncheck, ask, lease, perms, fresh, heard, calm>>
  BY DEF Gather, pairs, server, history
<1>2. ServerTypes' BY <1>1 DEF ServerTypes
<1>3. net = {} /\ Challenge(fresh) \in Packets /\ Challenge(fresh).kind = "stale"
  BY <1>1, PacketsMade DEF NetInv, ServerTypes
<1>4. NetInv' BY <1>1, <1>3 DEF NetInv
<1>5. PairInv' /\ AskInv' /\ HeardInv' BY <1>1 DEF PairInv, Phases, AskInv, HeardInv
<1> QED BY <1>2, <1>4, <1>5

LEMMA AuthenticateKeeps == ASSUME IceInv, Authenticate PROVE IceInv'
<1> USE Constants DEF IceInv
<1>1. /\ phase = "probe" /\ phase' \in {"auth", "offer"}
      /\ UNCHANGED <<local, perm_addr, state, nominated, conncheck, ask, perms, fresh, heard, calm>>
  BY DEF Authenticate, pairs, history
<1>2. lease' \in {lease, LeaseLife} /\ net' \subseteq net \cup {Plain("allocated"), Plain("error")}
  BY DEF Authenticate
<1>3. nonce' \in 0 .. MaxNonce
  <2>1. ASSUME NEW p \in net PROVE p.nonce \in 1 .. MaxNonce BY <1>1, <2>1, PacketFields DEF NetInv
  <2> QED BY <2>1 DEF Authenticate, ServerTypes
<1>4. ServerTypes' BY <1>1, <1>2, <1>3 DEF ServerTypes
<1>5. NetInv' BY <1>1, <1>2, PacketsMade DEF NetInv
<1>6. PairInv' /\ AskInv' /\ HeardInv' BY <1>1 DEF PairInv, Phases, AskInv, HeardInv
<1> QED BY <1>4, <1>5, <1>6

LEMMA AddRelayKeeps == ASSUME IceInv, AddRelay PROVE IceInv'
<1> USE Constants DEF IceInv
<1>1. /\ phase = "auth" /\ phase' = "offer" /\ local' \in {"relay", "bogus"} /\ net' \subseteq net
      /\ UNCHANGED <<nonce, perm_addr, state, nominated, conncheck, ask, lease, perms, fresh, heard, calm>>
  BY DEF AddRelay, pairs, server, history
<1>2. ServerTypes' /\ NetInv' BY <1>1 DEF ServerTypes, NetInv
<1>3. PairInv' /\ AskInv' /\ HeardInv' BY <1>1 DEF PairInv, Phases, AskInv, HeardInv
<1> QED BY <1>2, <1>3

----------------------------------------------------------------------------
(* Permissions                                                              *)

LEMMA SendPermitKeeps == ASSUME IceInv, SendPermit PROVE IceInv'
<1> USE Constants DEF IceInv
<1>1. /\ phase = "permit" /\ phase' = phase /\ ask' = [ask EXCEPT !.sent = TRUE]
      /\ UNCHANGED <<local, nonce, perm_addr, state, nominated, conncheck, lease, fresh, heard, calm>>
  BY DEF SendPermit, pairs, history
<1>2. /\ net' \subseteq net \cup {PermitReply}
      /\ perms' = perms \/ perms' = [perms EXCEPT ![Remotes[ask.who]] = PermLife]
  BY DEF SendPermit, PermitAt, Granted
<1>3. PermitReply \in Packets /\ PermitReply.kind # "answer"
  <2>1. PermitReply \in {Plain("error"), Plain("granted"), Challenge(fresh)} BY DEF PermitReply
  <2> QED BY <2>1, PacketsMade DEF ServerTypes
<1>4. NetInv' BY <1>1, <1>2, <1>3 DEF NetInv
<1>5. ServerTypes' BY <1>1, <1>2 DEF ServerTypes
<1>7. PairInv' /\ HeardInv' BY <1>1 DEF PairInv, Phases, HeardInv
<1> QED BY <1>1, <1>4, <1>5, <1>7 DEF AskInv

(* Whatever ends the wait, the caller goes on with the next candidate, with the next *)
(* look at the pairs, or with the check of the nominated pair.                      *)
LEMMA HearPermitKeeps == ASSUME IceInv, HearPermit PROVE IceInv'
<1> USE Constants DEF IceInv
<1>1. /\ phase = "permit"
      /\ UNCHANGED <<local, state, nominated, conncheck, lease, perms, fresh, heard, calm>>
  BY DEF HearPermit, pairs, server, history
<1>2. net' \subseteq net BY DEF HearPermit
<1>3. /\ nonce' = nonce \/ \E p \in net : p.kind = "stale" /\ nonce' = p.nonce
      /\ perm_addr' \in {perm_addr, Remotes[ask.who]}
  BY DEF HearPermit
<1>4. PermitDone \/ (ask' = [ask EXCEPT !.left = 1, !.sent = FALSE] /\ phase' = phase) BY DEF HearPermit
<1>5. ask.who \in 1 .. N /\ (ask.from = "nominate" => nominated > 0) BY <1>1 DEF AskInv
<1>6. nonce' \in 0 .. MaxNonce BY <1>3, PacketFields DEF ServerTypes, NetInv
<1>7. perm_addr' \in Peers \cup {None} BY <1>3, <1>5, PeerOf DEF ServerTypes
<1>8. ServerTypes' BY <1>1, <1>6, <1>7 DEF ServerTypes
<1>9. CASE PermitDone
  <2>1. CASE ask.from = "answer" /\ ask.who < N /\ AskFor(ask.who + 1, "answer")
    <3>1. phase' = "permit" /\ ask' = [who |-> ask.who + 1, left |-> 2, sent |-> FALSE, from |-> "answer"]
      BY <2>1 DEF AskFor
    <3>2. ask'.who = ask.who + 1 /\ ask'.from = "answer" BY <3>1
    <3>3. AskInv' BY <1>5, <2>1, <3>2 DEF AskInv
    <3>4. NetInv' /\ PairInv' /\ HeardInv' BY <1>1, <1>2, <3>1 DEF NetInv, PairInv, Phases, HeardInv
    <3> QED BY <1>8, <3>3, <3>4
  <2>2. CASE phase' \in {"check", "verify"} /\ (phase' = "verify" => ask.from = "nominate")
    <3>1. NetInv' /\ HeardInv' /\ AskInv' BY <1>1, <1>2, <2>2 DEF NetInv, HeardInv, AskInv
    <3>2. PairInv' BY <1>1, <1>5, <2>2 DEF PairInv, Phases
    <3> QED BY <1>8, <3>1, <3>2
  <2> QED BY <1>9, <2>1, <2>2 DEF PermitDone
<1>10. CASE ask' = [ask EXCEPT !.left = 1, !.sent = FALSE] /\ phase' = phase
  <2>1. NetInv' /\ PairInv' /\ HeardInv' BY <1>1, <1>2, <1>10 DEF NetInv, PairInv, Phases, HeardInv
  <2>2. AskInv' BY <1>1, <1>10 DEF AskInv
  <2> QED BY <1>8, <2>1, <2>2
<1> QED BY <1>4, <1>9, <1>10

----------------------------------------------------------------------------
(* Pairs and checks                                                         *)

LEMMA SetRemoteKeeps == ASSUME IceInv, SetRemote PROVE IceInv'
<1> USE Constants DEF IceInv
<1>1. /\ phase = "offer" /\ phase' \in {"permit", "check"}
      /\ UNCHANGED <<local, nonce, perm_addr, state, nominated, conncheck, net, lease, perms, fresh, heard, calm>>
  BY DEF SetRemote, AskFor, pairs, server, history
<1>2. ServerTypes' /\ NetInv' /\ PairInv' /\ HeardInv'
  BY <1>1 DEF ServerTypes, NetInv, PairInv, Phases, HeardInv
<1>3. CASE phase' = "permit"
  <2>1. ask' = [who |-> 1, left |-> 2, sent |-> FALSE, from |-> "answer"] BY <1>3 DEF SetRemote, AskFor
  <2>2. ask'.who = 1 /\ ask'.from = "answer" BY <2>1
  <2>3. AskInv' BY <2>2 DEF AskInv
  <2> QED BY <1>2, <2>3
<1>4. CASE phase' = "check" BY <1>2, <1>4 DEF AskInv
<1> QED BY <1>1, <1>3, <1>4

(* A pair is nominated after the one before it has failed.                       *)
LEMMA NominateKeeps ==
  ASSUME IceInv, NEW i \in 1 .. N, i = nominated + 1, phase = "check", Nominate(i),
         state' \in [1 .. N -> {"frozen", "inprogress", "succeeded", "failed"}],
         \A j \in 1 .. N : /\ j < i => state'[j] = "failed"
                           /\ j > i => state'[j] = state[j]
                           /\ j = i => state'[j] = "inprogress",
         UNCHANGED <<local, nonce, perm_addr, net, server, history>>
  PROVE  IceInv'
<1> USE Constants DEF IceInv
<1>1. /\ nominated' = i /\ conncheck' = 0 /\ phase' \in {"permit", "verify"}
      /\ phase' = "permit" => ask' = [who |-> i, left |-> 2, sent |-> FALSE, from |-> "nominate"]
  BY DEF Nominate, AskFor
<1>2. UNCHANGED <<lease, perms, fresh, heard, calm>> BY DEF server, history
<1>3. ServerTypes' BY <1>2 DEF ServerTypes
<1>4. nominated \in Nat BY DEF PairInv
<1>5. NetInv'
  <2>1. ASSUME NEW p \in net, p.kind = "answer" PROVE p.pair <= i
    <3>1. p.pair \in 1 .. N /\ p.pair <= nominated BY <2>1, PacketFields DEF NetInv
    <3> QED BY <1>4, <3>1
  <2> QED BY <1>1, <2>1 DEF NetInv
<1>6. HeardInv'
  <2>1. \A h \in heard : h \in 1 .. nominated BY DEF HeardInv
  <2> QED BY <1>1, <1>2, <1>4, <2>1 DEF HeardInv
<1>7. PairInv' BY <1>1 DEF PairInv, Phases
<1>8. AskInv'
  <2>1. phase' = "permit" => ask'.who = i /\ ask'.from = "nominate" BY <1>1
  <2> QED BY <1>1, <2>1 DEF AskInv
<1> QED BY <1>3, <1>5, <1>6, <1>7, <1>8

LEMMA SelectKeeps == ASSUME IceInv, Select PROVE IceInv'
<1> USE Constants DEF IceInv
<1>1. phase = "check" /\ UNCHANGED <<local, nonce, perm_addr, net, server, history>> BY DEF Select
<1>2. UNCHANGED <<lease, perms, fresh, heard, calm>> BY <1>1 DEF server, history
<1>3. ServerTypes' BY <1>1, <1>2 DEF ServerTypes
<1>4. CASE nominated = 0 /\ state' = [state EXCEPT ![1] = "inprogress"] /\ Nominate(1)
  BY <1>1, <1>4, NominateKeeps DEF PairInv
<1>5. CASE /\ nominated \in 1 .. N - 1
           /\ state' = [state EXCEPT ![nominated] = "failed", ![nominated + 1] = "inprogress"]
           /\ Nominate(nominated + 1)
  <2>1. PICK i \in 1 .. N : i = nominated + 1 BY <1>5
  <2>2. state' \in [1 .. N -> {"frozen", "inprogress", "succeeded", "failed"}]
    BY <1>5, <2>1 DEF PairInv
  <2>3. \A j \in 1 .. N : /\ j < i => state'[j] = "failed"
                          /\ j > i => state'[j] = state[j]
                          /\ j = i => state'[j] = "inprogress"
    BY <1>5, <2>1 DEF PairInv
  <2>4. Nominate(i) BY <1>5, <2>1
  <2> QED BY <1>1, <2>1, <2>2, <2>3, <2>4, NominateKeeps
<1>6. CASE nominated > 0 /\ conncheck + 1 < MaxCheck
           /\ conncheck' = conncheck + 1 /\ phase' = "verify" /\ UNCHANGED <<ask, state, nominated>>
  BY <1>1, <1>2, <1>3, <1>6 DEF NetInv, PairInv, Phases, AskInv, HeardInv
<1>7. CASE nominated = N /\ state' = [state EXCEPT ![N] = "failed"] /\ phase' = "failed"
           /\ UNCHANGED <<ask, nominated, conncheck>>
  BY <1>1, <1>2, <1>3, <1>7 DEF NetInv, PairInv, Phases, AskInv, HeardInv
<1>8. CASE phase' = "failed" /\ UNCHANGED <<ask, pairs>>
  BY <1>1, <1>2, <1>3, <1>8 DEF NetInv, PairInv, Phases, AskInv, HeardInv, pairs
<1> QED BY <1>4, <1>5, <1>6, <1>7, <1>8 DEF Select

LEMMA VerifyKeeps == ASSUME IceInv, Verify PROVE IceInv'
<1> USE Constants DEF IceInv
<1>1. /\ phase = "verify" /\ phase' \in {"check", "up"} /\ nominated \in 1 .. N
      /\ UNCHANGED <<local, perm_addr, nominated, conncheck, ask, lease, perms, fresh, calm>>
  BY DEF Verify, server, PairInv
<1>2. PICK answer \in Answers :
       \/ /\ net' = net \cup answer
          /\ phase' = "check" /\ UNCHANGED <<nonce, state, heard>>
       \/ \E p \in net \cup answer :
            /\ net' = (net \cup answer) \ {p} /\ Fold(p)
            /\ heard' = IF p.kind = "answer" THEN heard \cup {p.pair} ELSE heard
            /\ \/ Validates(p) /\ phase' = "up" /\ state' = [state EXCEPT ![nominated] = "succeeded"]
               \/ ~Validates(p) /\ phase' = "check" /\ UNCHANGED state
  BY DEF Verify
<1>3. \A p \in net \cup answer : p \in Packets /\ (p.kind = "answer" => p.pair \in 1 .. nominated)
  <2>1. ASSUME NEW p \in net PROVE p \in Packets /\ (p.kind = "answer" => p.pair \in 1 .. nominated)
    <3>1. p \in Packets /\ (p.kind = "answer" => p.pair \in 1 .. N /\ p.pair <= nominated)
      BY PacketFields DEF NetInv
    <3> QED BY <1>1, <3>1
  <2>2. answer \subseteq {Answer(nominated)} BY DEF Answers
  <2> QED BY <1>1, <2>1, <2>2, PacketsMade
<1>4. CASE net' = net \cup answer /\ phase' = "check" /\ UNCHANGED <<nonce, state, heard>>
  <2>1. NetInv' BY <1>1, <1>3, <1>4 DEF NetInv
  <2> QED BY <1>1, <1>4, <2>1 DEF ServerTypes, PairInv, Phases, AskInv, HeardInv
<1>5. ASSUME NEW p \in net \cup answer,
             net' = (net \cup answer) \ {p}, Fold(p),
             heard' = IF p.kind = "answer" THEN heard \cup {p.pair} ELSE heard,
             \/ Validates(p) /\ phase' = "up" /\ state' = [state EXCEPT ![nominated] = "succeeded"]
             \/ ~Validates(p) /\ phase' = "check" /\ UNCHANGED state
      PROVE  IceInv'
  <2>1. nonce' \in 0 .. MaxNonce
    <3>1. p \in Packets BY <1>3
    <3> QED BY <1>5, <3>1, PacketFields DEF Fold, ServerTypes
  <2>2. ServerTypes' BY <1>1, <2>1 DEF ServerTypes
  <2>3. NetInv' BY <1>1, <1>3, <1>5 DEF NetInv
  <2>4. PairInv' BY <1>1, <1>5 DEF PairInv, Phases
  <2>5. HeardInv'
    <3>1. p.kind = "answer" => p.pair \in 1 .. nominated BY <1>3
    <3> QED BY <1>1, <1>5, <3>1 DEF HeardInv, Validates
  <2>6. AskInv' BY <1>1 DEF AskInv
  <2> QED BY <2>2, <2>3, <2>4, <2>5, <2>6
<1> QED BY <1>2, <1>4, <1>5

----------------------------------------------------------------------------
(* A live session and the network                                           *)

LEMMA QuietKeeps ==
  ASSUME IceInv, UNCHANGED <<phase, perm_addr, local, pairs, ask, heard>>,
         nonce' \in 0 .. MaxNonce, fresh' \in 1 .. MaxNonce, lease' \in 0 .. LeaseLife,
         perms' \in [Peers -> 0 .. PermLife], calm' \in 0 .. 2,
         \A p \in net' \ net : p \in Packets /\ p.kind # "answer" /\ phase \notin {"idle", "probe"}
  PROVE  IceInv'
<1> USE Constants DEF IceInv
<1>1. UNCHANGED <<state, nominated, conncheck>> BY DEF pairs
<1>2. ServerTypes' BY DEF ServerTypes
<1>3. NetInv' BY <1>1 DEF NetInv
<1>4. PairInv' /\ AskInv' /\ HeardInv' BY <1>1 DEF PairInv, Phases, AskInv, HeardInv
<1> QED BY <1>2, <1>3, <1>4

LEMMA ReceiveKeeps == ASSUME IceInv, Receive PROVE IceInv'
<1>1. PICK p \in net : net' = net \ {p} /\ Fold(p) BY DEF Receive
<1>2. nonce' \in 0 .. MaxNonce
  <2>1. p \in Packets BY DEF IceInv, NetInv
  <2> QED BY <1>1, <2>1, PacketFields, Constants DEF Fold, IceInv, ServerTypes
<1>3. UNCHANGED <<phase, local, perm_addr, pairs, ask, lease, perms, fresh, heard, calm>>
  BY DEF Receive, server, history
<1> QED BY <1>1, <1>2, <1>3, QuietKeeps DEF IceInv, ServerTypes

LEMMA IntervalKeeps == ASSUME IceInv, Interval PROVE IceInv'
<1>1. phase = "up" /\ UNCHANGED <<phase, local, nonce, perm_addr, pairs, ask, fresh, heard>> BY DEF Interval
<1>2. ServerTypes BY DEF IceInv
<1>3. PICK permit \in BOOLEAN, refresh \in BOOLEAN, reply \in BOOLEAN :
       /\ perms' = [r \in Peers |-> IF permit /\ Renews /\ r = perm_addr THEN PermLife ELSE Aged(perms[r])]
       /\ lease' = IF refresh /\ Renews THEN LeaseLife ELSE Aged(lease)
       /\ net' = IF reply /\ (permit \/ refresh) /\ lease > 1 /\ nonce # fresh
                 THEN net \cup {Challenge(fresh)} ELSE net
       /\ calm' = IF permit /\ refresh /\ reply /\ Unheard = {} THEN Calmer(calm) ELSE 0
  BY DEF Interval
<1>4. lease' \in 0 .. LeaseLife BY <1>2, <1>3, Constants DEF ServerTypes, Aged
<1>5. perms' \in [Peers -> 0 .. PermLife] BY <1>2, <1>3, Constants DEF ServerTypes, Aged
<1>6. calm' \in 0 .. 2 BY <1>2, <1>3 DEF ServerTypes, Calmer
<1>7. Challenge(fresh) \in Packets /\ Challenge(fresh).kind = "stale" BY <1>2, PacketsMade DEF ServerTypes
<1>8. \A p \in net' \ net : p \in Packets /\ p.kind # "answer" BY <1>3, <1>7
<1> QED BY <1>1, <1>2, <1>4, <1>5, <1>6, <1>8, QuietKeeps DEF ServerTypes

LEMMA NetworkKeeps == ASSUME IceInv, PeerSends \/ Lost \/ NewNonce PROVE IceInv'
<1>1. CASE PeerSends
  <2>1. /\ phase \notin {"idle", "probe"} /\ net' = net \cup {Plain("peer")}
        /\ UNCHANGED <<phase, local, nonce, perm_addr, pairs, ask, lease, perms, fresh, heard, calm>>
    BY <1>1 DEF PeerSends, server, history
  <2>2. Plain("peer") \in Packets /\ Plain("peer").kind = "peer" BY PacketsMade
  <2> QED BY <2>1, <2>2, QuietKeeps DEF IceInv, ServerTypes
<1>2. CASE Lost
  <2>1. /\ net' \subseteq net /\ calm' \in {0, calm}
        /\ UNCHANGED <<phase, local, nonce, perm_addr, pairs, ask, lease, perms, fresh, heard>>
    BY <1>2 DEF Lost, server
  <2> QED BY <2>1, QuietKeeps DEF IceInv, ServerTypes
<1>3. CASE NewNonce
  <2>1. /\ fresh' = fresh + 1 /\ fresh < MaxNonce /\ calm' = 0
        /\ UNCHANGED <<phase, local, nonce, perm_addr, pairs, ask, net, lease, perms, heard>>
    BY <1>3 DEF NewNonce
  <2>2. fresh' \in 1 .. MaxNonce BY <2>1, Constants DEF IceInv, ServerTypes
  <2> QED BY <2>1, <2>2, QuietKeeps DEF IceInv, ServerTypes
<1> QED BY <1>1, <1>2, <1>3

LEMMA IceInductive == IceSpec => []IceInv
<1>1. IceInv /\ [IceNext]_icevars => IceInv'
  <2> SUFFICES ASSUME IceInv, [IceNext]_icevars PROVE IceInv' OBVIOUS
  <2>1. CASE UNCHANGED icevars
    <3>1. UNCHANGED <<phase, local, nonce, perm_addr, pairs, ask, net, server, history>> BY <2>1 DEF icevars
    <3>2. UNCHANGED <<lease, perms, fresh, heard, calm>> BY <3>1 DEF server, history
    <3> QED BY <3>1, <3>2, QuietKeeps DEF IceInv, ServerTypes
  <2> QED BY <2>1, GatherKeeps, AuthenticateKeeps, AddRelayKeeps, SendPermitKeeps, HearPermitKeeps,
            SetRemoteKeeps, SelectKeeps, VerifyKeeps, ReceiveKeeps, IntervalKeeps, NetworkKeeps
          DEF IceNext, Agent
<1> QED BY <1>1, IceStarts, PTL DEF IceSpec

(* The states of the pairs, the counters and the packets stay in range, for any number  *)
(* of candidates (agent.c:813-852).                                                     *)
THEOREM IceTypeCorrect == IceSpec => []IceTypeOK
<1>1. ASSUME IceInv PROVE IceTypeOK
  <2>1. ServerTypes /\ PairInv /\ net \subseteq Packets /\ heard \subseteq 1 .. nominated
    BY <1>1 DEF IceInv, NetInv, HeardInv
  <2>2. heard \subseteq 1 .. N BY <2>1, Constants DEF PairInv
  <2> QED BY <2>1, <2>2 DEF ServerTypes, PairInv, Phases, IceTypeOK
<1> QED BY <1>1, IceInductive, PTL

(* However packets are lost, late or reordered, no pair is selected without an answer    *)
(* to a check of it or of one before it (agent.c:617-627, 783-811).                      *)
THEOREM NothingSelectedUnheard == IceSpec => []SelectedWasAnswered
<1>1. ASSUME IceInv PROVE SelectedWasAnswered
  <2>1. phase = "up" => heard # {} /\ \A h \in heard : h <= nominated BY <1>1 DEF IceInv, HeardInv
  <2> QED BY <2>1 DEF SelectedWasAnswered
<1> QED BY <1>1, IceInductive, PTL

----------------------------------------------------------------------------
(* The keepalive                                                            *)

(* After an interval without a fault the server's nonce is known or on its way, and    *)
(* nothing older is; after two, what could be renewed has been.                        *)
CalmInv ==
  calm > 0 =>
    /\ phase = "up" /\ Allocated
    /\ \A p \in net : p.kind = "stale" => p.nonce = fresh
    /\ lease > 0 => nonce = fresh \/ Challenge(fresh) \in net
    /\ calm = 2 /\ lease > 0 =>
         lease = LeaseLife /\ (perm_addr # None => perms[perm_addr] = PermLife)

LEMMA IntervalRenews == ASSUME IceInv, CalmInv, Interval PROVE CalmInv'
<1>1. phase = "up" /\ Allocated /\ UNCHANGED <<phase, local, nonce, perm_addr, fresh>> BY DEF Interval
<1>2. lease \in 0 .. LeaseLife /\ calm \in 0 .. 2 /\ perm_addr \in Peers \cup {None} /\ LeaseLife \in Nat
  BY Constants DEF IceInv, ServerTypes
<1>3. PICK permit \in BOOLEAN, refresh \in BOOLEAN, reply \in BOOLEAN :
       /\ perms' = [r \in Peers |-> IF permit /\ Renews /\ r = perm_addr THEN PermLife ELSE Aged(perms[r])]
       /\ lease' = IF refresh /\ Renews THEN LeaseLife ELSE Aged(lease)
       /\ net' = IF reply /\ (permit \/ refresh) /\ lease > 1 /\ nonce # fresh
                 THEN net \cup {Challenge(fresh)} ELSE net
       /\ calm' = IF permit /\ refresh /\ reply /\ Unheard = {} THEN Calmer(calm) ELSE 0
  BY DEF Interval
<1>4. CASE ~(permit /\ refresh /\ reply /\ Unheard = {})
  <2>1. calm' = 0 BY <1>3, <1>4
  <2> QED BY <2>1 DEF CalmInv
<1>5. CASE permit /\ refresh /\ reply /\ Unheard = {}
  <2>1. /\ perms' = [r \in Peers |-> IF Renews /\ r = perm_addr THEN PermLife ELSE Aged(perms[r])]
        /\ lease' = IF Renews THEN LeaseLife ELSE Aged(lease)
        /\ net' = IF lease > 1 /\ nonce # fresh THEN net \cup {Challenge(fresh)} ELSE net
        /\ calm' = Calmer(calm)
    BY <1>3, <1>5
  <2>2. \A p \in net : p.kind # "stale" BY <1>5 DEF Unheard
  <2>3. Challenge(fresh).kind = "stale" /\ Challenge(fresh).nonce = fresh BY DEF Challenge
  <2>4. \A p \in net' : p.kind = "stale" => p.nonce = fresh' BY <1>1, <2>1, <2>2, <2>3
  <2>5. Allocated' BY <1>1 DEF Allocated
  <2>6. CASE lease <= 1
    <3>1. lease' = 0 BY <1>2, <2>1, <2>6 DEF Renews, Aged
    <3> QED BY <1>1, <2>4, <2>5, <3>1 DEF CalmInv
  <2>7. CASE lease > 1 /\ nonce = fresh
    <3>1. Renews BY <2>7 DEF Renews
    <3>2. lease' = LeaseLife /\ (perm_addr # None => perms'[perm_addr] = PermLife) BY <1>2, <2>1, <3>1
    <3> QED BY <1>1, <2>4, <2>5, <2>7, <3>2 DEF CalmInv
  <2>8. CASE lease > 1 /\ nonce # fresh
    <3>1. Challenge(fresh) \in net' BY <2>1, <2>8
    <3>2. calm = 0
      <4>1. Challenge(fresh) \notin net BY <2>2, <2>3
      <4> QED BY <1>2, <2>8, <4>1 DEF CalmInv
    <3>3. calm' = 1 BY <2>1, <3>2 DEF Calmer
    <3> QED BY <1>1, <2>4, <2>5, <3>1, <3>3 DEF CalmInv
  <2> QED BY <1>2, <2>6, <2>7, <2>8
<1> QED BY <1>4, <1>5

LEMMA CalmKept == ASSUME IceInv, CalmInv, [IceNext]_icevars PROVE CalmInv'
<1>1. calm \in 0 .. 2 BY DEF IceInv, ServerTypes
<1>2. ASSUME phase # "up", calm' = calm PROVE CalmInv' BY <1>1, <1>2 DEF CalmInv
<1>3. CASE Gather \/ AddRelay \/ SendPermit \/ HearPermit \/ SetRemote \/ Select
  BY <1>2, <1>3 DEF Gather, AddRelay, SendPermit, HearPermit, SetRemote, Select, history
<1>4. CASE Authenticate \/ PeerSends BY <1>2, <1>4 DEF Authenticate, PeerSends, history
<1>5. CASE Verify BY <1>2, <1>5 DEF Verify
<1>6. CASE Receive
  <2>1. PICK p \in net : net' = net \ {p} /\ Fold(p) BY <1>6 DEF Receive
  <2>2. UNCHANGED <<phase, local, perm_addr, lease, perms, fresh, calm>> BY <1>6 DEF Receive, server, history
  <2>3. CASE p.kind = "stale"
    <3>1. nonce' = p.nonce BY <2>1, <2>3 DEF Fold
    <3> QED BY <2>1, <2>2, <2>3, <3>1 DEF CalmInv, Allocated
  <2>4. CASE p.kind # "stale"
    <3>1. nonce' = nonce /\ p # Challenge(fresh) BY <2>1, <2>4 DEF Fold, Challenge
    <3> QED BY <2>1, <2>2, <3>1 DEF CalmInv, Allocated
  <2> QED BY <2>3, <2>4
<1>7. CASE Interval BY <1>7, IntervalRenews
<1>8. CASE Lost
  <2>1. PICK p \in net : net' = net \ {p} /\ calm' = IF p.kind = "stale" THEN 0 ELSE calm BY <1>8 DEF Lost
  <2>2. UNCHANGED <<phase, local, nonce, perm_addr, lease, perms, fresh>> BY <1>8 DEF Lost, server
  <2>3. CASE p.kind = "stale" BY <2>1, <2>3 DEF CalmInv
  <2>4. CASE p.kind # "stale"
    <3>1. p # Challenge(fresh) BY <2>4 DEF Challenge
    <3> QED BY <2>1, <2>2, <2>4, <3>1 DEF CalmInv, Allocated
  <2> QED BY <2>3, <2>4
<1>9. CASE NewNonce BY <1>9 DEF NewNonce, CalmInv
<1>10. CASE UNCHANGED icevars
  <2>1. UNCHANGED <<phase, local, nonce, perm_addr, net, server, history>> BY <1>10 DEF icevars
  <2>2. UNCHANGED <<lease, perms, fresh, calm>> BY <2>1 DEF server, history
  <2> QED BY <2>1, <2>2 DEF CalmInv, Allocated
<1> QED BY <1>3, <1>4, <1>5, <1>6, <1>7, <1>8, <1>9, <1>10 DEF IceNext, Agent

(* Whatever nonce the server changes to and whenever, and whatever was lost before, two  *)
(* intervals without a fault renew what can be renewed (agent.c:390-422, 679-694).        *)
THEOREM KeepaliveAlwaysRecovers == IceSpec => []KeepaliveRecovers
<1>1. IceInit => CalmInv BY DEF IceInit, CalmInv
<1>2. CalmInv => KeepaliveRecovers BY DEF CalmInv, KeepaliveRecovers
<1>3. IceSpec => []CalmInv BY <1>1, CalmKept, IceInductive, PTL DEF IceSpec
<1> QED BY <1>2, <1>3, PTL
----------------------------------------------------------------------------
(* How the agent comes to a decision: the safe half of Decides.              *)

Deciding  == phase \in {"permit", "check", "verify"}
Answering == phase = "permit" /\ ask.from = "answer"    \* still handling the answer
Stage     == CASE phase = "permit" -> 2 [] phase = "verify" -> 1 [] OTHER -> 0

\* What is left to do, the weightiest first: the candidates of the answer, the pairs, the
\* checks of this pair, the stages of one check, the candidate and attempt asked for.
Ahead == <<Answering, nominated, conncheck, Stage, ask.who, ask.left, ask.sent>>

Nearer ==
  \/ Answering /\ ~Answering'
  \/ /\ Answering' = Answering
     /\ \/ nominated' > nominated
        \/ /\ nominated' = nominated
           /\ \/ conncheck' > conncheck
              \/ /\ conncheck' = conncheck
                 /\ \/ Stage' < Stage
                    \/ /\ Stage' = Stage
                       /\ \/ ask.who' > ask.who
                          \/ ask.who' = ask.who /\ ask.left' < ask.left
                          \/ ask.who' = ask.who /\ ask.left' = ask.left /\ ~ask.sent /\ ask.sent'

\* What is counted is bounded: here the requests, the rest by the type invariant.
Countable == ask \in [who : 0 .. N, left : 0 .. 2, sent : BOOLEAN, from : {"none", "answer", "nominate"}]

StepsForward ==
  Deciding => IF Agent THEN Nearer \/ phase' \in {"up", "failed"} ELSE UNCHANGED Ahead

LEMMA HearPermitNearer == ASSUME IceInv, Countable, HearPermit PROVE Nearer
<1>1. /\ phase = "permit" /\ ask.sent /\ UNCHANGED <<nominated, conncheck>>
      /\ ask.who \in 1 .. N /\ N \in Nat
  BY Constants DEF HearPermit, pairs, IceInv, AskInv
<1>2. CASE PermitDone
  <2>1. CASE ask.from = "answer" /\ ask.who < N /\ AskFor(ask.who + 1, "answer")
    <3>1. phase' = "permit" /\ ask'.from = "answer" /\ ask'.who = ask.who + 1 BY <2>1 DEF AskFor
    <3>2. Answering /\ Answering' BY <1>1, <2>1, <3>1 DEF Answering
    <3>3. Stage' = Stage BY <1>1, <3>1 DEF Stage
    <3>4. ask'.who > ask.who BY <1>1, <3>1
    <3> QED BY <1>1, <3>2, <3>3, <3>4 DEF Nearer
  <2>2. CASE ask.from = "answer" /\ phase' = "check" BY <1>1, <2>2 DEF Nearer, Answering
  <2>3. CASE ask.from = "nominate" /\ phase' = "verify"
    <3>1. Answering' = Answering BY <2>3 DEF Answering
    <3>2. Stage = 2 /\ Stage' = 1 BY <1>1, <2>3 DEF Stage
    <3> QED BY <1>1, <3>1, <3>2 DEF Nearer
  <2> QED BY <1>2, <2>1, <2>2, <2>3 DEF PermitDone
<1>3. CASE ask.left = 2 /\ ask' = [ask EXCEPT !.left = 1, !.sent = FALSE] /\ UNCHANGED phase
  <2>1. ask'.who = ask.who /\ ask'.from = ask.from /\ ask'.left = 1 BY <1>3 DEF Countable
  <2>2. Answering' = Answering BY <1>3, <2>1 DEF Answering
  <2>3. Stage' = Stage BY <1>3 DEF Stage
  <2> QED BY <1>1, <1>3, <2>1, <2>2, <2>3 DEF Nearer
<1> QED BY <1>2, <1>3 DEF HearPermit

LEMMA SelectNearer == ASSUME IceInv, Select PROVE Nearer \/ phase' = "failed"
<1>1. phase = "check" /\ ~Answering /\ nominated \in Nat /\ conncheck \in Nat
  BY Constants DEF Select, Answering, IceInv, PairInv
<1>2. ASSUME NEW i \in 1 .. N, i > nominated, Nominate(i) PROVE Nearer
  <2>1. nominated' = i /\ Answering' = Answering BY <1>1, <1>2 DEF Nominate, AskFor, Answering
  <2> QED BY <1>1, <1>2, <2>1 DEF Nearer
<1>3. CASE nominated = 0 /\ Nominate(1) BY <1>2, <1>3, Constants
<1>4. CASE nominated \in 1 .. N - 1 /\ Nominate(nominated + 1) BY <1>2, <1>4, Constants
<1>5. CASE conncheck' = conncheck + 1 /\ phase' = "verify" /\ UNCHANGED nominated
  <2>1. Answering' = Answering BY <1>1, <1>5 DEF Answering
  <2> QED BY <1>1, <1>5, <2>1 DEF Nearer
<1> QED BY <1>3, <1>4, <1>5 DEF Select

LEMMA CountableKept == ASSUME IceInv, Countable, [IceNext]_icevars PROVE Countable'
<1> USE Constants DEF Countable
<1>1. ASSUME UNCHANGED ask PROVE Countable' BY <1>1
<1>2. ASSUME NEW i \in 1 .. N, NEW caller \in {"answer", "nominate"}, AskFor(i, caller)
      PROVE  Countable' BY <1>2 DEF AskFor
<1>3. ASSUME ask' = Idle PROVE Countable' BY <1>3 DEF Idle
<1>4. CASE Gather \/ Authenticate \/ AddRelay \/ Verify
  BY <1>1, <1>4 DEF Gather, Authenticate, AddRelay, Verify
<1>5. CASE Receive \/ Interval \/ PeerSends \/ Lost \/ NewNonce
  BY <1>1, <1>5 DEF Receive, Interval, PeerSends, Lost, NewNonce
<1>6. CASE SendPermit
  <2>1. ask' = [ask EXCEPT !.sent = TRUE] BY <1>6 DEF SendPermit
  <2> QED BY <2>1
<1>7. CASE HearPermit
  <2>1. phase = "permit" /\ ask.who \in 1 .. N BY <1>7 DEF HearPermit, IceInv, AskInv
  <2>2. CASE PermitDone
    <3>1. CASE ask.who < N /\ AskFor(ask.who + 1, "answer")
      <4>1. ask.who + 1 \in 1 .. N BY <2>1, <3>1
      <4> QED BY <1>2, <3>1, <4>1
    <3> QED BY <1>3, <2>2, <3>1 DEF PermitDone
  <2>3. CASE ask.left = 2 /\ ask' = [ask EXCEPT !.left = 1, !.sent = FALSE]
    <3> DEFINE less == [ask EXCEPT !.left = 1]
    <3>1. less \in [who : 0 .. N, left : 0 .. 2, sent : BOOLEAN, from : {"none", "answer", "nominate"}]
      OBVIOUS
    <3>2. ask' = [less EXCEPT !.sent = FALSE] BY <2>3
    <3> HIDE DEF less
    <3> QED BY <3>1, <3>2
  <2> QED BY <1>7, <2>2, <2>3 DEF HearPermit
<1>8. CASE SetRemote BY <1>1, <1>2, <1>8 DEF SetRemote
<1>9. CASE Select
  <2>1. ASSUME NEW i \in 1 .. N, Nominate(i) PROVE Countable' BY <1>1, <1>2, <2>1 DEF Nominate
  <2>2. nominated \in 0 .. N BY DEF IceInv, PairInv
  <2> QED BY <1>1, <1>9, <2>1, <2>2 DEF Select, pairs
<1>10. CASE UNCHANGED icevars BY <1>1, <1>10 DEF icevars
<1> QED BY <1>4, <1>5, <1>6, <1>7, <1>8, <1>9, <1>10 DEF IceNext, Agent

(* From the answer on every step of the agent brings it nearer to a pair or to giving up, *)
(* and nothing that the relay, the peer or the network does sets it back: no late ack,    *)
(* stale nonce or stray packet starts the checks, the requests or the pairs again.  All   *)
(* that is counted is bounded, so a bounded number of steps leads to a decision            *)
(* (agent.c:616-660, 764-852).                                                            *)
THEOREM AgentStepsForward == IceSpec => []Countable /\ [][StepsForward]_icevars
<1>1. IceInv /\ Countable /\ [IceNext]_icevars => [StepsForward]_icevars
  <2> SUFFICES ASSUME IceInv, Countable, IceNext, Deciding
               PROVE  IF Agent THEN Nearer \/ phase' \in {"up", "failed"} ELSE UNCHANGED Ahead
    BY DEF StepsForward
  <2>1. CASE Agent
    <3>1. SendPermit \/ HearPermit \/ Select \/ Verify
      BY <2>1 DEF Agent, Deciding, Gather, Authenticate, AddRelay, SetRemote
    <3>2. CASE SendPermit
      <4>1. /\ phase = "permit" /\ phase' = phase /\ ~ask.sent /\ ask' = [ask EXCEPT !.sent = TRUE]
            /\ UNCHANGED <<nominated, conncheck>>
        BY <3>2 DEF SendPermit, pairs
      <4>2. ask'.who = ask.who /\ ask'.left = ask.left /\ ask'.from = ask.from /\ ask'.sent
        BY <4>1 DEF Countable
      <4>3. Answering' = Answering BY <4>1, <4>2 DEF Answering
      <4>4. Stage' = Stage BY <4>1 DEF Stage
      <4>5. Nearer BY <4>1, <4>2, <4>3, <4>4 DEF Nearer
      <4> QED BY <2>1, <4>5
    <3>3. CASE HearPermit BY <2>1, <3>3, HearPermitNearer
    <3>4. CASE Select BY <2>1, <3>4, SelectNearer
    <3>5. CASE Verify
      <4>1. phase = "verify" /\ phase' \in {"check", "up"} /\ UNCHANGED <<nominated, conncheck>>
        BY <3>5 DEF Verify
      <4>2. CASE phase' = "check"
        <5>1. Answering' = Answering BY <4>1, <4>2 DEF Answering
        <5>2. Stage = 1 /\ Stage' = 0 BY <4>1, <4>2 DEF Stage
        <5>3. Nearer BY <4>1, <5>1, <5>2 DEF Nearer
        <5> QED BY <2>1, <5>3
      <4> QED BY <2>1, <4>1, <4>2
    <3> QED BY <3>1, <3>2, <3>3, <3>4, <3>5
  <2>2. CASE ~Agent
    <3>1. UNCHANGED <<phase, ask, nominated, conncheck>>
      BY <2>2 DEF IceNext, Deciding, Receive, Interval, PeerSends, Lost, NewNonce, pairs
    <3>2. Answering' = Answering BY <3>1 DEF Answering
    <3>3. Stage' = Stage BY <3>1 DEF Stage
    <3> QED BY <2>2, <3>1, <3>2, <3>3 DEF Ahead
  <2> QED BY <2>1, <2>2
<1>2. IceInit => Countable BY Constants DEF IceInit, Countable, Idle
<1>3. IceSpec => []Countable BY <1>2, CountableKept, IceInductive, PTL DEF IceSpec
<1>4. IceSpec => [][StepsForward]_icevars BY <1>1, <1>3, IceInductive, PTL DEF IceSpec
<1> QED BY <1>3, <1>4
===============================================================================
