------------------------------- MODULE Network -------------------------------
(***************************************************************************)
(* The two tasks of a validator process and the bounded channels between   *)
(* them: the NetworkRunner, which drives the libp2p swarm                  *)
(* (consensus/net/src/network.rs), and the event loop of                   *)
(* validator/src/main.rs, fed by timers and, through one more channel, by  *)
(* the RPC server.  Both tasks await the channel they send to, and neither *)
(* receives while it does.  What a message says plays no part here, so a   *)
(* channel is the number of messages in it.                                *)
(***************************************************************************)
EXTENDS Integers, Functions

CONSTANTS
    Capacity,     \* of every channel (256 in the code)
    Peers,
    MaxConns,     \* bound: connections a peer has at the same time
    MaxBad        \* bound: undecodable messages that are counted

ASSUME NetworkAssumption ==
    /\ Capacity \in Nat \ {0}
    /\ {MaxConns, MaxBad} \subseteq Nat

VARIABLES
    msgs,        \* msg_tx -> msg_rx: inbound consensus messages
    txs,         \* tx_msg_tx -> tx_msg_rx: inbound transactions
    broadcasts,  \* broadcast_tx -> broadcast_rx: outbound consensus messages
    txBroadcasts,\* tx_broadcast_tx -> tx_broadcast_rx: outbound transactions
    gossip,      \* tx_gossip_tx -> tx_gossip_rx: transactions from the RPC server
    runner,      \* "select", or the channel it waits to send to
    loop,        \* the same for the event loop, or "commit": in apply_commit
    conns,       \* conns[p]: the swarm's connections to p (external)
    score        \* score[p] for the peers in PeerManager::peers

channels == <<msgs, txs, broadcasts, txBroadcasts, gossip>>
networkVars == <<channels, runner, loop, conns, score>>

NetworkInit ==
    /\ msgs = 0 /\ txs = 0 /\ broadcasts = 0 /\ txBroadcasts = 0 /\ gossip = 0
    /\ runner = "select" /\ loop = "select"
    /\ conns = [p \in Peers |-> 0]
    /\ score = [p \in {} |-> 0]

-----------------------------------------------------------------------------
(* NetworkRunner::run: one branch of the select at a time. *)

(* A message that decodes is sent on to the event loop ... *)
SwarmMessage ==
    /\ runner = "select"
    /\ \E p \in Peers : conns[p] > 0
    /\ runner' \in {"msgs", "txs"}
    /\ UNCHANGED <<channels, loop, conns, score>>

(* ... for which the runner waits until the channel has room. *)
RunnerSendMessage ==
    /\ runner = "msgs" /\ msgs < Capacity
    /\ msgs' = msgs + 1 /\ runner' = "select"
    /\ UNCHANGED <<txs, broadcasts, txBroadcasts, gossip, loop, conns, score>>

RunnerSendTx ==
    /\ runner = "txs" /\ txs < Capacity
    /\ txs' = txs + 1 /\ runner' = "select"
    /\ UNCHANGED <<msgs, broadcasts, txBroadcasts, gossip, loop, conns, score>>

(* adjust_score(-10), on peers the manager knows. *)
SwarmUndecodable(p) ==
    /\ runner = "select" /\ conns[p] > 0
    /\ p \in DOMAIN score => score[p] > -10 * MaxBad
    /\ score' = [q \in DOMAIN score |-> IF q = p THEN score[q] - 10 ELSE score[q]]
    /\ UNCHANGED <<channels, runner, loop, conns>>

(* add_peer keeps what it has of a known peer. *)
ConnectionEstablished(p) ==
    /\ runner = "select" /\ conns[p] < MaxConns
    /\ conns' = [conns EXCEPT ![p] = @ + 1]
    /\ score' = [q \in DOMAIN score \cup {p} |-> IF q \in DOMAIN score THEN score[q] ELSE 0]
    /\ UNCHANGED <<channels, runner, loop>>

(* Mutant of ConnectionClosed: the peer is kept on record. *)
ConnectionClosedKeepingPeer(p) ==
    /\ runner = "select" /\ conns[p] > 0
    /\ conns' = [conns EXCEPT ![p] = @ - 1]
    /\ UNCHANGED <<channels, runner, loop, score>>

(* remove_peer, whether or not another connection to the peer remains. *)
ConnectionClosed(p) ==
    /\ runner = "select" /\ conns[p] > 0
    /\ conns' = [conns EXCEPT ![p] = @ - 1]
    /\ score' = Restrict(score, DOMAIN score \ {p})
    /\ UNCHANGED <<channels, runner, loop>>

RunnerPublish ==
    /\ runner = "select" /\ broadcasts > 0
    /\ broadcasts' = broadcasts - 1
    /\ UNCHANGED <<msgs, txs, txBroadcasts, gossip, runner, loop, conns, score>>

RunnerPublishTx ==
    /\ runner = "select" /\ txBroadcasts > 0
    /\ txBroadcasts' = txBroadcasts - 1
    /\ UNCHANGED <<msgs, txs, broadcasts, gossip, runner, loop, conns, score>>

-----------------------------------------------------------------------------
(* The event loop: a branch handles its event and then sends what it has to
   say, at most one message.  A vote may also complete a commit.             *)
LoopMessage ==
    /\ loop = "select" /\ msgs > 0
    /\ msgs' = msgs - 1
    /\ loop' \in {"select", "broadcasts", "commit"}
    /\ UNCHANGED <<txs, broadcasts, txBroadcasts, gossip, runner, conns, score>>

(* The commit is applied; the proposer of the next height goes on to propose. *)
LoopCommitted ==
    /\ loop = "commit"
    /\ loop' \in {"select", "broadcasts"}
    /\ UNCHANGED <<channels, runner, conns, score>>

(* A timer fires and the node votes, or proposes in the next round. *)
LoopTimeout ==
    /\ loop = "select"
    /\ loop' = "broadcasts"
    /\ UNCHANGED <<channels, runner, conns, score>>

(* A gossiped transaction goes to the mempool, with no answer. *)
LoopTx ==
    /\ loop = "select" /\ txs > 0
    /\ txs' = txs - 1
    /\ UNCHANGED <<msgs, broadcasts, txBroadcasts, gossip, runner, loop, conns, score>>

LoopGossip ==
    /\ loop = "select" /\ gossip > 0
    /\ gossip' = gossip - 1 /\ loop' = "txBroadcasts"
    /\ UNCHANGED <<msgs, txs, broadcasts, txBroadcasts, runner, conns, score>>

(* broadcast_message and broadcast_transaction wait for room. *)
LoopSendMessage ==
    /\ loop = "broadcasts" /\ broadcasts < Capacity
    /\ broadcasts' = broadcasts + 1 /\ loop' = "select"
    /\ UNCHANGED <<msgs, txs, txBroadcasts, gossip, runner, conns, score>>

LoopSendTx ==
    /\ loop = "txBroadcasts" /\ txBroadcasts < Capacity
    /\ txBroadcasts' = txBroadcasts + 1 /\ loop' = "select"
    /\ UNCHANGED <<msgs, txs, broadcasts, gossip, runner, conns, score>>

(* submit_transaction uses try_send: a full channel drops the transaction.  One
   that the mempool refuses is not gossiped.                                 *)
Submit ==
    \/ /\ gossip < Capacity
       /\ gossip' = gossip + 1
       /\ UNCHANGED <<msgs, txs, broadcasts, txBroadcasts, runner, loop, conns, score>>
    \/ UNCHANGED networkVars

-----------------------------------------------------------------------------
(* What the runner does without the event loop's doing, and the RPC server. *)
RunnerStep ==
    \/ SwarmMessage \/ RunnerSendMessage \/ RunnerSendTx \/ RunnerPublish \/ RunnerPublishTx
    \/ \E p \in Peers :
          SwarmUndecodable(p) \/ ConnectionEstablished(p) \/ ConnectionClosed(p)

(* What the event loop does outside of commits. *)
LoopStep == LoopTimeout \/ LoopTx \/ LoopGossip \/ LoopSendMessage \/ LoopSendTx

NetworkNext == RunnerStep \/ LoopStep \/ LoopMessage \/ LoopCommitted \/ Submit

(* Each task runs whenever it can, and tokio's select picks its branch at
   random among the ready ones, so that no branch is passed over forever.    *)
Fairness ==
    /\ WF_networkVars(RunnerSendMessage) /\ WF_networkVars(RunnerSendTx)
    /\ SF_networkVars(RunnerPublish) /\ SF_networkVars(RunnerPublishTx)
    /\ SF_networkVars(LoopMessage) /\ SF_networkVars(LoopTx) /\ SF_networkVars(LoopGossip)
    /\ WF_networkVars(LoopCommitted)
    /\ WF_networkVars(LoopSendMessage) /\ WF_networkVars(LoopSendTx)

NetworkSpec == NetworkInit /\ [][NetworkNext]_networkVars /\ Fairness

-----------------------------------------------------------------------------
ChannelsOK ==
    /\ {msgs, txs, broadcasts, txBroadcasts, gossip} \subseteq 0 .. Capacity
    /\ runner \in {"select", "msgs", "txs"}
    /\ loop \in {"select", "commit", "broadcasts", "txBroadcasts"}
    /\ conns \in [Peers -> 0 .. MaxConns]
    /\ DOMAIN score \subseteq Peers /\ \A p \in DOMAIN score : score[p] <= 0

(* The peers on record are connected: a peer whose last connection is gone
   leaves no score behind that would count against its next one.             *)
TrackedAreConnected == \A p \in DOMAIN score : conns[p] > 0

(* NetworkRunner::run says it polls the swarm and receives outbound requests
   simultaneously: so whatever the peers send, the event loop gets what it has to
   send across to the runner.  It does not: the branch that has decoded a message
   awaits room in the inbound channel, which only the waiting loop could make. *)
OutboundIsServed == loop \in {"broadcasts", "txBroadcasts"} ~> loop = "select"
=============================================================================
