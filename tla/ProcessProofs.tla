---------------------------- MODULE ProcessProofs ----------------------------
(***************************************************************************)
(* A validator process, for every capacity, every set of peers and any     *)
(* number of clients and blocks: its network part and its RPC part keep    *)
(* what they promise each on its own, and a standstill of the one does not *)
(* show in the other.                                                      *)
(***************************************************************************)
EXTENDS Process, RpcViewProofs

NetTypes ==
    /\ msgs \in 0 .. Capacity /\ txs \in 0 .. Capacity /\ broadcasts \in 0 .. Capacity
    /\ txBroadcasts \in 0 .. Capacity /\ gossip \in 0 .. Capacity
    /\ runner \in {"select", "msgs", "txs"}
    /\ loop \in {"select", "commit", "broadcasts", "txBroadcasts"}
    /\ conns \in [Peers -> 0 .. MaxConns]
    /\ DOMAIN score \subseteq Peers /\ \A p \in DOMAIN score : score[p] \in Int /\ score[p] <= 0

NetInv == NetTypes /\ TrackedAreConnected

LEMMA NetInvInit == NetworkInit => NetInv
<1> SUFFICES ASSUME NetworkInit PROVE NetInv
  OBVIOUS
<1>1. NetTypes
  BY NetworkAssumption DEF NetworkInit, NetTypes
<1>2. DOMAIN score = {}
  BY DEF NetworkInit
<1> QED BY <1>1, <1>2 DEF NetInv, TrackedAreConnected

(* The steps on channels leave the peers alone. *)
ChannelSteps ==
    \/ SwarmMessage \/ RunnerSendMessage \/ RunnerSendTx \/ RunnerPublish \/ RunnerPublishTx
    \/ LoopMessage \/ LoopCommitted \/ LoopStep \/ Submit

LEMMA ChannelStep ==
    ASSUME NetInv, ChannelSteps
    PROVE  NetInv'
<1>1. UNCHANGED <<conns, score>>
  BY DEF ChannelSteps, SwarmMessage, RunnerSendMessage, RunnerSendTx, RunnerPublish,
         RunnerPublishTx, LoopStep, LoopMessage, LoopCommitted, LoopTx, LoopGossip,
         LoopSendMessage, LoopSendTx, LoopTimeout, Submit, networkVars
<1>2. /\ msgs' \in 0 .. Capacity /\ txs' \in 0 .. Capacity /\ broadcasts' \in 0 .. Capacity
      /\ txBroadcasts' \in 0 .. Capacity /\ gossip' \in 0 .. Capacity
      /\ runner' \in {"select", "msgs", "txs"}
      /\ loop' \in {"select", "commit", "broadcasts", "txBroadcasts"}
  <2> USE NetworkAssumption DEF NetInv, NetTypes
  <2>1. CASE SwarmMessage \/ LoopCommitted
    BY <2>1 DEF SwarmMessage, LoopCommitted, channels
  <2>2. CASE RunnerSendMessage \/ RunnerSendTx \/ RunnerPublish \/ RunnerPublishTx
    BY <2>2 DEF RunnerSendMessage, RunnerSendTx, RunnerPublish, RunnerPublishTx
  <2>3. CASE LoopMessage
    BY <2>3 DEF LoopMessage
  <2>4. CASE LoopStep
    BY <2>4 DEF LoopStep, LoopTimeout, LoopTx, LoopGossip, LoopSendMessage, LoopSendTx, channels
  <2>5. CASE Submit
    BY <2>5 DEF Submit, networkVars, channels
  <2> QED BY <2>1, <2>2, <2>3, <2>4, <2>5 DEF ChannelSteps
<1> QED BY <1>1, <1>2 DEF NetInv, NetTypes, TrackedAreConnected

(* A connection that closes takes the record with it. *)
LEMMA PeerStep ==
    ASSUME NetInv, NEW p \in Peers,
           SwarmUndecodable(p) \/ ConnectionEstablished(p) \/ ConnectionClosed(p)
    PROVE  NetInv'
<1>1. UNCHANGED <<channels, runner, loop>>
  BY DEF SwarmUndecodable, ConnectionEstablished, ConnectionClosed
<1>2. /\ conns' \in [Peers -> 0 .. MaxConns]
      /\ DOMAIN score' \subseteq Peers
      /\ \A q \in DOMAIN score' : score'[q] \in Int /\ score'[q] <= 0 /\ conns'[q] > 0
  <2> USE NetworkAssumption DEF NetInv, NetTypes, TrackedAreConnected
  <2>1. CASE SwarmUndecodable(p)
    BY <2>1 DEF SwarmUndecodable
  <2>2. CASE ConnectionEstablished(p)
    BY <2>2 DEF ConnectionEstablished
  <2>3. CASE ConnectionClosed(p)
    BY <2>3 DEF ConnectionClosed, Restrict
  <2> QED BY <2>1, <2>2, <2>3
<1> QED BY <1>1, <1>2 DEF NetInv, NetTypes, TrackedAreConnected, channels

LEMMA NetInvNext == NetInv /\ [NetworkNext]_networkVars => NetInv'
<1>1. ASSUME NetInv, UNCHANGED networkVars PROVE NetInv'
  BY <1>1 DEF networkVars, channels, NetInv, NetTypes, TrackedAreConnected
<1> QED BY <1>1, ChannelStep, PeerStep DEF NetworkNext, RunnerStep, ChannelSteps

-----------------------------------------------------------------------------
(* Every step of the process is a step of the network part, or leaves it alone,
   and the same holds of the RPC part.                                       *)
LEMMA StepsOfBoth ==
    ASSUME [Next]_vars
    PROVE  [NetworkNext]_networkVars /\ [RpcNext]_rpcVars
<1>1. CASE UNCHANGED vars
  BY <1>1 DEF vars
<1>2. CASE HandleMessage
  BY <1>2 DEF HandleMessage, NetworkNext, RpcNext
<1>3. CASE ApplyCommit
  BY <1>3 DEF ApplyCommit, RpcNext
<1>4. CASE FinishCommit
  BY <1>4 DEF FinishCommit, NetworkNext, RpcNext
<1>5. CASE (RunnerStep \/ LoopStep \/ Submit) /\ UNCHANGED rpcVars
  BY <1>5 DEF NetworkNext
<1>6. CASE RpcCall /\ UNCHANGED networkVars
  BY <1>6 DEF RpcNext
<1> QED BY <1>1, <1>2, <1>3, <1>4, <1>5, <1>6 DEF Next

(* The event loop is in apply_commit exactly while a commit is half published. *)
InCommit == loop = "commit" <=> publishing # "idle"

LEMMA InCommitNext ==
    ASSUME InCommit, [Next]_vars
    PROVE  InCommit'
<1>1. CASE UNCHANGED vars
  BY <1>1 DEF vars, networkVars, rpcVars, chainVars, InCommit
<1>2. CASE HandleMessage
  BY <1>2 DEF HandleMessage, LoopMessage, Decide, rpcVars, chainVars, InCommit
<1>3. CASE ApplyCommit
  BY <1>3 DEF ApplyCommit, Publish, PublishHeight, PublishFee, PublishBlock, networkVars, InCommit
<1>4. CASE FinishCommit
  BY <1>4 DEF FinishCommit, LoopCommitted, AdvanceHeight, InCommit
<1>5. CASE (RunnerStep \/ LoopStep \/ Submit) /\ UNCHANGED rpcVars
  <2>1. publishing' = publishing
    BY <1>5 DEF rpcVars, chainVars
  <2>2. loop' = loop \/ (loop # "commit" /\ loop' # "commit")
    <3>1. CASE RunnerStep
      BY <3>1 DEF RunnerStep, SwarmMessage, RunnerSendMessage, RunnerSendTx, RunnerPublish,
                  RunnerPublishTx, SwarmUndecodable, ConnectionEstablished, ConnectionClosed
    <3>2. CASE LoopStep
      BY <3>2 DEF LoopStep, LoopTimeout, LoopTx, LoopGossip, LoopSendMessage, LoopSendTx
    <3>3. CASE Submit
      BY <3>3 DEF Submit, networkVars
    <3> QED BY <1>5, <3>1, <3>2, <3>3
  <2> QED BY <2>1, <2>2 DEF InCommit
<1>6. CASE RpcCall /\ UNCHANGED networkVars
  <2>1. UNCHANGED <<chainVars, loop>>
    BY <1>6 DEF RpcCall, GetBlock, GetBlockMissed, GetLatestBlock, GetLatestMissed, Health,
                GetFeeInfo, networkVars
  <2> QED BY <2>1 DEF chainVars, InCommit
<1> QED BY <1>1, <1>2, <1>3, <1>4, <1>5, <1>6 DEF Next

ProcessInv == NetInv /\ Inv /\ InCommit

LEMMA ProcessInvariant == Spec => []ProcessInv
<1>1. Init => ProcessInv
  <2>1. Init => InCommit
    BY DEF Init, NetworkInit, RpcInit, InCommit
  <2> QED BY <2>1, NetInvInit, InvInit DEF Init, ProcessInv
<1>2. ProcessInv /\ [Next]_vars => ProcessInv'
  BY StepsOfBoth, NetInvNext, InvNext, InCommitNext DEF ProcessInv
<1> QED BY <1>1, <1>2, PTL DEF Spec

-----------------------------------------------------------------------------
(* For every capacity: no channel between the two tasks is overfilled. *)
THEOREM ChannelsBounded == Spec => []ChannelsOK
<1>1. ProcessInv => ChannelsOK
  BY DEF ProcessInv, NetInv, NetTypes, ChannelsOK
<1> QED BY <1>1, ProcessInvariant, PTL

(* For any peers and any number of connections: a record never outlives the
   connections it was kept for.                                              *)
THEOREM RecordsAreCurrent == Spec => []TrackedAreConnected
<1>1. ProcessInv => TrackedAreConnected
  BY DEF ProcessInv, NetInv
<1> QED BY <1>1, ProcessInvariant, PTL

(* What RpcView promises to RPC clients holds in the process, whatever its network
   task and event loop are doing or waiting for meanwhile.                   *)
THEOREM ProcessServesClients ==
    Spec => [](AnswersTheRequest /\ PlaceholderIsInFlight /\ ToldIsServed /\ FeeFollowsBlocks)
<1>1. ProcessInv =>
        AnswersTheRequest /\ PlaceholderIsInFlight /\ ToldIsServed /\ FeeFollowsBlocks
  BY DEF ProcessInv, Inv
<1> QED BY <1>1, ProcessInvariant, PTL

(* A process whose event loop waits for a channel, for ever perhaps, serves no
   half-published commit: for every capacity, any clients and blocks.        *)
THEOREM StandstillIsSettled == Spec => []SettledWhileWaiting
<1>1. ProcessInv => SettledWhileWaiting
  <2> SUFFICES ASSUME ProcessInv, loop \in {"broadcasts", "txBroadcasts"}
               PROVE  (Stored > 0 => Stored = currentHeight + 1) /\ Stored = baseFee /\ Stored = height
    BY DEF SettledWhileWaiting
  <2>1. publishing = "idle" /\ Stored \in Nat
    BY DEF ProcessInv, InCommit, Inv, Types, Stored
  <2> QED BY <2>1 DEF ProcessInv, Inv, Published, LastStored
<1> QED BY <1>1, ProcessInvariant, PTL
=============================================================================
