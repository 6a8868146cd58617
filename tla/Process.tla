------------------------------- MODULE Process -------------------------------
(***************************************************************************)
(* A validator process: the network task, the event loop and the RPC       *)
(* handlers over the channels of Network and the shared values of RpcView. *)
(* A commit is taken up by the event loop's message branch and applied     *)
(* there: until the state machine has moved on, the loop neither receives  *)
(* nor sends, while handlers read and the network task goes on.            *)
(***************************************************************************)
EXTENDS Network, RpcView

vars == <<networkVars, rpcVars>>

Init == NetworkInit /\ RpcInit

(* The message that completes a quorum of precommits starts a commit. *)
HandleMessage ==
    /\ LoopMessage
    /\ IF loop' = "commit" THEN Decide ELSE UNCHANGED rpcVars

(* apply_commit, one shared value at a time. *)
ApplyCommit == loop = "commit" /\ Publish /\ UNCHANGED networkVars

(* Mutant of FinishCommit: the next height is proposed, and the outbound channel
   waited for, before the committed block is stored.                         *)
ProposeBeforeStoring ==
    /\ publishing \in {"fee", "block", "advance"}
    /\ LoopCommitted
    /\ IF publishing = "advance" THEN AdvanceHeight ELSE UNCHANGED rpcVars

(* The state machine moves on, then the event loop proposes, if that is its
   turn: only now may it have to wait for the network task.                  *)
FinishCommit == LoopCommitted /\ AdvanceHeight

Next ==
    \/ HandleMessage
    \/ ApplyCommit
    \/ FinishCommit
    \/ (RunnerStep \/ LoopStep \/ Submit) /\ UNCHANGED rpcVars
    \/ RpcCall /\ UNCHANGED networkVars

Spec == Init /\ [][Next]_vars

-----------------------------------------------------------------------------
(* Whenever the event loop waits for room in a channel, and it may wait for ever
   (OutboundIsServed), the values RPC clients read are settled as RpcState's
   comment has it, block_store.len() == current_height + 1, and the fee is that
   of the last block: a node that stands still does not serve half a commit. *)
SettledWhileWaiting ==
    loop \in {"broadcasts", "txBroadcasts"} =>
        /\ Stored > 0 => Stored = currentHeight + 1
        /\ Stored = baseFee
        /\ Stored = height
=============================================================================
