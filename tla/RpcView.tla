-------------------------------- MODULE RpcView --------------------------------
(***************************************************************************)
(* What RPC clients see of the chain while blocks are committed.  The BFT  *)
(* state machine decides a block at its own height; the event loop then    *)
(* publishes it in three steps, current_height, base_fee and block_store,  *)
(* each under its own lock (main.rs, apply_commit), and moves the state    *)
(* machine on.  The store is addressed by position, its blocks carry the   *)
(* consensus height: nothing but the order of these steps relates the two. *)
(* Handlers run on other threads and read one value after the other        *)
(* (rpc/src/server.rs).  The validator list and count are set at the start *)
(* and never change, so calls that only read them are left out.            *)
(***************************************************************************)
EXTENDS Integers, Sequences

CONSTANTS
    Clients,     \* concurrent RPC calls
    MaxHeight    \* bound: blocks 0 .. MaxHeight-1 are committed

ASSUME RpcAssumption == MaxHeight \in Nat

VARIABLES
    height,         \* bft.height of the state machine
    committing,     \* the height of the CommitBlock that is being applied
    currentHeight,  \* current_height
    baseFee,        \* base_fee: the number of commits it takes into account
    blockStore,     \* block_store: the height of each stored block
    publishing,     \* "idle", or what the event loop does next with the commit:
                    \* "height", "fee", "block" or "advance"
    call,           \* call[c]: the last call of c, [op, height, stored]; stored
                    \* is how many blocks the store holds by then, height the
                    \* height asked for (by get_latest_block: the last one's)
    answer,         \* answer[c]: the answer to it, [kind, height]
    told,           \* history: the greatest current_height c was told
    served          \* history: one more than the greatest height of a stored
                    \* block c was served

chainVars == <<height, committing, currentHeight, baseFee, blockStore, publishing>>
readerVars == <<call, answer, told, served>>
rpcVars == <<chainVars, readerVars>>

Stored == Len(blockStore)

Open(c) == call[c].op \in {"getBlock", "getLatest"}

AtLeast(f, c, n) == [f EXCEPT ![c] = IF @ < n THEN n ELSE @]

(* c's handler has looked into the store without success. *)
Missed(c, op, h) ==
    /\ call' = [call EXCEPT ![c] = [op |-> op, height |-> h, stored |-> Stored]]
    /\ UNCHANGED <<answer, told, served>>

Answer(c, h, kind, ansHeight) ==
    /\ call' = [call EXCEPT ![c] = [op |-> "none", height |-> h, stored |-> Stored]]
    /\ answer' = [answer EXCEPT ![c] = [kind |-> kind, height |-> ansHeight]]
    /\ told' = IF kind \in {"health", "latestPlaceholder"} THEN AtLeast(told, c, ansHeight) ELSE told
    /\ served' = IF kind = "block" THEN AtLeast(served, c, ansHeight + 1) ELSE served

-----------------------------------------------------------------------------
RpcInit ==
    /\ height = 0
    /\ committing = 0
    /\ currentHeight = 0
    /\ baseFee = 0
    /\ blockStore = <<>>
    /\ publishing = "idle"
    /\ call = [c \in Clients |-> [op |-> "none", height |-> 0, stored |-> 0]]
    /\ answer = [c \in Clients |-> [kind |-> "none", height |-> 0]]
    /\ told = [c \in Clients |-> 0]
    /\ served = [c \in Clients |-> 0]

(* on_precommit finds a quorum for a block of its own height (votes of other
   heights are dropped) and emits CommitBlock with that height.              *)
Decide ==
    /\ publishing = "idle"
    /\ height < MaxHeight
    /\ committing' = height
    /\ publishing' = "height"
    /\ UNCHANGED <<height, currentHeight, baseFee, blockStore, readerVars>>

(* apply_commit writes the height it was given first ... *)
PublishHeight ==
    /\ publishing = "height"
    /\ currentHeight' = committing
    /\ publishing' = "fee"
    /\ UNCHANGED <<height, committing, baseFee, blockStore, readerVars>>

(* Mutant of PublishFee: the fee is read from the market before its update. *)
PublishOldFee ==
    /\ publishing = "fee"
    /\ publishing' = "block"
    /\ UNCHANGED <<height, committing, currentHeight, baseFee, blockStore, readerVars>>

(* ... then the fee market's base fee, updated for this block ... *)
PublishFee ==
    /\ publishing = "fee"
    /\ baseFee' = baseFee + 1
    /\ publishing' = "block"
    /\ UNCHANGED <<height, committing, currentHeight, blockStore, readerVars>>

(* Mutant of PublishBlock: get_block drops its lock between its two reads. *)
PublishBlockUnlocked ==
    /\ publishing = "block"
    /\ blockStore' = Append(blockStore, committing)
    /\ publishing' = "advance"
    /\ UNCHANGED <<height, committing, currentHeight, baseFee, readerVars>>

(* ... then the block.  get_block keeps its read lock until it returns. *)
PublishBlock ==
    /\ publishing = "block"
    /\ \A c \in Clients : call[c].op # "getBlock"
    /\ blockStore' = Append(blockStore, committing)
    /\ publishing' = "advance"
    /\ UNCHANGED <<height, committing, currentHeight, baseFee, readerVars>>

(* Mutant of AdvanceHeight: the state machine is restarted at the height it
   has just committed.                                                       *)
AdvanceToSameHeight ==
    /\ publishing = "advance"
    /\ height' = committing
    /\ publishing' = "idle"
    /\ UNCHANGED <<committing, currentHeight, baseFee, blockStore, readerVars>>

(* The event loop moves the state machine to the height after the commit's. *)
AdvanceHeight ==
    /\ publishing = "advance"
    /\ height' = committing + 1
    /\ publishing' = "idle"
    /\ UNCHANGED <<committing, currentHeight, baseFee, blockStore, readerVars>>

(* get_block: the entry of the store at this index, if there is one. *)
GetBlock(c, h) ==
    /\ ~ Open(c)
    /\ IF h < Stored
       THEN Answer(c, h, "block", blockStore[h + 1])
       ELSE Missed(c, "getBlock", h)
    /\ UNCHANGED chainVars

(* Mutant of GetBlockMissed: the current height counts as not committed. *)
GetBlockMissedStrictly(c) ==
    /\ call[c].op = "getBlock"
    /\ LET h == call[c].height IN
       Answer(c, h, IF h >= currentHeight THEN "notCommitted" ELSE "placeholder", h)
    /\ UNCHANGED chainVars

(* Otherwise an error above current_height, a zero placeholder up to it. *)
GetBlockMissed(c) ==
    /\ call[c].op = "getBlock"
    /\ LET h == call[c].height IN
       Answer(c, h, IF h > currentHeight THEN "notCommitted" ELSE "placeholder", h)
    /\ UNCHANGED chainVars

(* get_latest_block: the last stored block, or a placeholder at the
   current_height it reads after dropping the store's lock.                  *)
GetLatestBlock(c) ==
    /\ ~ Open(c)
    /\ IF Stored > 0
       THEN Answer(c, Stored - 1, "block", blockStore[Stored])
       ELSE Missed(c, "getLatest", 0)
    /\ UNCHANGED chainVars

GetLatestMissed(c) ==
    /\ call[c].op = "getLatest"
    /\ Answer(c, currentHeight, "latestPlaceholder", currentHeight)
    /\ UNCHANGED chainVars

Health(c) ==
    /\ ~ Open(c)
    /\ Answer(c, currentHeight, "health", currentHeight)
    /\ UNCHANGED chainVars

GetFeeInfo(c) ==
    /\ ~ Open(c)
    /\ Answer(c, 0, "fee", baseFee)
    /\ UNCHANGED chainVars

Publish == PublishHeight \/ PublishFee \/ PublishBlock

RpcCall ==
    \E c \in Clients :
        \/ \E h \in 0 .. MaxHeight : GetBlock(c, h)
        \/ GetBlockMissed(c)
        \/ GetLatestBlock(c)
        \/ GetLatestMissed(c)
        \/ Health(c)
        \/ GetFeeInfo(c)

RpcNext == Decide \/ Publish \/ AdvanceHeight \/ RpcCall

RpcSpec == RpcInit /\ [][RpcNext]_rpcVars

-----------------------------------------------------------------------------
(* get_block(h) answers with the block decided at height h, and get_latest_block,
   with n blocks stored, with the one decided at n - 1: the store is addressed by
   position, its blocks carry the height consensus decided them at, which agree
   only if every height is decided, pushed and left behind exactly once.     *)
AnswersTheRequest ==
    \A c \in Clients :
        ~ Open(c) /\ answer[c].kind = "block" => answer[c].height = call[c].height

(* A zero placeholder is only ever served for the one block whose publication
   is in flight (or for genesis): never for a block that became readable while
   the handler was between its two reads.                                    *)
PlaceholderIsInFlight ==
    \A c \in Clients :
        ~ Open(c) /\ answer[c].kind = "placeholder" =>
            answer[c].height = call[c].stored

(* A client that was told a height by one call (health, get_latest_block) is
   not told by a later get_block that this block is not yet committed.       *)
ToldIsServed ==
    \A c \in Clients :
        answer[c].kind = "notCommitted" => answer[c].height > told[c]

(* A client that was served a block does not get a base fee from before it:
   the fee is published before the block.                                    *)
FeeFollowsBlocks ==
    \A c \in Clients :
        ~ Open(c) /\ answer[c].kind = "fee" => answer[c].height >= served[c]

=============================================================================
