---------------------------- MODULE RpcViewProofs ----------------------------
(***************************************************************************)
(* What RPC clients see, for any number of clients and blocks: the steps   *)
(* of a commit keep the consensus height, the published height and fee and *)
(* the store in a fixed relation, and a handler's miss stays a miss for as *)
(* long as it matters.                                                     *)
(***************************************************************************)
EXTENDS RpcView, TLAPS

CallType   == [op : {"none", "getBlock", "getLatest"}, height : Nat, stored : Nat]
AnswerType == [kind : {"none", "block", "notCommitted", "placeholder", "latestPlaceholder",
                       "health", "fee"}, height : Nat]

Types ==
    /\ height \in Nat /\ committing \in Nat
    /\ currentHeight \in Nat /\ baseFee \in Nat
    /\ blockStore \in Seq(Nat)
    /\ call \in [Clients -> CallType]
    /\ answer \in [Clients -> AnswerType]
    /\ told \in [Clients -> Nat] /\ served \in [Clients -> Nat]

(* Heights and positions in the store are in step. *)
InStep == \A i \in 1 .. Stored : blockStore[i] = i - 1

LastStored == IF Stored = 0 THEN 0 ELSE Stored - 1

(* Where the consensus height and the three published values stand at each
   point of a commit.                                                        *)
Published ==
    \/ publishing = "idle" /\ height = Stored /\ baseFee = Stored /\ currentHeight = LastStored
    \/ publishing = "height" /\ committing = Stored /\ baseFee = Stored
          /\ currentHeight = LastStored
    \/ publishing = "fee" /\ committing = Stored /\ baseFee = Stored /\ currentHeight = Stored
    \/ publishing = "block" /\ committing = Stored /\ baseFee = Stored + 1
          /\ currentHeight = Stored
    \/ publishing = "advance" /\ committing + 1 = Stored /\ baseFee = Stored
          /\ currentHeight = committing

(* While get_block holds the store's lock, what it missed stays missing. *)
StillMissed == \A c \in Clients : call[c].op = "getBlock" => call[c].height >= Stored

(* Nobody was told or served more than is published. *)
Known == \A c \in Clients : told[c] <= currentHeight /\ served[c] <= Stored

Inv ==
    /\ Types /\ InStep /\ Published /\ StillMissed /\ Known
    /\ AnswersTheRequest /\ PlaceholderIsInFlight /\ ToldIsServed /\ FeeFollowsBlocks

-----------------------------------------------------------------------------
LEMMA InvInit == RpcInit => Inv
<1> SUFFICES ASSUME RpcInit PROVE Inv
  OBVIOUS
<1>1. Types /\ Stored = 0
  BY DEF RpcInit, Types, CallType, AnswerType, Stored
<1>2. \A c \in Clients : /\ call[c].op = "none" /\ answer[c].kind = "none"
                         /\ told[c] = 0 /\ served[c] = 0
  BY DEF RpcInit
<1> QED BY <1>1, <1>2 DEF RpcInit, Inv, InStep, Published, StillMissed, Known, AnswersTheRequest,
           PlaceholderIsInFlight, ToldIsServed, FeeFollowsBlocks, LastStored

(* A step of a commit leaves the readers alone, and publishes no less. *)
LEMMA PublishStep ==
    ASSUME Inv, Decide \/ Publish \/ AdvanceHeight
    PROVE  Inv'
<1>0. Stored \in Nat
  BY DEF Inv, Types, Stored
<1>1. UNCHANGED <<call, answer, told, served>>
  BY DEF Decide, Publish, PublishHeight, PublishFee, PublishBlock, AdvanceHeight, readerVars
<1>2. Types' /\ InStep' /\ Published' /\ Stored' >= Stored /\ currentHeight' >= currentHeight
  <2>1. CASE Decide \/ PublishHeight
    BY <1>0, <1>1, <2>1 DEF Inv, Types, InStep, Published, LastStored, Stored, Decide, PublishHeight
  <2>2. CASE PublishFee \/ AdvanceHeight
    BY <1>0, <1>1, <2>2 DEF Inv, Types, InStep, Published, LastStored, Stored, PublishFee, AdvanceHeight
  <2>3. CASE PublishBlock
    <3>1. /\ blockStore' \in Seq(Nat) /\ Stored' = Stored + 1
          /\ \A i \in 1 .. Stored' : blockStore'[i] = IF i <= Stored THEN blockStore[i] ELSE committing
      BY <2>3 DEF Inv, Types, Stored, PublishBlock
    <3>2. committing = Stored /\ currentHeight = Stored /\ baseFee = Stored + 1
      BY <2>3 DEF Inv, Published, PublishBlock
    <3>3. InStep'
      BY <1>0, <3>1, <3>2 DEF Inv, InStep
    <3> QED BY <1>0, <1>1, <2>3, <3>1, <3>2, <3>3 DEF Inv, Types, Published, PublishBlock
  <2> QED BY <2>1, <2>2, <2>3 DEF Publish
<1>3. StillMissed'
  <2>1. CASE PublishBlock
    BY <1>1, <2>1 DEF StillMissed, PublishBlock
  <2>2. CASE ~ PublishBlock
    BY <1>1, <2>2 DEF Inv, StillMissed, Stored, Decide, Publish, PublishHeight, PublishFee, AdvanceHeight
  <2> QED BY <2>1, <2>2
<1>4. Known'
  <2>1. Stored' \in Nat /\ currentHeight' \in Nat
    BY <1>2 DEF Types, Stored
  <2> QED BY <1>0, <1>1, <1>2, <2>1 DEF Inv, Types, Known
<1>5. (AnswersTheRequest /\ PlaceholderIsInFlight /\ ToldIsServed /\ FeeFollowsBlocks)'
  BY <1>1 DEF Inv, AnswersTheRequest, PlaceholderIsInFlight, ToldIsServed, FeeFollowsBlocks, Open
<1> QED BY <1>2, <1>3, <1>4, <1>5 DEF Inv
(* Handlers change nothing but their client's record. *)
LEMMA ChainStays ==
    ASSUME Inv, UNCHANGED chainVars
    PROVE  /\ InStep' /\ Published' /\ Stored' = Stored /\ Stored \in Nat
           /\ currentHeight' = currentHeight /\ baseFee' = baseFee
           /\ currentHeight \in Nat /\ baseFee \in Nat /\ blockStore' \in Seq(Nat)
           /\ currentHeight <= Stored /\ Stored <= baseFee
           /\ height' = height /\ committing' = committing
BY DEF Inv, Types, InStep, Published, LastStored, Stored, chainVars

LEMMA MissedStep ==
    ASSUME Inv, UNCHANGED chainVars, NEW c \in Clients, NEW op \in {"getBlock", "getLatest"},
           NEW h \in Nat, Missed(c, op, h), op = "getBlock" => h >= Stored
    PROVE  Inv'
<1>1. /\ call'[c] = [op |-> op, height |-> h, stored |-> Stored]
      /\ \A d \in Clients : d # c => call'[d] = call[d]
      /\ call' \in [Clients -> CallType] /\ UNCHANGED <<answer, told, served>>
  BY ChainStays DEF Missed, Inv, Types, CallType
<1>2. Types'
  BY <1>1, ChainStays DEF Inv, Types
<1>3. StillMissed' /\ Known'
  BY <1>1, ChainStays DEF Inv, StillMissed, Known
<1>4. (AnswersTheRequest /\ PlaceholderIsInFlight /\ ToldIsServed /\ FeeFollowsBlocks)'
  BY <1>1 DEF Inv, AnswersTheRequest, PlaceholderIsInFlight, ToldIsServed, FeeFollowsBlocks, Open
<1> QED BY <1>2, <1>3, <1>4, ChainStays DEF Inv

(* What each kind of answer has to say for the invariant to stay. *)
Truthful(kind, h, n) ==
    \/ kind = "block" /\ n = h /\ n < Stored
    \/ kind = "placeholder" /\ n = Stored
    \/ kind = "notCommitted" /\ n > currentHeight
    \/ kind \in {"health", "latestPlaceholder"} /\ n = currentHeight
    \/ kind = "fee" /\ n = baseFee

LEMMA AnswerStep ==
    ASSUME Inv, UNCHANGED chainVars, NEW c \in Clients, NEW h \in Nat, NEW n \in Nat,
           NEW kind, Answer(c, h, kind, n), Truthful(kind, h, n)
    PROVE  Inv'
<1>1. /\ call'[c] = [op |-> "none", height |-> h, stored |-> Stored]
      /\ answer'[c] = [kind |-> kind, height |-> n]
      /\ \A d \in Clients : d # c => call'[d] = call[d] /\ answer'[d] = answer[d]
      /\ call' \in [Clients -> CallType] /\ answer' \in [Clients -> AnswerType]
  BY ChainStays DEF Answer, Truthful, Inv, Types, CallType, AnswerType
<1>2. /\ told' \in [Clients -> Nat] /\ served' \in [Clients -> Nat]
      /\ \A d \in Clients : told'[d] <= currentHeight /\ served'[d] <= Stored
      /\ \A d \in Clients : d # c => told'[d] = told[d] /\ served'[d] = served[d]
      /\ kind \in {"notCommitted", "fee"} => told'[c] = told[c] /\ served'[c] = served[c]
  <2>1. told' \in [Clients -> Nat] /\ \A d \in Clients :
           told'[d] = IF d = c /\ kind \in {"health", "latestPlaceholder"} /\ told[c] < n
                      THEN n ELSE told[d]
    BY DEF Answer, AtLeast, Inv, Types
  <2>2. served' \in [Clients -> Nat] /\ \A d \in Clients :
           served'[d] = IF d = c /\ kind = "block" /\ served[c] < n + 1 THEN n + 1 ELSE served[d]
    BY DEF Answer, AtLeast, Inv, Types
  <2>3. \A d \in Clients : told'[d] <= currentHeight
    BY <2>1 DEF Truthful, Inv, Known
  <2>4. \A d \in Clients : served'[d] <= Stored
    <3>1. Stored \in Nat /\ (kind = "block" => n < Stored)
      BY ChainStays DEF Truthful
    <3> QED BY <2>2, <3>1 DEF Inv, Known
  <2> QED BY <2>1, <2>2, <2>3, <2>4
<1>3. Types' /\ StillMissed' /\ Known'
  <2>1. Types'
    BY <1>1, <1>2, ChainStays DEF Inv, Types
  <2>2. StillMissed'
    BY <1>1, ChainStays DEF Inv, StillMissed
  <2>3. Known'
    BY <1>2, ChainStays DEF Known
  <2> QED BY <2>1, <2>2, <2>3
<1>4. AnswersTheRequest' /\ PlaceholderIsInFlight'
  BY <1>1 DEF Inv, AnswersTheRequest, PlaceholderIsInFlight, Open, Truthful
<1>5. ToldIsServed'
  <2>1. kind = "notCommitted" => n > told'[c]
    BY <1>2, ChainStays DEF Truthful, Inv, Known, Types
  <2> QED BY <1>1, <1>2, <2>1 DEF Inv, ToldIsServed
<1>6. FeeFollowsBlocks'
  <2>1. kind = "fee" => n >= served'[c]
    BY <1>2, ChainStays DEF Truthful, Inv, Known, Types
  <2> QED BY <1>1, <1>2, <2>1 DEF Inv, FeeFollowsBlocks, Open
<1> QED BY <1>3, <1>4, <1>5, <1>6, ChainStays DEF Inv

LEMMA InvNext == Inv /\ [RpcNext]_rpcVars => Inv'
<1> SUFFICES ASSUME Inv, [RpcNext]_rpcVars PROVE Inv'
  OBVIOUS
<1>1. ASSUME NEW c \in Clients, NEW h \in 0 .. MaxHeight, GetBlock(c, h)
      PROVE  Inv'
  <2>1. h \in Nat /\ UNCHANGED chainVars /\ Stored \in Nat
    BY <1>1, RpcAssumption DEF GetBlock, Inv, Types, Stored
  <2>2. CASE h < Stored
    <3>1. blockStore[h + 1] = h
      BY <2>1, <2>2 DEF Inv, InStep
    <3> QED BY <1>1, <2>1, <2>2, <3>1, AnswerStep DEF GetBlock, Truthful
  <2>3. CASE ~ h < Stored
    BY <1>1, <2>1, <2>3, MissedStep DEF GetBlock
  <2> QED BY <2>2, <2>3
<1>2. ASSUME NEW c \in Clients, GetBlockMissed(c)
      PROVE  Inv'
  <2>1. UNCHANGED chainVars /\ call[c].height \in Nat /\ call[c].height >= Stored
    BY <1>2 DEF GetBlockMissed, Inv, Types, CallType, StillMissed
  <2> DEFINE h == call[c].height
  <2>2. CASE h > currentHeight
    BY <1>2, <2>1, <2>2, AnswerStep DEF GetBlockMissed, Truthful
  <2>3. CASE ~ h > currentHeight
    <3>1. h = Stored
      BY <2>1, <2>3, ChainStays
    <3> QED BY <1>2, <2>1, <2>3, <3>1, AnswerStep DEF GetBlockMissed, Truthful
  <2> QED BY <2>2, <2>3
<1>3. ASSUME NEW c \in Clients, GetLatestBlock(c)
      PROVE  Inv'
  <2>1. UNCHANGED chainVars /\ Stored \in Nat
    BY <1>3 DEF GetLatestBlock, Inv, Types, Stored
  <2>2. CASE Stored > 0
    <3>1. blockStore[Stored] = Stored - 1
      BY <2>1, <2>2 DEF Inv, InStep
    <3> QED BY <1>3, <2>1, <2>2, <3>1, AnswerStep DEF GetLatestBlock, Truthful
  <2>3. CASE ~ Stored > 0
    BY <1>3, <2>1, <2>3, MissedStep DEF GetLatestBlock
  <2> QED BY <2>2, <2>3
<1>4. ASSUME NEW c \in Clients, GetLatestMissed(c) \/ Health(c)
      PROVE  Inv'
  BY <1>4, AnswerStep DEF GetLatestMissed, Health, Truthful, Inv, Types
<1>5. ASSUME NEW c \in Clients, GetFeeInfo(c)
      PROVE  Inv'
  BY <1>5, AnswerStep DEF GetFeeInfo, Truthful, Inv, Types
<1>6. CASE UNCHANGED rpcVars
  BY <1>6 DEF rpcVars, chainVars, readerVars, Inv, Types, InStep, Published, LastStored, StillMissed,
              Known, Stored, AnswersTheRequest,
              PlaceholderIsInFlight, ToldIsServed, FeeFollowsBlocks, Open
<1> QED BY <1>1, <1>2, <1>3, <1>4, <1>5, <1>6, PublishStep DEF RpcNext, RpcCall

-----------------------------------------------------------------------------
(* For any number of clients and blocks: get_block answers with the block that
   consensus decided at the height asked for, although the store knows only
   positions,                                                                *)
THEOREM GetBlockIsFaithful == RpcSpec => []AnswersTheRequest
<1>1. Inv => AnswersTheRequest
  BY DEF Inv
<1> QED BY <1>1, InvInit, InvNext, PTL DEF RpcSpec

(* ... a zero placeholder is served for the block in flight only, *)
THEOREM PlaceholdersAreInFlight == RpcSpec => []PlaceholderIsInFlight
<1>1. Inv => PlaceholderIsInFlight
  BY DEF Inv
<1> QED BY <1>1, InvInit, InvNext, PTL DEF RpcSpec

(* ... a client that was told a height finds it committed from then on, *)
THEOREM HeightsAreServed == RpcSpec => []ToldIsServed
<1>1. Inv => ToldIsServed
  BY DEF Inv
<1> QED BY <1>1, InvInit, InvNext, PTL DEF RpcSpec

(* ... and a client that was served a block sees a base fee that counts it. *)
THEOREM FeesAreCurrent == RpcSpec => []FeeFollowsBlocks
<1>1. Inv => FeeFollowsBlocks
  BY DEF Inv
<1> QED BY <1>1, InvInit, InvNext, PTL DEF RpcSpec
=============================================================================
