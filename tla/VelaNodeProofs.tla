--------------------------- MODULE VelaNodeProofs ---------------------------
(***************************************************************************)
(* Theorems about VelaNode, for any number of validators, any pattern of   *)
(* crashes and failing saves, and any bounds.                              *)
(***************************************************************************)
EXTENDS VelaNode, SequenceTheorems, FiniteSetTheorems, TLAPS

-----------------------------------------------------------------------------
(* Sequences of blocks *)

(* The number of blocks below (up to) a height is a position of the chain. *)
LEMMA PositionType ==
  ASSUME NEW S, NEW chain \in Seq(S), NEW h
  PROVE  /\ Below(chain, h) \in 0 .. Len(chain)
         /\ UpTo(chain, h) \in 0 .. Len(chain)
<1>1. Len(chain) \in Nat /\ DOMAIN chain = 1 .. Len(chain)
  BY LenProperties
<1>2. IsFiniteSet(1 .. Len(chain)) /\ Cardinality(1 .. Len(chain)) = Len(chain)
  BY <1>1, FS_Interval
<1>3. ASSUME NEW T \in SUBSET (1 .. Len(chain))
      PROVE  Cardinality(T) \in 0 .. Len(chain)
  <2>1. IsFiniteSet(T) /\ Cardinality(T) <= Len(chain)
    BY <1>2, FS_Subset
  <2>2. Cardinality(T) \in Nat
    BY <2>1, FS_CardinalityType
  <2> QED BY <1>1, <2>1, <2>2
<1>4. /\ {i \in DOMAIN chain : chain[i].height < h} \in SUBSET (1 .. Len(chain))
      /\ {i \in DOMAIN chain : chain[i].height <= h} \in SUBSET (1 .. Len(chain))
  BY <1>1
<1> QED BY <1>3, <1>4 DEF Below, UpTo

(* Saving a block into a store, and cutting off the blocks up to a height, *)
(* give sequences of the same blocks.                                      *)
LEMMA StoreType ==
  ASSUME NEW S, NEW store \in Seq(S), NEW block \in S, NEW h
  PROVE  /\ SaveBlock(store, block) \in Seq(S)
         /\ Above(store, h) \in Seq(S)
<1>1. Len(store) \in Nat
  BY LenProperties
<1>2. \A m \in Nat : m >= 1 => SubSeq(store, m, Len(store)) \in Seq(S)
  <2> TAKE m \in Nat
  <2> HAVE m >= 1
  <2>1. \A i \in m .. Len(store) : store[i] \in S
    BY <1>1, ElementOfSeq
  <2> QED BY <1>1, <2>1, SubSeqProperties
<1>3. \A k \in 0 .. Len(store) : SubSeq(store, 1, k) \in Seq(S)
  <2> TAKE k \in 0 .. Len(store)
  <2>1. \A i \in 1 .. k : store[i] \in S
    BY <1>1, ElementOfSeq
  <2> QED BY <1>1, <2>1, SubSeqProperties
<1>4. /\ Below(store, block.height) \in 0 .. Len(store)
      /\ UpTo(store, block.height) \in 0 .. Len(store)
      /\ UpTo(store, h) \in 0 .. Len(store)
  BY PositionType
<1>5. Above(store, h) \in Seq(S)
  BY <1>1, <1>2, <1>4 DEF Above
<1>6. SubSeq(store, 1, Below(store, block.height)) \in Seq(S)
  BY <1>3, <1>4
<1>7. SubSeq(store, UpTo(store, block.height) + 1, Len(store)) \in Seq(S)
  BY <1>1, <1>2, <1>4
<1>8. <<block>> \in Seq(S)
  OBVIOUS
<1>9. SubSeq(store, 1, Below(store, block.height)) \o <<block>> \in Seq(S)
  BY <1>6, <1>8, ConcatProperties
<1>10. SaveBlock(store, block) \in Seq(S)
  BY <1>7, <1>9, ConcatProperties DEF SaveBlock
<1> QED BY <1>5, <1>10

-----------------------------------------------------------------------------
(* Types *)

(* A running node has a chain: genesis at least. *)
HasChain == \A n \in Validators : up[n] => blocks[n] # << >>

Typed == TypeOK /\ HasChain

LEMMA GenesisType == Genesis \in Block
<1>1. << >> \in Seq(Tx)
  OBVIOUS
<1> QED BY <1>1 DEF Genesis, Block, HashType, ZERO

LEMMA ExistingType == TypeOK => Existing \subseteq Block
BY GenesisType DEF TypeOK, Existing

LEMMA TipType ==
  ASSUME Typed, NEW n \in Validators, up[n]
  PROVE  /\ TipOf(n) \in Existing
         /\ Len(blocks[n]) \in Nat \ {0}
         /\ TipOf(n).height \in Nat
         /\ TipOf(n).round \in Nat
         /\ Hash(TipOf(n)) \in HashType
<1>1. blocks[n] \in Seq(Existing) /\ blocks[n] # << >>
  BY DEF Typed, TypeOK, HasChain
<1>2. Len(blocks[n]) \in Nat \ {0}
  BY <1>1, EmptySeq
<1>3. TipOf(n) \in Existing
  BY <1>1, <1>2, ElementOfSeq DEF TipOf
<1>4. TipOf(n) \in Block
  BY <1>3, ExistingType DEF Typed
<1> QED BY <1>2, <1>3, <1>4 DEF Block, Hash, HashType

(* What the fields of a message are. *)
LEMMA MessageType ==
  ASSUME NEW m \in Message
  PROVE  /\ m.type \in {"NewBlock", "ConsensusPropose"} => m.block \in Existing
         /\ m.type = "NewTransaction" => m.tx \in Tx
         /\ m.type = "SyncRequest" => m.from_height \in Nat
         /\ m.type = "SyncResponse" => m.blocks \in Seq(Existing)
BY DEF Message

(* A vote for an existing block can be sent by any validator. *)
LEMMA VoteMessageType ==
  ASSUME TypeOK, NEW n \in Validators, NEW b \in Existing
  PROVE  VoteFor(n, b) \in Message
<1>1. b \in Block
  BY ExistingType
<1>2. Sign(Hash(b), b.round, n) \in Vote
  BY <1>1 DEF Sign, Hash, Vote, Block, HashType
<1> QED BY <1>2 DEF VoteFor, ConsensusVote, Message

LEMMA ExchangeType ==
  ASSUME TypeOK, NEW n \in Validators, NEW consumed, NEW ms \in SUBSET Message,
         Exchange(n, consumed, ms)
  PROVE  /\ net' \in [Validators -> SUBSET Message]
         /\ seen' \in [Validators -> SUBSET Message]
         /\ lost' \in [Validators -> SUBSET Message]
<1>1. PICK reached \in Reachable(n) :
        /\ net' = NetAfter(n, consumed, ms, reached)
        /\ seen' = [p \in Validators |->
                      IF RememberSeen /\ p \in reached \cup {n}
                      THEN seen[p] \cup Published(n, ms, reached) ELSE seen[p]]
        /\ lost' = [p \in Validators |->
                      IF p \in UpPeers(n)
                      THEN lost[p] \cup (SyncMessages(ms) \ Delivered(n, p, ms, reached)) ELSE lost[p]]
  BY DEF Exchange
<1>2. Published(n, ms, reached) \subseteq Message /\ SyncMessages(ms) \subseteq Message
  BY DEF Published, SyncMessages
<1>3. \A p : Delivered(n, p, ms, reached) \subseteq Message
  BY <1>2 DEF Delivered
<1>4. net' \in [Validators -> SUBSET Message]
  BY <1>1, <1>3 DEF NetAfter, TypeOK
<1>5. seen' \in [Validators -> SUBSET Message]
  BY <1>1, <1>2 DEF TypeOK
<1>6. lost' \in [Validators -> SUBSET Message]
  BY <1>1, <1>2 DEF TypeOK
<1> QED BY <1>4, <1>5, <1>6

LEMMA AcceptType ==
  ASSUME NEW E, blocks \in [Validators -> Seq(E)], db \in [Validators -> Seq(E)],
         unsaved \in [Validators -> SUBSET Nat],
         NEW n \in Validators, NEW block \in E, block.height \in Nat, Accept(n, block)
  PROVE  /\ blocks' \in [Validators -> Seq(E)]
         /\ db' \in [Validators -> Seq(E)]
         /\ unsaved' \in [Validators -> SUBSET Nat]
         /\ blocks' = [blocks EXCEPT ![n] = Append(blocks[n], block)]
         /\ blocks'[n] # << >>
<1>1. Append(blocks[n], block) \in Seq(E) /\ Append(blocks[n], block) # << >>
  BY AppendProperties
<1>2. SaveBlock(db[n], block) \in Seq(E)
  BY StoreType
<1>3. blocks' = [blocks EXCEPT ![n] = Append(blocks[n], block)]
  BY DEF Accept
<1>4. \/ db' = [db EXCEPT ![n] = SaveBlock(db[n], block)]
      \/ db' = db
  BY DEF Accept
<1>5. \/ unsaved' = [unsaved EXCEPT ![n] = @ \ {block.height}]
      \/ unsaved' = [unsaved EXCEPT ![n] = @ \cup {block.height}]
  BY DEF Accept
<1>6. unsaved' \in [Validators -> SUBSET Nat]
  BY <1>5
<1> QED BY <1>1, <1>2, <1>3, <1>4, <1>6

(* The block a producer makes is a block, whose transactions come from the *)
(* front of the mempool.                                                   *)
LEMMA NextBlockType ==
  ASSUME Typed, NEW n \in Validators, up[n]
  PROVE  NextBlock(n) \in Block
<1>1. mempool[n] \in Seq(Tx) /\ Len(mempool[n]) \in Nat
  BY LenProperties DEF Typed, TypeOK
<1>2. BlockTxLimit \in Nat
  BY VelaAssumption
<1>3. Taken(mempool[n]) \in Seq(Tx)
  <2> DEFINE k == IF Len(mempool[n]) < BlockTxLimit THEN Len(mempool[n]) ELSE BlockTxLimit
  <2>1. k \in 0 .. Len(mempool[n])
    BY <1>1, <1>2
  <2>2. \A i \in 1 .. k : mempool[n][i] \in Tx
    BY <1>1, <2>1, ElementOfSeq
  <2>3. SubSeq(mempool[n], 1, k) \in Seq(Tx)
    <3> HIDE DEF k
    <3> QED BY <1>1, <2>1, <2>2, SubSeqProperties
  <2> QED BY <2>3 DEF Taken
<1>4. /\ TipOf(n).height + 1 \in Nat
      /\ Hash(TipOf(n)) \in HashType
      /\ round[n] \in Nat /\ run[n] \in Nat
  BY TipType DEF Typed, TypeOK
<1> QED BY <1>3, <1>4 DEF NextBlock, Block

LEMMA TypedInit == Init => Typed
<1> SUFFICES ASSUME Init PROVE Typed
  OBVIOUS
<1>1. << >> \in Seq(Existing) /\ << >> \in Seq(Tx)
  OBVIOUS
<1>2. Genesis \in Existing
  BY DEF Existing
<1>3. TypeOK
  BY <1>1, <1>2 DEF Init, TypeOK
<1>4. HasChain
  BY DEF Init, HasChain
<1> QED BY <1>3, <1>4 DEF Typed

LEMMA TypedStep == Typed /\ [Next]_vars => Typed'
<1> SUFFICES ASSUME Typed, [Next]_vars
             PROVE  Typed'
  OBVIOUS
<1> USE DEF Typed
<1>1. Genesis \in Existing
  BY DEF Existing
<1>2. ASSUME minted' = minted
      PROVE  Existing' = Existing /\ Message' = Message
  BY <1>2 DEF Existing, Message
<1>3. << >> \in Seq(Existing) /\ << >> \in Seq(Tx) /\ <<Genesis>> \in Seq(Existing)
  BY <1>1
<1>4. ASSUME NEW n \in Validators, Boot(n)
      PROVE  Typed'
  <2>1. minted' = minted
    BY <1>4 DEF Boot
  <2>2. Loaded(n) \in Seq(Existing) /\ Loaded(n) # << >>
    BY <1>3 DEF TypeOK, Loaded
  <2>3. blocks' = [blocks EXCEPT ![n] = Loaded(n)] /\ db' = [db EXCEPT ![n] = Loaded(n)]
    BY <1>4 DEF Boot
  <2>4. TypeOK'
    BY <1>2, <1>4, <2>1, <2>2, <2>3 DEF Boot, TypeOK, netVars
  <2>5. HasChain'
    BY <1>4, <2>2, <2>3 DEF Boot, TypeOK, HasChain
  <2> QED BY <2>4, <2>5
<1>5. ASSUME NEW n \in Validators, Crash(n)
      PROVE  Typed'
  <2>1. TypeOK'
    BY <1>1, <1>2, <1>3, <1>5 DEF Crash, TypeOK
  <2>2. HasChain'
    BY <1>5 DEF Crash, TypeOK, HasChain
  <2> QED BY <2>1, <2>2
<1>6. ASSUME NEW n \in Validators, Flush(n)
      PROVE  Typed'
  <2>1. TypeOK'
    BY <1>2, <1>6 DEF Flush, TypeOK, chainVars, taskVars, netVars
  <2>2. HasChain'
    BY <1>6 DEF Flush, HasChain, chainVars
  <2> QED BY <2>1, <2>2
<1>7. ASSUME NEW n \in Validators, StartProducer(n)
      PROVE  Typed'
  <2>1. FirstRound(n) \in Nat
    BY <1>7, TipType DEF StartProducer, FirstRound, LockFree
  <2>2. TypeOK'
    BY <1>2, <1>7, <2>1 DEF StartProducer, TypeOK, chainVars, netVars
  <2>3. HasChain'
    BY <1>7 DEF StartProducer, HasChain, chainVars
  <2> QED BY <2>2, <2>3
<1>8. ASSUME NEW n \in Validators, Produce(n)
      PROVE  Typed'
  <2>1. NextBlock(n) \in Block
    BY <1>8, NextBlockType DEF Produce, LockFree
  <2>2. minted' = minted \cup {NextBlock(n)} /\ made' = [made EXCEPT ![n] = NextBlock(n)]
    BY <1>8 DEF Produce
  <2>3. /\ Existing \subseteq Existing'
        /\ NextBlock(n) \in Existing'
    BY <2>2 DEF Existing
  <2>4. \A seq \in Seq(Existing) : seq \in Seq(Existing')
    BY <2>3, SeqMonotonic
  <2>5. Message \subseteq Message'
    BY <2>3, <2>4 DEF Message
  <2>6. /\ blocks \in [Validators -> Seq(Existing')]
        /\ db \in [Validators -> Seq(Existing')]
        /\ disk \in [Validators -> Seq(Existing')]
        /\ handling \in [Validators -> Seq(Existing')]
    BY <2>4 DEF TypeOK
  <2>7. Accept(n, NextBlock(n)) /\ NextBlock(n).height \in Nat
    BY <1>8, <2>1 DEF Produce, Block
  <2>15. unsaved \in [Validators -> SUBSET Nat]
    BY DEF TypeOK
  <2>8. /\ blocks' \in [Validators -> Seq(Existing')]
        /\ db' \in [Validators -> Seq(Existing')]
        /\ unsaved' \in [Validators -> SUBSET Nat]
        /\ blocks' = [blocks EXCEPT ![n] = Append(blocks[n], NextBlock(n))]
        /\ blocks'[n] # << >>
    BY <2>3, <2>6, <2>7, <2>15, AcceptType
  <2>9. /\ net' \in [Validators -> SUBSET Message']
        /\ seen' \in [Validators -> SUBSET Message']
        /\ lost' \in [Validators -> SUBSET Message']
    BY <1>8, <2>5 DEF Produce, TypeOK, netVars
  <2>10. minted' \subseteq Block
    BY <2>1, <2>2 DEF TypeOK
  <2>11. made' \in [Validators -> Existing']
    BY <2>2, <2>3 DEF TypeOK
  <2>12. mempool' \in [Validators -> Seq(Tx)]
    BY <1>3, <1>8 DEF Produce, TypeOK
  <2>13. TypeOK'
    BY <1>8, <2>6, <2>8, <2>9, <2>10, <2>11, <2>12 DEF Produce, TypeOK
  <2>14. HasChain'
    BY <1>8, <2>8 DEF Produce, HasChain, TypeOK
  <2> QED BY <2>13, <2>14
<1>9. ASSUME NEW n \in Validators, AnnouncePropose(n)
      PROVE  Typed'
  <2>1. {ConsensusPropose(made[n])} \in SUBSET Message
    BY DEF TypeOK, ConsensusPropose, Message
  <2>2. /\ net' \in [Validators -> SUBSET Message]
        /\ seen' \in [Validators -> SUBSET Message]
        /\ lost' \in [Validators -> SUBSET Message]
    BY <1>9, <2>1, ExchangeType DEF AnnouncePropose, Publish
  <2>3. TypeOK'
    BY <1>2, <1>9, <2>2 DEF AnnouncePropose, TypeOK, chainVars
  <2>4. HasChain'
    BY <1>9 DEF AnnouncePropose, HasChain, chainVars
  <2> QED BY <2>3, <2>4
<1>21. ASSUME NEW n \in Validators, AnnounceBlock(n)
      PROVE  Typed'
  <2>1. {NewBlock(made[n])} \in SUBSET Message
    BY DEF TypeOK, NewBlock, Message
  <2>2. /\ net' \in [Validators -> SUBSET Message]
        /\ seen' \in [Validators -> SUBSET Message]
        /\ lost' \in [Validators -> SUBSET Message]
    BY <1>21, <2>1, ExchangeType DEF AnnounceBlock, Publish
  <2>3. /\ round' \in [Validators -> Nat]
        /\ pc' \in [Validators -> {"start", "sleep", "propose", "announce"}]
    BY <1>21 DEF AnnounceBlock, TypeOK
  <2>5. TypeOK'
    BY <1>2, <1>21, <2>2, <2>3 DEF AnnounceBlock, TypeOK, chainVars
  <2>4. HasChain'
    BY <1>21 DEF AnnounceBlock, HasChain, chainVars
  <2> QED BY <2>4, <2>5
<1>10. ASSUME NEW n \in Validators, SkipRound(n)
       PROVE  Typed'
  <2>1. TypeOK'
    BY <1>2, <1>10 DEF SkipRound, TypeOK, chainVars, netVars
  <2>2. HasChain'
    BY <1>10 DEF SkipRound, HasChain, chainVars
  <2> QED BY <2>1, <2>2
<1>11. ASSUME NEW n \in Validators, StartupSync(n)
       PROVE  Typed'
  <2>1. TipOf(n).height \in Nat
    BY <1>11, TipType DEF StartupSync, LockFree
  <2>2. {SyncRequest(TipOf(n).height)} \in SUBSET Message
    BY <2>1 DEF SyncRequest, Message
  <2>3. /\ net' \in [Validators -> SUBSET Message]
        /\ seen' \in [Validators -> SUBSET Message]
        /\ lost' \in [Validators -> SUBSET Message]
    BY <1>11, <2>2, ExchangeType DEF StartupSync, Publish
  <2>4. TypeOK'
    BY <1>2, <1>11, <2>3 DEF StartupSync, TypeOK, chainVars
  <2>5. HasChain'
    BY <1>11 DEF StartupSync, HasChain, chainVars
  <2> QED BY <2>4, <2>5
<1>12. ASSUME NEW n \in Validators, NEW m \in net[n], OnNewBlock(n, m)
       PROVE  Typed'
  <2>1. m.block \in Existing
    BY <1>12, MessageType DEF OnNewBlock, Receives, TypeOK
  <2>2. {VoteFor(n, m.block)} \in SUBSET Message
    BY <2>1, VoteMessageType
  <2>3. /\ net' \in [Validators -> SUBSET Message]
        /\ seen' \in [Validators -> SUBSET Message]
        /\ lost' \in [Validators -> SUBSET Message]
    BY <1>12, <2>2, ExchangeType DEF OnNewBlock
  <2>4. Accept(n, m.block) \/ UNCHANGED chainVars
    BY <1>12 DEF OnNewBlock
  <2>5. /\ blocks' \in [Validators -> Seq(Existing)]
        /\ db' \in [Validators -> Seq(Existing)]
        /\ unsaved' \in [Validators -> SUBSET Nat]
        /\ HasChain'
    <3>1. CASE Accept(n, m.block)
      <4>1. /\ blocks' \in [Validators -> Seq(Existing)]
            /\ db' \in [Validators -> Seq(Existing)]
            /\ unsaved' \in [Validators -> SUBSET Nat]
            /\ blocks' = [blocks EXCEPT ![n] = Append(blocks[n], m.block)]
            /\ blocks'[n] # << >>
        <5>1. /\ blocks \in [Validators -> Seq(Existing)]
              /\ db \in [Validators -> Seq(Existing)]
              /\ unsaved \in [Validators -> SUBSET Nat]
          BY DEF TypeOK
        <5>2. m.block.height \in Nat
          BY <2>1, ExistingType DEF Block
        <5> QED BY <5>1, <5>2, <2>1, <3>1, AcceptType
      <4>2. up' = up
        BY <1>12 DEF OnNewBlock
      <4>3. HasChain'
        BY <4>1, <4>2 DEF HasChain, TypeOK
      <4> QED BY <4>1, <4>3
    <3>2. CASE UNCHANGED chainVars
      BY <1>12, <3>2 DEF OnNewBlock, HasChain, TypeOK, chainVars
    <3> QED BY <2>4, <3>1, <3>2
  <2>6. TypeOK'
    BY <1>2, <1>12, <2>3, <2>5 DEF OnNewBlock, TypeOK, taskVars
  <2> QED BY <2>5, <2>6
<1>13. ASSUME NEW n \in Validators, NEW m \in net[n], OnTransaction(n, m)
       PROVE  Typed'
  <2>1. m.tx \in Tx
    BY <1>13, MessageType DEF OnTransaction, Receives, TypeOK
  <2>2. mempool' \in [Validators -> Seq(Tx)]
    BY <1>13, <2>1, AppendProperties DEF OnTransaction, TypeOK
  <2>3. /\ net' \in [Validators -> SUBSET Message]
        /\ seen' \in [Validators -> SUBSET Message]
        /\ lost' \in [Validators -> SUBSET Message]
    BY <1>13, ExchangeType DEF OnTransaction
  <2>4. TypeOK'
    BY <1>2, <1>13, <2>2, <2>3 DEF OnTransaction, TypeOK, chainVars, taskVars
  <2>5. HasChain'
    BY <1>13 DEF OnTransaction, HasChain, chainVars
  <2> QED BY <2>4, <2>5
<1>14. ASSUME NEW n \in Validators, NEW m \in net[n], OnVote(n, m)
       PROVE  Typed'
  <2>1. PICK r : Exchange(n, {m}, {NewBlock(Genesis) : out \in r.out})
    BY <1>14 DEF OnVote
  <2>2. {NewBlock(Genesis) : out \in r.out} \in SUBSET Message
    BY <1>1 DEF NewBlock, Message
  <2>3. /\ net' \in [Validators -> SUBSET Message]
        /\ seen' \in [Validators -> SUBSET Message]
        /\ lost' \in [Validators -> SUBSET Message]
    BY <2>1, <2>2, ExchangeType
  <2>4. TypeOK'
    BY <1>2, <1>14, <2>3 DEF OnVote, TypeOK, chainVars, taskVars
  <2>5. HasChain'
    BY <1>14 DEF OnVote, HasChain, chainVars
  <2> QED BY <2>4, <2>5
<1>15. ASSUME NEW n \in Validators, NEW m \in net[n], OnPropose(n, m)
       PROVE  Typed'
  <2>1. m.block \in Existing
    BY <1>15, MessageType DEF OnPropose, Receives, TypeOK
  <2>2. PICK r : Exchange(n, {m},
                   {VoteFor(n, m.block) : out \in r.out})
    BY <1>15 DEF OnPropose
  <2>3. {VoteFor(n, m.block) : out \in r.out} \in SUBSET Message
    BY <2>1, VoteMessageType
  <2>4. /\ net' \in [Validators -> SUBSET Message]
        /\ seen' \in [Validators -> SUBSET Message]
        /\ lost' \in [Validators -> SUBSET Message]
    BY <2>2, <2>3, ExchangeType
  <2>5. TypeOK'
    BY <1>2, <1>15, <2>4 DEF OnPropose, TypeOK, chainVars, taskVars
  <2>6. HasChain'
    BY <1>15 DEF OnPropose, HasChain, chainVars
  <2> QED BY <2>5, <2>6
<1>16. ASSUME NEW n \in Validators, NEW m \in net[n], OnSyncRequest(n, m)
       PROVE  Typed'
  <2> DEFINE missing == Above(blocks[n], m.from_height)
             answer  == IF missing = << >> THEN {} ELSE {SyncResponse(missing)}
  <2>1. missing \in Seq(Existing)
    BY <1>1, StoreType DEF TypeOK
  <2>2. answer \in SUBSET Message
    BY <2>1 DEF SyncResponse, Message
  <2>3. Exchange(n, {m}, answer)
    BY <1>16 DEF OnSyncRequest
  <2> HIDE DEF answer
  <2>4. /\ net' \in [Validators -> SUBSET Message]
        /\ seen' \in [Validators -> SUBSET Message]
        /\ lost' \in [Validators -> SUBSET Message]
    BY <2>2, <2>3, ExchangeType
  <2>5. TypeOK'
    BY <1>2, <1>16, <2>4 DEF OnSyncRequest, TypeOK, chainVars, taskVars
  <2>6. HasChain'
    BY <1>16 DEF OnSyncRequest, HasChain, chainVars
  <2> QED BY <2>5, <2>6
<1>17. ASSUME NEW n \in Validators, NEW m \in net[n], OnSyncResponse(n, m)
       PROVE  Typed'
  <2>1. m.blocks \in Seq(Existing)
    BY <1>17, MessageType DEF OnSyncResponse, Receives, TypeOK
  <2>2. /\ net' \in [Validators -> SUBSET Message]
        /\ seen' \in [Validators -> SUBSET Message]
        /\ lost' \in [Validators -> SUBSET Message]
    BY <1>17, ExchangeType DEF OnSyncResponse
  <2>3. TypeOK'
    BY <1>2, <1>17, <2>1, <2>2 DEF OnSyncResponse, TypeOK, chainVars
  <2>4. HasChain'
    BY <1>17 DEF OnSyncResponse, HasChain, chainVars
  <2> QED BY <2>3, <2>4
<1>18. ASSUME NEW n \in Validators, SyncStep(n)
       PROVE  Typed'
  <2>1. handling[n] \in Seq(Existing) /\ handling[n] # << >>
    BY <1>18 DEF SyncStep, TypeOK
  <2>2. Head(handling[n]) \in Existing /\ Tail(handling[n]) \in Seq(Existing)
    BY <2>1, HeadTailProperties
  <2>3. Accept(n, Head(handling[n])) \/ UNCHANGED chainVars
    BY <1>18 DEF SyncStep
  <2>4. /\ blocks' \in [Validators -> Seq(Existing)]
        /\ db' \in [Validators -> Seq(Existing)]
        /\ unsaved' \in [Validators -> SUBSET Nat]
        /\ HasChain'
    <3>1. CASE Accept(n, Head(handling[n]))
      <4>1. /\ blocks' \in [Validators -> Seq(Existing)]
            /\ db' \in [Validators -> Seq(Existing)]
            /\ unsaved' \in [Validators -> SUBSET Nat]
            /\ blocks' = [blocks EXCEPT ![n] = Append(blocks[n], Head(handling[n]))]
            /\ blocks'[n] # << >>
        <5>1. /\ blocks \in [Validators -> Seq(Existing)]
              /\ db \in [Validators -> Seq(Existing)]
              /\ unsaved \in [Validators -> SUBSET Nat]
          BY DEF TypeOK
        <5>2. Head(handling[n]).height \in Nat
          BY <2>2, ExistingType DEF Block
        <5> QED BY <5>1, <5>2, <2>2, <3>1, AcceptType
      <4>2. up' = up
        BY <1>18 DEF SyncStep
      <4>3. HasChain'
        BY <4>1, <4>2 DEF HasChain, TypeOK
      <4> QED BY <4>1, <4>3
    <3>2. CASE UNCHANGED chainVars
      BY <1>18, <3>2 DEF SyncStep, HasChain, TypeOK, chainVars
    <3> QED BY <2>3, <3>1, <3>2
  <2>5. TypeOK'
    BY <1>2, <1>18, <2>2, <2>4 DEF SyncStep, TypeOK, netVars
  <2> QED BY <2>4, <2>5
<1>19. ASSUME NEW n \in Validators, NEW tx \in Submissions, SubmitTx(n, tx)
       PROVE  Typed'
  <2>1. tx \in Tx
    BY VelaAssumption
  <2>2. mempool' \in [Validators -> Seq(Tx)]
    BY <1>19, <2>1, AppendProperties DEF SubmitTx, TypeOK
  <2>3. {NewTransaction(tx)} \in SUBSET Message
    BY <2>1 DEF NewTransaction, Message
  <2>4. /\ net' \in [Validators -> SUBSET Message]
        /\ seen' \in [Validators -> SUBSET Message]
        /\ lost' \in [Validators -> SUBSET Message]
    BY <1>19, <2>3, ExchangeType DEF SubmitTx, Publish
  <2>5. TypeOK'
    BY <1>2, <1>19, <2>2, <2>4 DEF SubmitTx, TypeOK, chainVars, taskVars
  <2>6. HasChain'
    BY <1>19 DEF SubmitTx, HasChain, chainVars
  <2> QED BY <2>5, <2>6
<1>20. CASE UNCHANGED vars
  <2>1. TypeOK'
    BY <1>2, <1>20 DEF vars, TypeOK
  <2>2. HasChain'
    BY <1>20 DEF vars, HasChain
  <2> QED BY <2>1, <2>2
<1> QED
  BY <1>4, <1>5, <1>6, <1>7, <1>8, <1>9, <1>10, <1>11, <1>12, <1>13, <1>14, <1>15,
     <1>16, <1>17, <1>18, <1>19, <1>20, <1>21 DEF Next, Producer, Handler, Handle

(* Every chain, store and message holds only blocks that producers made    *)
(* (TypeOK), whatever crashes, failed saves and deliveries occur.          *)
THEOREM TypeCorrect == Spec => []TypeOK
<1>1. Init => Typed
  BY TypedInit
<1>2. Typed /\ [Next]_vars => Typed'
  BY TypedStep
<1>3. Typed => TypeOK
  BY DEF Typed
<1> QED BY <1>1, <1>2, <1>3, PTL DEF Spec

-----------------------------------------------------------------------------
(* Hashes *)

(* The producer of p has left round r behind, or is announcing the block   *)
(* it made for r.                                                          *)
PastRound(p, r) ==
  /\ pc[p] # "start"
  /\ r < round[p] \/ (r = round[p] /\ pc[p] \in {"propose", "announce"})

(***************************************************************************)
(* Why hashes are unique: a block's round says who made it and its stamp   *)
(* in which run, and within a run the round counter only moves on.         *)
(***************************************************************************)
RoundDiscipline ==
  /\ \A n \in Validators : pc[n] # "start" => round[n] > 0
  /\ \A b \in minted :
       /\ b.round > 0
       /\ \A p \in Validators : IsLeader(b.round, p) =>
            /\ b.stamp <= run[p]
            /\ up[p] /\ b.stamp = run[p] => PastRound(p, b.round)
  /\ HashIdentifiesBlock

LEMMA RoundDisciplineInit == Init => RoundDiscipline
<1> SUFFICES ASSUME Init PROVE RoundDiscipline
  OBVIOUS
<1>1. \A n \in Validators : pc[n] = "start"
  BY DEF Init
<1>2. HashIdentifiesBlock
  BY DEF Init, HashIdentifiesBlock, Existing
<1> QED BY <1>1, <1>2 DEF Init, RoundDiscipline

LEMMA RoundDisciplineStep ==
  Typed /\ RoundDiscipline /\ [Next]_vars => RoundDiscipline'
<1> SUFFICES ASSUME Typed, RoundDiscipline, [Next]_vars
             PROVE  RoundDiscipline'
  OBVIOUS
<1>1. \A b \in minted : b.round \in Nat /\ b.stamp \in Nat
  BY DEF Typed, TypeOK, Block
<1>2. ASSUME minted' = minted
      PROVE  HashIdentifiesBlock'
  BY <1>2 DEF RoundDiscipline, HashIdentifiesBlock, Existing
<1>3. ASSUME UNCHANGED <<up, run, pc, round, minted>>
      PROVE  RoundDiscipline'
  BY <1>2, <1>3 DEF RoundDiscipline, PastRound
<1>4. ASSUME NEW n \in Validators, Boot(n)
      PROVE  RoundDiscipline'
  <2>1. /\ minted' = minted /\ pc' = pc /\ round' = round
        /\ run' = [run EXCEPT ![n] = @ + 1]
        /\ \A p \in Validators : p # n => up'[p] = up[p]
    BY <1>4 DEF Boot, Typed, TypeOK
  <2>2. run \in [Validators -> Nat]
    BY DEF Typed, TypeOK
  <2> QED BY <1>1, <1>2, <2>1, <2>2 DEF RoundDiscipline, PastRound
<1>5. ASSUME NEW n \in Validators, Crash(n)
      PROVE  RoundDiscipline'
  <2>1. /\ minted' = minted /\ run' = run
        /\ ~up'[n] /\ pc'[n] = "start"
        /\ \A p \in Validators : p # n =>
             up'[p] = up[p] /\ pc'[p] = pc[p] /\ round'[p] = round[p]
    BY <1>5 DEF Crash, Typed, TypeOK
  <2> QED BY <1>2, <2>1 DEF RoundDiscipline, PastRound
<1>6. ASSUME NEW n \in Validators, StartProducer(n)
      PROVE  RoundDiscipline'
  <2>1. /\ minted' = minted /\ run' = run /\ up' = up
        /\ pc[n] = "start" /\ up[n] /\ round'[n] > 0
        /\ \A p \in Validators : p # n => pc'[p] = pc[p] /\ round'[p] = round[p]
    BY <1>6, TipType DEF StartProducer, FirstRound, LockFree, Typed, TypeOK
  <2> QED BY <1>2, <2>1 DEF RoundDiscipline, PastRound
<1>7. ASSUME NEW n \in Validators, Produce(n)
      PROVE  RoundDiscipline'
  <2> DEFINE new == NextBlock(n)
  <2>1. /\ new.round = round[n] /\ new.stamp = run[n] /\ IsLeader(round[n], n)
        /\ minted' = minted \cup {new}
        /\ up[n] /\ pc[n] = "sleep"
        /\ pc' = [pc EXCEPT ![n] = "propose"]
        /\ up' = up /\ run' = run /\ round' = round
    BY <1>7 DEF Produce, NextBlock, LockFree
  <2>2. pc \in [Validators -> {"start", "sleep", "propose", "announce"}]
        /\ run \in [Validators -> Nat] /\ round \in [Validators -> Nat]
    BY DEF Typed, TypeOK
  <2> HIDE DEF new
  <2>3. \A p \in Validators : IsLeader(new.round, p) => p = n
    BY <2>1 DEF IsLeader
  <2>4. new.round > 0
    BY <2>1, <2>2 DEF RoundDiscipline
  <2>5. \A c \in minted : Hash(c) # Hash(new)
    <3> SUFFICES ASSUME NEW c \in minted, Hash(c) = Hash(new) PROVE FALSE
      OBVIOUS
    <3>1. c.round = new.round /\ c.stamp = new.stamp
      BY DEF Hash
    <3>2. PastRound(n, c.round)
      BY <2>1, <3>1 DEF RoundDiscipline
    <3> QED BY <1>1, <2>1, <2>2, <3>1, <3>2 DEF PastRound
  <2>6. Hash(new) # Hash(Genesis)
    BY <2>4 DEF Hash, Genesis
  <2>7. HashIdentifiesBlock'
    BY <2>1, <2>5, <2>6 DEF RoundDiscipline, HashIdentifiesBlock, Existing
  <2>8. \A p \in Validators : pc'[p] # "start" => round'[p] > 0
    BY <2>1, <2>2 DEF RoundDiscipline
  <2>9. ASSUME NEW b \in minted', NEW p \in Validators, IsLeader(b.round, p)
        PROVE  /\ b.stamp <= run'[p]
               /\ up'[p] /\ b.stamp = run'[p] => PastRound(p, b.round)'
    <3>1. CASE b = new
      BY <2>1, <2>2, <2>3, <2>9, <3>1 DEF PastRound
    <3>2. CASE b \in minted
      BY <2>1, <2>2, <2>9, <3>2 DEF RoundDiscipline, PastRound
    <3> QED BY <2>1, <3>1, <3>2
  <2>10. \A b \in minted' : b.round > 0
    BY <2>1, <2>4 DEF RoundDiscipline
  <2> QED BY <2>7, <2>8, <2>9, <2>10 DEF RoundDiscipline
<1>8. ASSUME NEW n \in Validators, AnnouncePropose(n)
      PROVE  RoundDiscipline'
  <2>1. /\ minted' = minted /\ run' = run /\ up' = up /\ round' = round
        /\ pc[n] = "propose" /\ pc' = [pc EXCEPT ![n] = "announce"]
    BY <1>8 DEF AnnouncePropose
  <2>2. pc \in [Validators -> {"start", "sleep", "propose", "announce"}]
    BY DEF Typed, TypeOK
  <2> QED BY <1>2, <2>1, <2>2 DEF RoundDiscipline, PastRound
<1>9. ASSUME NEW n \in Validators, AnnounceBlock(n) \/ SkipRound(n)
      PROVE  RoundDiscipline'
  <2>1. /\ minted' = minted /\ run' = run /\ up' = up
        /\ pc[n] # "start" /\ pc'[n] # "start"
        /\ round'[n] = round[n] + 1
        /\ \A p \in Validators : p # n => pc'[p] = pc[p] /\ round'[p] = round[p]
    BY <1>9 DEF AnnounceBlock, SkipRound, Typed, TypeOK
  <2>2. round \in [Validators -> Nat]
    BY DEF Typed, TypeOK
  <2> QED BY <1>1, <1>2, <2>1, <2>2 DEF RoundDiscipline, PastRound
<1>10. ASSUME NEW n \in Validators,
              \/ Flush(n) \/ StartupSync(n) \/ Handler(n)
              \/ \E tx \in Submissions : SubmitTx(n, tx)
       PROVE  RoundDiscipline'
  <2>1. UNCHANGED <<up, run, pc, round, minted>>
    BY <1>10 DEF Flush, StartupSync, Handler, SyncStep, Handle, OnNewBlock, OnTransaction,
       OnVote, OnPropose, OnSyncRequest, OnSyncResponse, SubmitTx, taskVars
  <2> QED BY <1>3, <2>1
<1>11. CASE UNCHANGED vars
  BY <1>3, <1>11 DEF vars
<1> QED
  BY <1>4, <1>5, <1>6, <1>7, <1>8, <1>9, <1>10, <1>11 DEF Next, Producer

(* No two of the blocks ever made have one hash: validators never share a  *)
(* round, and a validator makes at most one block for a round in a run,    *)
(* although its round counter restarts from its chain.                     *)
THEOREM HashesUnique == Spec => []HashIdentifiesBlock
<1>1. Init => Typed /\ RoundDiscipline
  BY TypedInit, RoundDisciplineInit
<1>2. (Typed /\ RoundDiscipline) /\ [Next]_vars => (Typed /\ RoundDiscipline)'
  BY TypedStep, RoundDisciplineStep
<1>3. RoundDiscipline => HashIdentifiesBlock
  BY DEF RoundDiscipline
<1> QED BY <1>1, <1>2, <1>3, PTL DEF Spec

-----------------------------------------------------------------------------
(***************************************************************************)
(* Votes name their block.  The invariant itself is inductive once the     *)
(* types of messages and the shape of the engines are added: votes reach   *)
(* an engine through the network only, and its certificates are made of    *)
(* the votes it has counted.                                               *)
(***************************************************************************)

(* The votes that may reach n: of others, for blocks that exist.           *)
Heard(n) == {v \in Vote : Cast(v) /\ v.voter # n}

Fields == {"round", "phase", "locked_qc", "high_qc", "prepare_votes", "precommit_votes",
           "commit_votes", "committed", "pending"}

(* An engine's record, which holds votes of V only.                        *)
HoldsOnly(h, V) ==
  /\ h = [f \in Fields |-> h[f]]
  /\ h.prepare_votes \subseteq V /\ h.precommit_votes \subseteq V /\ h.commit_votes \subseteq V
  /\ \A qc \in h.high_qc \cup h.locked_qc : qc.votes \subseteq V

NetHeard == \A n \in Validators : \A m \in net[n] : m.type = "ConsensusVote" => m.vote \in Heard(n)

EnginesHeard == hs = [n \in Validators |-> hs[n]] /\ \A n \in Validators : HoldsOnly(hs[n], Heard(n))

-----------------------------------------------------------------------------
(* The engine's methods *)

LEMMA InsertHolds ==
  ASSUME NEW V, NEW votes \in SUBSET V, NEW vote \in V
  PROVE  Insert(votes, vote) \in SUBSET V
BY DEF Insert

LEMMA QCHolds ==
  ASSUME NEW k, NEW votes, NEW qc \in FormQC(k, votes)
  PROVE  qc.votes = votes
BY DEF FormQC, QuorumCert

LEMMA PrepareHolds ==
  ASSUME NEW V, NEW h, HoldsOnly(h, V), NEW vote \in V, NEW r \in VoteInPrepare(h, vote)
  PROVE  HoldsOnly(r.hs, V)
<1> DEFINE votes == Insert(h.prepare_votes, vote)
           next  == [h EXCEPT !.prepare_votes = votes]
<1>1. votes \in SUBSET V
  BY InsertHolds DEF HoldsOnly
<1> HIDE DEF votes
<1>2. HoldsOnly(next, V)
  BY <1>1 DEF HoldsOnly, Fields
<1>3. ASSUME NEW qc \in FormQC(h.round, votes)
      PROVE  HoldsOnly([next EXCEPT !.high_qc = {qc}, !.phase = "PreCommit"], V)
  <2>1. qc.votes \subseteq V
    BY <1>1, QCHolds
  <2> HIDE DEF next
  <2> QED BY <1>2, <2>1 DEF HoldsOnly, Fields
<1> HIDE DEF next
<1>4. CASE r = Reply(next, {})
  BY <1>2, <1>4 DEF Reply
<1>5. CASE \E qc \in FormQC(h.round, votes) :
             r = Reply([next EXCEPT !.high_qc = {qc}, !.phase = "PreCommit"], {NewViewMsg(h.round, qc)})
  <2>1. PICK qc \in FormQC(h.round, votes) :
          r = Reply([next EXCEPT !.high_qc = {qc}, !.phase = "PreCommit"], {NewViewMsg(h.round, qc)})
    BY <1>5
  <2>2. r.hs = [next EXCEPT !.high_qc = {qc}, !.phase = "PreCommit"]
    BY <2>1 DEF Reply
  <2> QED BY <1>3, <2>2
<1>6. \/ r = Reply(next, {})
      \/ \E qc \in FormQC(h.round, votes) :
           r = Reply([next EXCEPT !.high_qc = {qc}, !.phase = "PreCommit"], {NewViewMsg(h.round, qc)})
  BY DEF VoteInPrepare, votes, next
<1> QED BY <1>4, <1>5, <1>6

LEMMA PreCommitHolds ==
  ASSUME NEW V, NEW h, HoldsOnly(h, V), NEW vote \in V, NEW r \in VoteInPreCommit(h, vote)
  PROVE  HoldsOnly(r.hs, V)
<1> DEFINE votes == Insert(h.precommit_votes, vote)
           next  == [h EXCEPT !.precommit_votes = votes]
<1>1. votes \in SUBSET V
  BY InsertHolds DEF HoldsOnly
<1> HIDE DEF votes
<1>2. HoldsOnly(next, V)
  BY <1>1 DEF HoldsOnly, Fields
<1>3. ASSUME NEW qc \in FormQC(h.round, votes)
      PROVE  HoldsOnly([next EXCEPT !.locked_qc = {qc}, !.phase = "Commit"], V)
  <2>1. qc.votes \subseteq V
    BY <1>1, QCHolds
  <2> HIDE DEF next
  <2> QED BY <1>2, <2>1 DEF HoldsOnly, Fields
<1> HIDE DEF next
<1>4. CASE r = Reply(next, {})
  BY <1>2, <1>4 DEF Reply
<1>5. CASE \E qc \in FormQC(h.round, votes) :
             r = Reply([next EXCEPT !.locked_qc = {qc}, !.phase = "Commit"], {NewViewMsg(h.round, qc)})
  <2>1. PICK qc \in FormQC(h.round, votes) :
          r = Reply([next EXCEPT !.locked_qc = {qc}, !.phase = "Commit"], {NewViewMsg(h.round, qc)})
    BY <1>5
  <2>2. r.hs = [next EXCEPT !.locked_qc = {qc}, !.phase = "Commit"]
    BY <2>1 DEF Reply
  <2> QED BY <1>3, <2>2
<1>6. \/ r = Reply(next, {})
      \/ \E qc \in FormQC(h.round, votes) :
           r = Reply([next EXCEPT !.locked_qc = {qc}, !.phase = "Commit"], {NewViewMsg(h.round, qc)})
  BY DEF VoteInPreCommit, votes, next
<1> QED BY <1>4, <1>5, <1>6

LEMMA CommitHolds ==
  ASSUME NEW V, NEW h, HoldsOnly(h, V), NEW vote \in V, NEW r \in VoteInCommit(h, vote)
  PROVE  HoldsOnly(r.hs, V)
<1> DEFINE votes == Insert(h.commit_votes, vote)
           next  == [h EXCEPT !.commit_votes = votes]
           decided == [next EXCEPT !.phase = "Decide"]
<1>1. votes \in SUBSET V
  BY InsertHolds DEF HoldsOnly
<1> HIDE DEF votes
<1>2. HoldsOnly(next, V)
  BY <1>1 DEF HoldsOnly, Fields
<1> HIDE DEF next
<1>3. HoldsOnly(decided, V)
  BY <1>2 DEF HoldsOnly, Fields
<1> HIDE DEF decided
<1>4. ASSUME NEW qc PROVE HoldsOnly(CommitBlock(decided, qc), V)
  <2>1. CASE decided.pending = {}
    BY <1>3, <2>1 DEF CommitBlock
  <2>2. CASE decided.pending # {}
    <3>1. HoldsOnly(ClearVotes(decided), V)
      BY <1>3 DEF HoldsOnly, ClearVotes, Fields
    <3> DEFINE entry == [block |-> CHOOSE b \in decided.pending : TRUE, qc |-> {qc}]
               cleared == ClearVotes(decided)
    <3>2. CommitBlock(decided, qc) =
            [cleared EXCEPT !.committed = Append(decided.committed, entry), !.pending = {}]
      BY <2>2 DEF CommitBlock
    <3> HIDE DEF entry, cleared
    <3> QED BY <3>1, <3>2 DEF HoldsOnly, cleared, Fields
  <2> QED BY <2>1, <2>2
<1>5. CASE r = Reply(next, {})
  BY <1>2, <1>5 DEF Reply
<1>6. CASE \E qc \in FormQC(h.round, votes) :
             r = Reply(CommitBlock(decided, qc), {NewViewMsg(h.round + 1, qc)})
  BY <1>4, <1>6 DEF Reply
<1>7. \/ r = Reply(next, {})
      \/ \E qc \in FormQC(h.round, votes) :
           r = Reply(CommitBlock(decided, qc), {NewViewMsg(h.round + 1, qc)})
  BY DEF VoteInCommit, votes, next, decided
<1> QED BY <1>5, <1>6, <1>7

LEMMA VoteHolds ==
  ASSUME NEW V, NEW h, HoldsOnly(h, V), NEW vote \in V, NEW r \in HandleVote(h, vote)
  PROVE  HoldsOnly(r.hs, V)
<1>1. CASE r = Reply(h, {})
  BY <1>1 DEF Reply
<1>2. CASE r # Reply(h, {}) /\ h.phase = "Prepare"
  BY <1>2, PrepareHolds DEF HandleVote
<1>3. CASE r # Reply(h, {}) /\ h.phase = "PreCommit"
  BY <1>3, PreCommitHolds DEF HandleVote
<1>4. CASE r # Reply(h, {}) /\ h.phase = "Commit"
  BY <1>4, CommitHolds DEF HandleVote
<1>5. CASE r # Reply(h, {}) /\ h.phase \notin {"Prepare", "PreCommit", "Commit"}
  BY <1>5 DEF HandleVote
<1> QED BY <1>1, <1>2, <1>3, <1>4, <1>5

LEMMA ProposeHolds ==
  ASSUME NEW V, NEW h, HoldsOnly(h, V), NEW key, NEW block, NEW r \in HandlePropose(h, key, block)
  PROVE  HoldsOnly(r.hs, V)
<1>1. r.hs = h \/ r.hs = [h EXCEPT !.pending = {block}]
  BY DEF HandlePropose, Reply
<1>2. HoldsOnly([h EXCEPT !.pending = {block}], V)
  BY DEF HoldsOnly, Fields
<1> QED BY <1>1, <1>2

LEMMA NewHolds == ASSUME NEW V PROVE HoldsOnly(NewHotStuff, V)
BY DEF HoldsOnly, Fields, NewHotStuff

-----------------------------------------------------------------------------
(* The network *)

(* Votes a node casts for blocks that exist reach others only. *)
LEMMA ExchangeHeard ==
  ASSUME Typed, NetHeard, minted' = minted, NEW n \in Validators, NEW consumed, NEW ms,
         \A m \in ms : m.type = "ConsensusVote" => \E b \in Existing : m = VoteFor(n, b),
         Exchange(n, consumed, ms)
  PROVE  NetHeard'
<1>1. \A p \in Validators : Heard(p)' = Heard(p)
  BY DEF Heard, Cast, Existing
<1> SUFFICES ASSUME NEW p \in Validators, NEW m \in net'[p], m.type = "ConsensusVote"
             PROVE  m.vote \in Heard(p)
  BY <1>1 DEF NetHeard
<1>2. m \in net[p] \/ (p # n /\ m \in ms)
  <2>1. PICK reached \in Reachable(n) : net' = NetAfter(n, consumed, ms, reached)
    BY DEF Exchange
  <2> QED BY <2>1 DEF NetAfter, Delivered, Published
<1>3. CASE m \in net[p]
  BY <1>3 DEF NetHeard
<1>4. CASE p # n /\ m \in ms
  <2>1. PICK b \in Existing : m = VoteFor(n, b)
    BY <1>4
  <2>2. b \in Block
    BY <2>1, ExistingType DEF Typed
  <2>3. m.vote = Sign(Hash(b), b.round, n)
    BY <2>1 DEF VoteFor, ConsensusVote
  <2>4. /\ m.vote \in Vote /\ m.vote.voter = n
        /\ m.vote.hash = Hash(b) /\ m.vote.round = b.round
    BY <2>2, <2>3 DEF Sign, Hash, Vote, Block, HashType
  <2> QED BY <1>4, <2>1, <2>4 DEF Heard, Cast
<1> QED BY <1>2, <1>3, <1>4

LEMMA HeardStep ==
  ASSUME Typed, NetHeard, EnginesHeard, [Next]_vars
  PROVE  NetHeard' /\ EnginesHeard'
<1>0. ASSUME minted' = minted
      PROVE  \A n \in Validators : Heard(n)' = Heard(n)
  BY <1>0 DEF Heard, Cast, Existing
<1>a. ASSUME minted' = minted, hs' = hs
      PROVE  EnginesHeard'
  BY <1>0, <1>a DEF EnginesHeard
<1>b. ASSUME minted' = minted, net' = net
      PROVE  NetHeard'
  BY <1>0, <1>b DEF NetHeard
<1>1. ASSUME NEW n \in Validators, Boot(n) \/ Flush(n) \/ StartProducer(n) \/ SkipRound(n) \/ SyncStep(n)
      PROVE  NetHeard' /\ EnginesHeard'
  BY <1>1, <1>a, <1>b DEF Boot, Flush, StartProducer, SkipRound, SyncStep, netVars
<1>2. ASSUME NEW n \in Validators, Crash(n)
      PROVE  NetHeard' /\ EnginesHeard'
  <2>1. minted' = minted /\ hs' = [hs EXCEPT ![n] = NewHotStuff] /\ net' = [net EXCEPT ![n] = {}]
    BY <1>2 DEF Crash
  <2>2. NetHeard'
    BY <1>0, <2>1 DEF NetHeard, Typed, TypeOK
  <2>3. EnginesHeard'
    BY <1>0, <2>1, NewHolds DEF EnginesHeard
  <2> QED BY <2>2, <2>3
<1>3. ASSUME NEW n \in Validators, Produce(n)
      PROVE  NetHeard' /\ EnginesHeard'
  <2>1. net' = net /\ hs' = hs /\ Existing \subseteq Existing'
    BY <1>3 DEF Produce, netVars, Existing
  <2>2. \A p \in Validators : Heard(p) \subseteq Heard(p)'
    BY <2>1 DEF Heard, Cast
  <2>3. NetHeard'
    BY <2>1, <2>2 DEF NetHeard
  <2>4. EnginesHeard'
    <3>1. ASSUME NEW p \in Validators PROVE HoldsOnly(hs[p], Heard(p)')
      BY <2>2 DEF EnginesHeard, HoldsOnly
    <3> QED BY <2>1, <3>1 DEF EnginesHeard
  <2> QED BY <2>3, <2>4
<1>4. ASSUME NEW n \in Validators,
             \/ AnnouncePropose(n) \/ AnnounceBlock(n) \/ StartupSync(n)
             \/ \E tx \in Submissions : SubmitTx(n, tx)
      PROVE  NetHeard' /\ EnginesHeard'
  <2>1. minted' = minted /\ hs' = hs
    BY <1>4 DEF AnnouncePropose, AnnounceBlock, StartupSync, SubmitTx
  <2>2. \E m : Exchange(n, {}, {m}) /\ m.type # "ConsensusVote"
    <3>1. ASSUME AnnouncePropose(n)
          PROVE  Exchange(n, {}, {ConsensusPropose(made[n])})
      BY <3>1 DEF AnnouncePropose, Publish
    <3>2. ASSUME AnnounceBlock(n)
          PROVE  Exchange(n, {}, {NewBlock(made[n])})
      BY <3>2 DEF AnnounceBlock, Publish
    <3>3. ASSUME StartupSync(n)
          PROVE  Exchange(n, {}, {SyncRequest(TipOf(n).height)})
      BY <3>3 DEF StartupSync, Publish
    <3>4. ASSUME NEW tx \in Submissions, SubmitTx(n, tx)
          PROVE  Exchange(n, {}, {NewTransaction(tx)})
      BY <3>4 DEF SubmitTx, Publish
    <3>5. /\ ConsensusPropose(made[n]).type # "ConsensusVote"
          /\ NewBlock(made[n]).type # "ConsensusVote"
          /\ SyncRequest(TipOf(n).height).type # "ConsensusVote"
          /\ \A tx : NewTransaction(tx).type # "ConsensusVote"
      BY DEF ConsensusPropose, NewBlock, SyncRequest, NewTransaction
    <3> QED BY <1>4, <3>1, <3>2, <3>3, <3>4, <3>5
  <2>3. NetHeard'
    BY <2>1, <2>2, ExchangeHeard
  <2> QED BY <1>a, <2>1, <2>3
<1>5. ASSUME NEW n \in Validators, NEW m \in net[n], OnNewBlock(n, m)
      PROVE  NetHeard' /\ EnginesHeard'
  <2>1. minted' = minted /\ hs' = hs
    BY <1>5 DEF OnNewBlock
  <2>2. m.block \in Existing
    BY <1>5, MessageType DEF OnNewBlock, Receives, Typed, TypeOK
  <2>3. Exchange(n, {m}, {VoteFor(n, m.block)}) \/ Exchange(n, {m}, {})
    BY <1>5 DEF OnNewBlock
  <2>4. NetHeard'
    BY <2>1, <2>2, <2>3, ExchangeHeard
  <2> QED BY <1>a, <2>1, <2>4
<1>6. ASSUME NEW n \in Validators, NEW m \in net[n], OnTransaction(n, m) \/ OnSyncResponse(n, m)
      PROVE  NetHeard' /\ EnginesHeard'
  <2>1. minted' = minted /\ hs' = hs /\ Exchange(n, {m}, {})
    BY <1>6 DEF OnTransaction, OnSyncResponse
  <2>2. NetHeard'
    BY <2>1, ExchangeHeard
  <2> QED BY <1>a, <2>1, <2>2
<1>7. ASSUME NEW n \in Validators, NEW m \in net[n], OnSyncRequest(n, m)
      PROVE  NetHeard' /\ EnginesHeard'
  <2>1. minted' = minted /\ hs' = hs
    BY <1>7 DEF OnSyncRequest
  <2> DEFINE missing == Above(blocks[n], m.from_height)
             answer  == IF missing = << >> THEN {} ELSE {SyncResponse(missing)}
  <2>2. Exchange(n, {m}, answer)
    BY <1>7 DEF OnSyncRequest
  <2>3. \A k \in answer : k.type # "ConsensusVote"
    BY DEF SyncResponse
  <2> HIDE DEF answer
  <2>4. NetHeard'
    BY <2>1, <2>2, <2>3, ExchangeHeard
  <2> QED BY <1>a, <2>1, <2>4
<1>8. ASSUME NEW n \in Validators, NEW m \in net[n], OnVote(n, m)
      PROVE  NetHeard' /\ EnginesHeard'
  <2>1. PICK r \in HandleVote(hs[n], m.vote) :
          /\ hs' = [hs EXCEPT ![n] = r.hs]
          /\ Exchange(n, {m}, {NewBlock(Genesis) : out \in r.out})
    BY <1>8 DEF OnVote
  <2>2. minted' = minted /\ m.vote \in Heard(n)
    BY <1>8 DEF OnVote, Receives, NetHeard
  <2>3. HoldsOnly(r.hs, Heard(n))
    BY <2>1, <2>2, VoteHolds DEF EnginesHeard
  <2>4. EnginesHeard'
    BY <1>0, <2>1, <2>2, <2>3 DEF EnginesHeard
  <2>5. \A k \in {NewBlock(Genesis) : out \in r.out} : k.type # "ConsensusVote"
    BY DEF NewBlock
  <2>6. NetHeard'
    BY <2>1, <2>2, <2>5, ExchangeHeard
  <2> QED BY <2>4, <2>6
<1>9. ASSUME NEW n \in Validators, NEW m \in net[n], OnPropose(n, m)
      PROVE  NetHeard' /\ EnginesHeard'
  <2>1. PICK r \in HandlePropose(hs[n], n, m.block) :
          /\ hs' = [hs EXCEPT ![n] = r.hs]
          /\ Exchange(n, {m}, {VoteFor(n, m.block) : out \in r.out})
    BY <1>9 DEF OnPropose
  <2>2. minted' = minted /\ m.block \in Existing
    BY <1>9, MessageType DEF OnPropose, Receives, Typed, TypeOK
  <2>3. HoldsOnly(r.hs, Heard(n))
    BY <2>1, ProposeHolds DEF EnginesHeard
  <2>4. EnginesHeard'
    BY <1>0, <2>1, <2>2, <2>3 DEF EnginesHeard
  <2>5. NetHeard'
    BY <2>1, <2>2, ExchangeHeard
  <2> QED BY <2>4, <2>5
<1>10. CASE UNCHANGED vars
  BY <1>10, <1>a, <1>b DEF vars
<1> QED
  BY <1>1, <1>2, <1>3, <1>4, <1>5, <1>6, <1>7, <1>8, <1>9, <1>10 DEF Next, Producer, Handler, Handle

(***************************************************************************)
(* VotesAreNamed: for any number of validators and any interleaving of     *)
(* proposals, blocks and crashes, every vote on its way, counted or in a   *)
(* certificate is for a block that some leader made and carries that       *)
(* block's round.                                                          *)
(***************************************************************************)
THEOREM VotesAreNamed == Spec => []VotesNameTheirBlock
<1>1. Init => Typed /\ NetHeard /\ EnginesHeard
  <2>1. Init => NetHeard
    BY DEF Init, NetHeard
  <2>2. Init => EnginesHeard
    BY NewHolds DEF Init, EnginesHeard
  <2> QED BY <2>1, <2>2, TypedInit
<1>2. Typed /\ NetHeard /\ EnginesHeard /\ [Next]_vars => (Typed /\ NetHeard /\ EnginesHeard)'
  BY TypedStep, HeardStep
<1>3. NetHeard /\ EnginesHeard => VotesNameTheirBlock
  BY DEF NetHeard, EnginesHeard, HoldsOnly, Heard, VotesNameTheirBlock
<1> QED BY <1>1, <1>2, <1>3, PTL DEF Spec
=============================================================================
