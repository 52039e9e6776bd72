-------------------------- MODULE VelaChainProofs --------------------------
(***************************************************************************)
(* Theorems about the chains of VelaNode and what is stored of them:       *)
(* StoredChain and ChainIsWhole hold whatever saves fail and wherever      *)
(* crashes strike, and a network of nodes implements ChainLog.             *)
(***************************************************************************)
EXTENDS VelaNodeProofs, WorldStateProofs

-----------------------------------------------------------------------------
(* Chains and stores *)

LEMMA PrefixElements ==
  ASSUME NEW S, NEW p \in Seq(S), NEW s \in Seq(S)
  PROVE  IsPrefix(p, s) <=> Len(p) <= Len(s) /\ \A i \in 1 .. Len(p) : p[i] = s[i]
<1>1. Len(p) \in Nat /\ Len(s) \in Nat
  BY LenProperties
<1>2. SubSeq(p, 1, Len(p)) = p
  BY SubSeqFull
<1>3. ASSUME Len(p) <= Len(s)
      PROVE  /\ SubSeq(s, 1, Len(p)) \in Seq(S)
             /\ Len(SubSeq(s, 1, Len(p))) = Len(p)
             /\ \A i \in 1 .. Len(p) : SubSeq(s, 1, Len(p))[i] = s[i]
  <2>1. \A i \in 1 .. Len(p) : s[i] \in S
    BY <1>1, <1>3, ElementOfSeq
  <2>2. /\ SubSeq(s, 1, Len(p)) \in Seq(S)
        /\ Len(SubSeq(s, 1, Len(p))) = IF 1 <= Len(p) THEN Len(p) - 1 + 1 ELSE 0
        /\ \A i \in 1 .. Len(p) - 1 + 1 : SubSeq(s, 1, Len(p))[i] = s[1 + i - 1]
    BY <1>1, <2>1, SubSeqProperties
  <2> QED BY <1>1, <2>2
<1>4. ASSUME IsPrefix(p, s)
      PROVE  Len(p) <= Len(s) /\ \A i \in 1 .. Len(p) : p[i] = s[i]
  BY <1>2, <1>3, <1>4 DEF IsPrefix
<1>5. ASSUME Len(p) <= Len(s), \A i \in 1 .. Len(p) : p[i] = s[i]
      PROVE  IsPrefix(p, s)
  <2>1. p = SubSeq(s, 1, Len(p))
    BY <1>1, <1>3, <1>5, SeqEqual
  <2> QED BY <1>2, <1>5, <2>1 DEF IsPrefix
<1> QED BY <1>4, <1>5

LEMMA PrefixRefl ==
  ASSUME NEW S, NEW s \in Seq(S)
  PROVE  IsPrefix(s, s) /\ IsPrefix(<< >>, s)
<1>1. Len(s) \in Nat
  BY LenProperties
<1>2. Len(s) <= Len(s) /\ \A i \in 1 .. Len(s) : s[i] = s[i]
  BY <1>1
<1>3. IsPrefix(s, s)
  BY <1>2, PrefixElements
<1> DEFINE e == << >>
<1>4. e \in Seq(S) /\ Len(e) = 0
  BY EmptySeq
<1> HIDE DEF e
<1>5. Len(e) <= Len(s) /\ \A i \in 1 .. Len(e) : e[i] = s[i]
  BY <1>1, <1>4
<1>6. IsPrefix(e, s)
  BY <1>4, <1>5, PrefixElements
<1> QED BY <1>3, <1>6 DEF e

LEMMA PrefixOfAppend ==
  ASSUME NEW S, NEW p \in Seq(S), NEW s \in Seq(S), NEW e \in S, IsPrefix(p, s)
  PROVE  IsPrefix(p, Append(s, e))
<1>1. /\ Append(s, e) \in Seq(S)
      /\ Len(Append(s, e)) = Len(s) + 1
      /\ \A i \in 1 .. Len(s) : Append(s, e)[i] = s[i]
  BY AppendProperties
<1>2. Len(p) \in Nat /\ Len(s) \in Nat
  BY LenProperties
<1>3. Len(p) <= Len(s) /\ \A i \in 1 .. Len(p) : p[i] = s[i]
  BY PrefixElements
<1> DEFINE longer == Append(s, e)
<1>4. longer \in Seq(S) /\ Len(p) <= Len(longer) /\ \A i \in 1 .. Len(p) : p[i] = longer[i]
  BY <1>1, <1>2, <1>3
<1> HIDE DEF longer
<1>5. IsPrefix(p, longer)
  BY <1>4, PrefixElements
<1> QED BY <1>5 DEF longer

(* What survives of a store keeps its order. *)
LEMMA PrefixShape ==
  ASSUME NEW S, NEW p \in Seq(S), NEW s \in Seq(S), IsPrefix(p, s)
  PROVE  Increasing(s) => Increasing(p)
<1>1. Len(p) \in Nat /\ Len(s) \in Nat /\ DOMAIN p = 1 .. Len(p) /\ DOMAIN s = 1 .. Len(s)
  BY LenProperties
<1>2. Len(p) <= Len(s) /\ \A i \in 1 .. Len(p) : p[i] = s[i]
  BY PrefixElements
<1> QED BY <1>1, <1>2 DEF Increasing

(* A block above all others goes to the end: the chain keeps its order.    *)
LEMMA AppendShape ==
  ASSUME NEW chain \in Seq(Block), NEW block \in Block,
         \A i \in DOMAIN chain : chain[i].height < block.height
  PROVE  Increasing(chain) => Increasing(Append(chain, block))
<1>1. /\ Len(chain) \in Nat
      /\ DOMAIN chain = 1 .. Len(chain)
      /\ DOMAIN Append(chain, block) = 1 .. Len(chain) + 1
      /\ \A i \in 1 .. Len(chain) : Append(chain, block)[i] = chain[i]
      /\ Append(chain, block)[Len(chain) + 1] = block
  BY LenProperties, AppendProperties
<1> QED BY <1>1 DEF Increasing

(* save_block overwrites nothing when the block is above all that is       *)
(* stored: it is an append.                                                *)
LEMMA SaveIsAppend ==
  ASSUME NEW store \in Seq(Block), NEW block \in Block,
         \A i \in DOMAIN store : store[i].height < block.height
  PROVE  SaveBlock(store, block) = Append(store, block)
<1>1. Len(store) \in Nat /\ DOMAIN store = 1 .. Len(store)
  BY LenProperties
<1>2. ASSUME NEW i \in DOMAIN store
      PROVE  store[i].height \in Nat /\ store[i].height <= block.height
  <2>1. store[i] \in Block
    BY <1>1, ElementOfSeq
  <2>2. store[i].height \in Nat /\ block.height \in Nat
    BY <2>1 DEF Block
  <2> QED BY <2>2
<1>3. /\ {i \in DOMAIN store : store[i].height < block.height} = 1 .. Len(store)
      /\ {i \in DOMAIN store : store[i].height <= block.height} = 1 .. Len(store)
  BY <1>1, <1>2
<1>4. Cardinality(1 .. Len(store)) = Len(store)
  BY <1>1, FS_Interval
<1>5. Below(store, block.height) = Len(store) /\ UpTo(store, block.height) = Len(store)
  BY <1>3, <1>4 DEF Below, UpTo
<1>6. SubSeq(store, 1, Len(store)) = store
  BY SubSeqFull
<1>7. SubSeq(store, Len(store) + 1, Len(store)) = << >>
  BY <1>1, SubSeqEmpty
<1>8. store \o <<block>> \in Seq(Block) /\ Append(store, block) = store \o <<block>>
  BY ConcatProperties, AppendIsConcat
<1>9. (store \o <<block>>) \o << >> = store \o <<block>>
  BY <1>8, ConcatEmptySeq
<1> QED BY <1>5, <1>6, <1>7, <1>8, <1>9 DEF SaveBlock

-----------------------------------------------------------------------------
(* The steps that touch a chain or a store *)

(* n takes a block on top of its chain: its own, or one it was sent. *)
Grows(n, block) ==
  /\ up[n] /\ up' = up /\ disk' = disk
  /\ block \in minted' /\ (minted' = minted \/ minted' = minted \cup {block})
  /\ block \in Block
  /\ block.height = TipOf(n).height + 1
  /\ Accept(n, block)

ChainUnchanged == UNCHANGED <<up, blocks, ws, db, disk, minted, unsaved>>

(* A block of the height after some node's tip is not genesis. *)
LEMMA NotGenesis ==
  ASSUME Typed, NEW n \in Validators, up[n], NEW b \in Existing,
         b.height = TipOf(n).height + 1
  PROVE  b \in minted /\ b \in Block
<1>1. TipOf(n).height \in Nat
  BY TipType
<1>2. b # Genesis
  BY <1>1 DEF Genesis
<1>3. b \in minted
  BY <1>2 DEF Existing
<1> QED BY <1>3, ExistingType DEF Typed

(* However a block enters a node, it enters on top. *)
LEMMA ChainSteps ==
  ASSUME Typed, [Next]_vars
  PROVE  \/ ChainUnchanged
         \/ \E n \in Validators : Boot(n) \/ Crash(n) \/ Flush(n)
         \/ \E n \in Validators : \E b \in Block : Grows(n, b)
<1>1. ASSUME NEW n \in Validators, Produce(n)
      PROVE  Grows(n, NextBlock(n))
  <2>1. up[n] /\ NextBlock(n) \in Block
    BY <1>1, NextBlockType DEF Produce, LockFree
  <2>2. NextBlock(n).height = TipOf(n).height + 1
    BY DEF NextBlock
  <2> QED BY <1>1, <2>1, <2>2 DEF Produce, Grows
<1>2. ASSUME NEW n \in Validators, NEW m \in net[n], OnNewBlock(n, m)
      PROVE  ChainUnchanged \/ \E b \in Block : Grows(n, b)
  <2>1. m \in Message
    BY DEF Typed, TypeOK
  <2>2. m.block \in Existing
    BY <1>2, <2>1, MessageType DEF OnNewBlock, Receives
  <2>3. up[n] /\ up' = up /\ disk' = disk /\ minted' = minted
    BY <1>2 DEF OnNewBlock, Receives, LockFree
  <2>4. CASE m.block.height = TipOf(n).height + 1
    <3>1. m.block \in minted /\ m.block \in Block
      BY <2>2, <2>3, <2>4, NotGenesis
    <3>2. Accept(n, m.block)
      BY <1>2, <2>4 DEF OnNewBlock, Follows
    <3>3. Grows(n, m.block)
      BY <2>3, <2>4, <3>1, <3>2 DEF Grows
    <3> QED BY <3>1, <3>3
  <2>5. CASE m.block.height # TipOf(n).height + 1
    BY <1>2, <2>3, <2>5 DEF OnNewBlock, Follows, ChainUnchanged, chainVars
  <2> QED BY <2>4, <2>5
<1>3. ASSUME NEW n \in Validators, SyncStep(n)
      PROVE  ChainUnchanged \/ \E b \in Block : Grows(n, b)
  <2> DEFINE b == Head(handling[n])
  <2>1. up[n] /\ up' = up /\ disk' = disk /\ minted' = minted /\ handling[n] # << >>
    BY <1>3 DEF SyncStep
  <2>2. b \in Existing
    BY <2>1, HeadTailProperties DEF Typed, TypeOK
  <2>3. CASE b.height = TipOf(n).height + 1
    <3>1. Accept(n, b)
      BY <1>3, <2>3 DEF SyncStep, Follows
    <3> HIDE DEF b
    <3>2. b \in minted /\ b \in Block
      BY <2>1, <2>2, <2>3, NotGenesis
    <3>3. Grows(n, b)
      BY <2>1, <2>3, <3>1, <3>2 DEF Grows
    <3> QED BY <3>2, <3>3
  <2>4. CASE b.height # TipOf(n).height + 1
    BY <1>3, <2>1, <2>4 DEF SyncStep, Follows, ChainUnchanged, chainVars
  <2> QED BY <2>3, <2>4
<1>4. ASSUME NEW n \in Validators, NEW m \in net[n],
             \/ OnTransaction(n, m) \/ OnVote(n, m) \/ OnPropose(n, m)
             \/ OnSyncRequest(n, m) \/ OnSyncResponse(n, m)
      PROVE  ChainUnchanged
  BY <1>4 DEF OnTransaction, OnVote, OnPropose, OnSyncRequest, OnSyncResponse,
     ChainUnchanged, chainVars
<1>5. ASSUME NEW n \in Validators,
             \/ StartProducer(n) \/ AnnouncePropose(n) \/ AnnounceBlock(n) \/ SkipRound(n)
             \/ StartupSync(n) \/ \E tx \in Submissions : SubmitTx(n, tx)
      PROVE  ChainUnchanged
  BY <1>5 DEF StartProducer, AnnouncePropose, AnnounceBlock, SkipRound, StartupSync, SubmitTx,
     ChainUnchanged, chainVars
<1>6. CASE UNCHANGED vars
  BY <1>6 DEF vars, ChainUnchanged
<1>7. ASSUME NEW n \in Validators, Producer(n)
      PROVE  ChainUnchanged \/ \E b \in Block : Grows(n, b)
  <2>1. Produce(n) => NextBlock(n) \in Block
    BY NextBlockType DEF Produce, LockFree
  <2> QED BY <1>1, <1>5, <1>7, <2>1 DEF Producer
<1>8. ASSUME NEW n \in Validators, Handler(n)
      PROVE  ChainUnchanged \/ \E b \in Block : Grows(n, b)
  BY <1>2, <1>3, <1>4, <1>8 DEF Handler, Handle
<1> QED BY <1>5, <1>6, <1>7, <1>8 DEF Next

-----------------------------------------------------------------------------
(* StoredChain *)

LEMMA StoredChainInit == Init => StoredChain
<1> SUFFICES ASSUME Init, NEW n \in Validators
             PROVE  /\ Increasing(<< >>)
                    /\ IsPrefix(<< >>, << >>)
  BY DEF Init, StoredChain
<1>1. Increasing(<< >>)
  BY DEF Increasing
<1>2. IsPrefix(<< >>, << >>)
  <2>1. << >> \in Seq(Block)
    OBVIOUS
  <2> QED BY <2>1, PrefixRefl
<1> QED BY <1>1, <1>2

(* The tip is the highest block of an increasing chain. *)
LEMMA TipIsHighest ==
  ASSUME NEW chain \in Seq(Block), chain # << >>, Increasing(chain)
  PROVE  \A i \in DOMAIN chain : chain[i].height <= chain[Len(chain)].height
<1>1. Len(chain) \in Nat \ {0} /\ DOMAIN chain = 1 .. Len(chain)
  BY LenProperties, EmptySeq
<1>2. TAKE i \in DOMAIN chain
<1>3. chain[i] \in Block /\ chain[Len(chain)] \in Block
  BY <1>1, ElementOfSeq
<1>4. chain[i].height \in Nat /\ chain[Len(chain)].height \in Nat
  BY <1>3 DEF Block
<1>5. CASE i = Len(chain)
  BY <1>4, <1>5
<1>6. CASE i < Len(chain)
  BY <1>1, <1>4, <1>6 DEF Increasing
<1> QED BY <1>1, <1>5, <1>6

(* In a state that satisfies StoredChain a block that a node takes is      *)
(* appended to its chain and, if the save succeeds, to its store.          *)
LEMMA GrowthAppends ==
  ASSUME Typed, StoredChain, NEW n \in Validators, NEW b \in Block, Grows(n, b)
  PROVE  /\ blocks[n] \in Seq(Block) /\ db[n] \in Seq(Block) /\ disk[n] \in Seq(Block)
         /\ \A i \in DOMAIN blocks[n] : blocks[n][i].height < b.height
         /\ \A i \in DOMAIN db[n] : db[n][i].height < b.height
         /\ blocks' = [blocks EXCEPT ![n] = Append(blocks[n], b)]
         /\ \/ /\ db' = [db EXCEPT ![n] = Append(db[n], b)]
               /\ unsaved' = [unsaved EXCEPT ![n] = @ \ {b.height}]
            \/ /\ n \in SaveMayFail /\ db' = db
               /\ unsaved' = [unsaved EXCEPT ![n] = @ \cup {b.height}]
<1>1. \A seq \in Seq(Existing) : seq \in Seq(Block)
  BY ExistingType, SeqMonotonic DEF Typed
<1>2. blocks[n] \in Seq(Block) /\ db[n] \in Seq(Block) /\ disk[n] \in Seq(Block)
  BY <1>1 DEF Typed, TypeOK
<1>3. /\ up[n] /\ b.height = TipOf(n).height + 1 /\ Accept(n, b)
      /\ TipOf(n).height \in Nat
  BY TipType DEF Grows
<1>4. /\ blocks[n] # << >> /\ Increasing(blocks[n])
      /\ \A i \in DOMAIN db[n] : db[n][i].height <= TipOf(n).height
  BY <1>3 DEF StoredChain
<1>5. ASSUME NEW i \in DOMAIN blocks[n]
      PROVE  blocks[n][i].height < b.height
  <2>1. blocks[n][i].height <= TipOf(n).height
    BY <1>2, <1>4, TipIsHighest DEF TipOf
  <2>2. blocks[n][i] \in Block
    BY <1>2, ElementOfSeq, LenProperties
  <2>3. blocks[n][i].height \in Nat
    BY <2>2 DEF Block
  <2> QED BY <1>3, <2>1, <2>3
<1>6. ASSUME NEW i \in DOMAIN db[n]
      PROVE  db[n][i].height < b.height
  <2>1. db[n][i] \in Block
    BY <1>2, ElementOfSeq, LenProperties
  <2>2. db[n][i].height \in Nat
    BY <2>1 DEF Block
  <2> QED BY <1>3, <1>4, <2>2
<1>7. SaveBlock(db[n], b) = Append(db[n], b)
  BY <1>2, <1>6, SaveIsAppend
<1>8. /\ blocks' = [blocks EXCEPT ![n] = Append(blocks[n], b)]
      /\ \/ /\ db' = [db EXCEPT ![n] = Append(db[n], b)]
            /\ unsaved' = [unsaved EXCEPT ![n] = @ \ {b.height}]
         \/ /\ n \in SaveMayFail /\ db' = db
            /\ unsaved' = [unsaved EXCEPT ![n] = @ \cup {b.height}]
  BY <1>3, <1>7 DEF Accept
<1> QED BY <1>2, <1>5, <1>6, <1>8

(* What StoredChain says of one node. *)
StoredAt(n) ==
  /\ Increasing(blocks[n]) /\ Increasing(db[n])
  /\ up[n] => /\ blocks[n] # << >>
              /\ \A i \in DOMAIN db[n] : db[n][i].height <= TipOf(n).height
  /\ IsPrefix(disk[n], db[n])

LEMMA StoredChainStep ==
  ASSUME Typed, StoredChain, [Next]_vars
  PROVE  StoredChain'
<1>1. \A seq \in Seq(Existing) : seq \in Seq(Block)
  BY ExistingType, SeqMonotonic DEF Typed
<1>2. /\ up \in [Validators -> BOOLEAN]
      /\ blocks \in [Validators -> Seq(Block)]
      /\ db \in [Validators -> Seq(Block)]
      /\ disk \in [Validators -> Seq(Block)]
  BY <1>1 DEF Typed, TypeOK
<1>3. \A p \in Validators : StoredAt(p)
  BY DEF StoredChain, StoredAt
<1>4. SUFFICES ASSUME NEW p \in Validators
               PROVE  StoredAt(p)'
  BY DEF StoredChain, StoredAt, TipOf
<1>5. CASE /\ up'[p] = up[p] /\ blocks'[p] = blocks[p]
           /\ db'[p] = db[p] /\ disk'[p] = disk[p]
  BY <1>3, <1>5 DEF StoredAt, TipOf
<1>6. CASE ChainUnchanged
  BY <1>5, <1>6 DEF ChainUnchanged
<1>7. ASSUME NEW n \in Validators, Boot(n)
      PROVE  StoredAt(p)'
  <2>1. CASE p # n
    BY <1>2, <1>5, <1>7, <2>1 DEF Boot
  <2>2. CASE p = n
    <3>1. blocks'[p] = Loaded(p) /\ db'[p] = Loaded(p) /\ disk'[p] = disk[p]
      BY <1>2, <1>7, <2>2 DEF Boot
    <3>2. Loaded(p) \in Seq(Block) /\ Loaded(p) # << >>
      BY <1>2, GenesisType DEF Loaded
    <3>3. Increasing(disk[p])
      BY <1>2, <1>3, PrefixShape DEF StoredAt
    <3>4. Increasing(<<Genesis>>)
      BY DEF Increasing
    <3>5. Increasing(Loaded(p))
      BY <3>3, <3>4 DEF Loaded
    <3>6. IsPrefix(disk[p], Loaded(p))
      <4>1. CASE disk[p] = << >>
        BY <3>2, <4>1, PrefixRefl
      <4>2. CASE disk[p] # << >>
        BY <1>2, <4>2, PrefixRefl DEF Loaded
      <4> QED BY <4>1, <4>2
    <3>7. \A i \in DOMAIN Loaded(p) : Loaded(p)[i].height <= Loaded(p)[Len(Loaded(p))].height
      BY <3>2, <3>5, TipIsHighest
    <3> QED BY <3>1, <3>2, <3>5, <3>6, <3>7 DEF StoredAt, TipOf
  <2> QED BY <2>1, <2>2
<1>8. ASSUME NEW n \in Validators, Crash(n)
      PROVE  StoredAt(p)'
  <2>1. CASE p # n
    BY <1>2, <1>5, <1>8, <2>1 DEF Crash
  <2>2. CASE p = n
    <3>1. ~up'[p] /\ blocks'[p] = << >> /\ db'[p] = disk[p] /\ disk'[p] = disk[p]
      BY <1>2, <1>8, <2>2 DEF Crash
    <3>2. Increasing(disk[p])
      BY <1>2, <1>3, PrefixShape DEF StoredAt
    <3>3. Increasing(<< >>)
      BY DEF Increasing
    <3>4. IsPrefix(disk[p], disk[p])
      BY <1>2, PrefixRefl
    <3> QED BY <3>1, <3>2, <3>3, <3>4 DEF StoredAt
  <2> QED BY <2>1, <2>2
<1>9. ASSUME NEW n \in Validators, Flush(n)
      PROVE  StoredAt(p)'
  <2>1. up' = up /\ blocks' = blocks /\ db' = db /\ disk' = [disk EXCEPT ![n] = db[n]]
    BY <1>9 DEF Flush, chainVars
  <2>2. IsPrefix(db[p], db[p])
    BY <1>2, PrefixRefl
  <2>3. disk'[p] = disk[p] \/ disk'[p] = db[p]
    BY <1>2, <2>1
  <2>4. IsPrefix(disk'[p], db[p])
    BY <1>3, <2>2, <2>3 DEF StoredAt
  <2> QED BY <1>3, <2>1, <2>4 DEF StoredAt, TipOf
<1>10. ASSUME NEW n \in Validators, NEW b \in Block, Grows(n, b)
       PROVE  StoredAt(p)'
  <2>1. /\ up' = up /\ disk' = disk
        /\ blocks' = [blocks EXCEPT ![n] = Append(blocks[n], b)]
        /\ db' = [db EXCEPT ![n] = Append(db[n], b)] \/ db' = db
    BY <1>10, GrowthAppends DEF Grows
  <2>2. CASE p # n
    BY <1>2, <1>5, <2>1, <2>2
  <2>3. CASE p = n
    <3>1. /\ \A i \in DOMAIN blocks[p] : blocks[p][i].height < b.height
          /\ \A i \in DOMAIN db[p] : db[p][i].height < b.height
      BY <1>10, <2>3, GrowthAppends
    <3>2. /\ blocks'[p] = Append(blocks[p], b)
          /\ db'[p] = Append(db[p], b) \/ db'[p] = db[p]
      BY <1>2, <2>1, <2>3
    <3>3. Increasing(blocks'[p]) /\ Increasing(Append(db[p], b))
      BY <1>2, <1>3, <3>1, <3>2, AppendShape DEF StoredAt
    <3>4. Increasing(db'[p])
      BY <1>3, <3>2, <3>3 DEF StoredAt
    <3>5. /\ Len(db[p]) \in Nat /\ DOMAIN db[p] = 1 .. Len(db[p])
          /\ DOMAIN Append(db[p], b) = 1 .. Len(db[p]) + 1
          /\ \A i \in 1 .. Len(db[p]) : Append(db[p], b)[i] = db[p][i]
          /\ Append(db[p], b)[Len(db[p]) + 1] = b
      BY <1>2, LenProperties, AppendProperties
    <3>6. b.height \in Nat
      BY DEF Block
    <3>7. blocks'[p] # << >> /\ TipOf(p)' = b
      <4>1. /\ Append(blocks[p], b) # << >>
            /\ Append(blocks[p], b)[Len(Append(blocks[p], b))] = b
        BY <1>2, AppendProperties
      <4> QED BY <3>2, <4>1 DEF TipOf
    <3>8. \A i \in DOMAIN db'[p] : db'[p][i].height <= b.height
      <4>1. \A i \in DOMAIN db[p] : db[p][i].height <= b.height
        <5> TAKE i \in DOMAIN db[p]
        <5>1. db[p][i] \in Block
          BY <1>2, <3>5, ElementOfSeq
        <5>2. db[p][i].height \in Nat
          BY <5>1 DEF Block
        <5> QED BY <3>1, <3>6, <5>2
      <4>2. CASE db'[p] = db[p]
        BY <4>1, <4>2
      <4>3. CASE db'[p] = Append(db[p], b)
        <5> DEFINE longer == Append(db[p], b)
        <5>1. DOMAIN longer = 1 .. Len(db[p]) + 1 /\ db'[p] = longer
          BY <3>5, <4>3
        <5>2. \A i \in 1 .. Len(db[p]) : longer[i].height <= b.height
          BY <3>5, <4>1
        <5>3. longer[Len(db[p]) + 1].height <= b.height
          BY <3>5, <3>6
        <5> HIDE DEF longer
        <5> QED BY <3>5, <5>1, <5>2, <5>3
      <4> QED BY <3>2, <4>2, <4>3
    <3>9. IsPrefix(disk'[p], db'[p])
      <4>1. IsPrefix(disk[p], db[p])
        BY <1>3 DEF StoredAt
      <4>2. IsPrefix(disk[p], Append(db[p], b))
        BY <1>2, <4>1, PrefixOfAppend
      <4> QED BY <2>1, <3>2, <4>1, <4>2
    <3> QED BY <3>3, <3>4, <3>7, <3>8, <3>9, <3>2 DEF StoredAt
  <2> QED BY <2>2, <2>3
<1> QED BY <1>6, <1>7, <1>8, <1>9, <1>10, ChainSteps

(* Heights increase along chains and stores, nothing stored is above the   *)
(* tip, and what survives a crash is a prefix of what was stored, whatever *)
(* saves fail.                                                             *)
THEOREM StoresAreOrdered == Spec => []StoredChain
<1>1. Init => Typed /\ StoredChain
  BY TypedInit, StoredChainInit
<1>2. (Typed /\ StoredChain) /\ [Next]_vars => (Typed /\ StoredChain)'
  BY TypedStep, StoredChainStep
<1> QED BY <1>1, <1>2, PTL DEF Spec

-----------------------------------------------------------------------------
(* ChainIsWhole *)

(* Nothing is missing below a block of the store, but where saves failed.  *)
Gapless(store, failed) ==
  \A i \in DOMAIN store : \A k \in 0 .. store[i].height :
    k \in failed \/ \E j \in DOMAIN store : store[j].height = k

(* What a crash leaves of a gapless store is gapless: the blocks it lost   *)
(* are above those that are left.                                          *)
LEMMA PrefixGapless ==
  ASSUME NEW p \in Seq(Block), NEW s \in Seq(Block), IsPrefix(p, s), NEW failed,
         Increasing(s), Gapless(s, failed)
  PROVE  Gapless(p, failed)
<1>1. /\ Len(p) \in Nat /\ Len(s) \in Nat
      /\ DOMAIN p = 1 .. Len(p) /\ DOMAIN s = 1 .. Len(s)
  BY LenProperties
<1>2. Len(p) <= Len(s) /\ \A i \in 1 .. Len(p) : p[i] = s[i]
  BY PrefixElements
<1>3. ASSUME NEW i \in DOMAIN p, NEW k \in 0 .. p[i].height, k \notin failed
      PROVE  \E j \in DOMAIN p : p[j].height = k
  <2>1. i \in DOMAIN s /\ p[i] = s[i]
    BY <1>1, <1>2
  <2>2. PICK j \in DOMAIN s : s[j].height = k
    BY <1>3, <2>1 DEF Gapless
  <2>3. s[i] \in Block
    BY <1>1, <2>1, ElementOfSeq
  <2>4. s[i].height \in Nat /\ k \in Nat /\ k <= s[i].height
    BY <2>1, <2>3 DEF Block
  <2>5. ~(i < j)
    BY <2>1, <2>2, <2>4 DEF Increasing
  <2>6. j \in DOMAIN p
    BY <1>1, <2>2, <2>5
  <2> QED BY <1>1, <1>2, <2>2, <2>6
<1> QED BY <1>3 DEF Gapless

(* Inductive form: the store is gapless up to the tip of a running node,   *)
(* and while the node is down, and holds blocks of the chain only (all of  *)
(* them where no save fails); a node that is down has no chain.            *)
Whole(n) ==
  /\ Gapless(db[n], unsaved[n])
  /\ IF up[n]
     THEN /\ \A k \in 0 .. TipOf(n).height :
               k \in unsaved[n] \/ \E i \in DOMAIN db[n] : db[n][i].height = k
          /\ \A i \in DOMAIN db[n] : \E j \in DOMAIN blocks[n] : db[n][i] = blocks[n][j]
          /\ n \notin SaveMayFail => db[n] = blocks[n]
     ELSE blocks[n] = << >>

EveryNodeWhole == \A n \in Validators : Whole(n)

LEMMA WholeInit == Init => EveryNodeWhole
BY DEF Init, EveryNodeWhole, Whole, Gapless

LEMMA WholeImplies == EveryNodeWhole => ChainIsWhole
BY DEF EveryNodeWhole, Whole, ChainIsWhole, Holds, Elements

LEMMA WholeStep ==
  ASSUME Typed, StoredChain, EveryNodeWhole, [Next]_vars
  PROVE  EveryNodeWhole'
<1>1. \A seq \in Seq(Existing) : seq \in Seq(Block)
  BY ExistingType, SeqMonotonic DEF Typed
<1>2. /\ up \in [Validators -> BOOLEAN]
      /\ blocks \in [Validators -> Seq(Block)]
      /\ db \in [Validators -> Seq(Block)]
      /\ disk \in [Validators -> Seq(Block)]
      /\ unsaved \in [Validators -> SUBSET Nat]
  BY <1>1 DEF Typed, TypeOK
<1>3. \A p \in Validators : Whole(p)
  BY DEF EveryNodeWhole
<1>4. SUFFICES ASSUME NEW p \in Validators
               PROVE  Whole(p)'
  BY DEF EveryNodeWhole
<1>5. CASE up'[p] = up[p] /\ blocks'[p] = blocks[p] /\ db'[p] = db[p] /\ unsaved'[p] = unsaved[p]
  BY <1>3, <1>5 DEF Whole, TipOf
<1>6. Gapless(disk[p], unsaved[p])
  <2>1. Gapless(db[p], unsaved[p]) /\ Increasing(db[p]) /\ IsPrefix(disk[p], db[p])
    BY <1>3 DEF StoredChain, Whole
  <2> QED BY <1>2, <2>1, PrefixGapless
<1>7. ASSUME NEW n \in Validators, Boot(n)
      PROVE  Whole(p)'
  <2>1. CASE p # n
    BY <1>2, <1>5, <1>7, <2>1 DEF Boot
  <2>2. CASE p = n
    <3>1. /\ up'[p] /\ blocks'[p] = Loaded(p) /\ db'[p] = Loaded(p)
          /\ unsaved'[p] = unsaved[p]
      BY <1>2, <1>7, <2>2 DEF Boot
    <3>2. Gapless(<<Genesis>>, unsaved[p])
      <4> DEFINE one == <<Genesis>>
      <4>1. DOMAIN one = {1} /\ one[1].height = 0
        BY DEF Genesis
      <4> HIDE DEF one
      <4>2. Gapless(one, unsaved[p])
        BY <4>1 DEF Gapless
      <4> QED BY <4>2 DEF one
    <3>3. Gapless(Loaded(p), unsaved[p])
      BY <1>6, <3>2 DEF Loaded
    <3>4. Loaded(p) \in Seq(Block) /\ Loaded(p) # << >>
      BY <1>2, GenesisType DEF Loaded
    <3>5. Len(Loaded(p)) \in DOMAIN Loaded(p)
      BY <3>4, LenProperties, EmptySeq
    <3>6. TipOf(p)' = Loaded(p)[Len(Loaded(p))]
      BY <3>1 DEF TipOf
    <3>7. \A k \in 0 .. TipOf(p)'.height :
            k \in unsaved[p] \/ \E i \in DOMAIN Loaded(p) : Loaded(p)[i].height = k
      BY <3>3, <3>5, <3>6 DEF Gapless
    <3> QED BY <3>1, <3>3, <3>7 DEF Whole
  <2> QED BY <2>1, <2>2
<1>8. ASSUME NEW n \in Validators, Crash(n)
      PROVE  Whole(p)'
  <2>1. CASE p # n
    BY <1>2, <1>5, <1>8, <2>1 DEF Crash
  <2>2. CASE p = n
    <3>1. ~up'[p] /\ blocks'[p] = << >> /\ db'[p] = disk[p] /\ unsaved'[p] = unsaved[p]
      BY <1>2, <1>8, <2>2 DEF Crash
    <3> QED BY <1>6, <3>1 DEF Whole
  <2> QED BY <2>1, <2>2
<1>9. ASSUME NEW n \in Validators, NEW b \in Block, Grows(n, b)
      PROVE  Whole(p)'
  <2>1. /\ up' = up
        /\ blocks' = [blocks EXCEPT ![n] = Append(blocks[n], b)]
        /\ \/ /\ db' = [db EXCEPT ![n] = Append(db[n], b)]
              /\ unsaved' = [unsaved EXCEPT ![n] = @ \ {b.height}]
           \/ /\ n \in SaveMayFail /\ db' = db
              /\ unsaved' = [unsaved EXCEPT ![n] = @ \cup {b.height}]
    BY <1>9, GrowthAppends DEF Grows
  <2>2. CASE p # n
    BY <1>2, <1>5, <2>1, <2>2
  <2>3. CASE p = n
    <3>1. /\ up[p] /\ b.height = TipOf(p).height + 1
          /\ TipOf(p).height \in Nat
          /\ \A i \in DOMAIN db[p] : db[p][i].height < b.height
      BY <1>9, <2>3, GrowthAppends, TipType DEF Grows
    <3>2. /\ \A k \in 0 .. TipOf(p).height :
               k \in unsaved[p] \/ \E i \in DOMAIN db[p] : db[p][i].height = k
          /\ \A i \in DOMAIN db[p] : \E j \in DOMAIN blocks[p] : db[p][i] = blocks[p][j]
          /\ p \notin SaveMayFail => db[p] = blocks[p]
      BY <1>3, <3>1 DEF Whole
    <3> DEFINE chain == Append(blocks[p], b)
               store == Append(db[p], b)
    <3>3. /\ Len(db[p]) \in Nat /\ DOMAIN db[p] = 1 .. Len(db[p])
          /\ DOMAIN store = 1 .. Len(db[p]) + 1
          /\ \A i \in DOMAIN db[p] : store[i] = db[p][i]
          /\ store[Len(db[p]) + 1] = b
      BY <1>2, LenProperties, AppendProperties
    <3>4. /\ Len(blocks[p]) \in Nat /\ DOMAIN blocks[p] = 1 .. Len(blocks[p])
          /\ DOMAIN chain = 1 .. Len(blocks[p]) + 1
          /\ \A i \in DOMAIN blocks[p] : chain[i] = blocks[p][i]
          /\ chain[Len(blocks[p]) + 1] = b
      BY <1>2, LenProperties, AppendProperties
    <3>5. blocks'[p] = chain /\ up'[p]
      BY <1>2, <2>1, <2>3, <3>1
    <3>6. TipOf(p)' = b
      <4>1. Len(chain) = Len(blocks[p]) + 1
        BY <1>2, AppendProperties
      <4> QED BY <3>4, <3>5, <4>1 DEF TipOf
    <3>7. \/ db'[p] = store /\ unsaved'[p] = unsaved[p] \ {b.height}
          \/ p \in SaveMayFail /\ db'[p] = db[p] /\ unsaved'[p] = unsaved[p] \cup {b.height}
      BY <1>2, <2>1, <2>3
    <3> HIDE DEF chain, store
    <3>8. \A k \in 0 .. b.height :
            k \in unsaved'[p] \/ \E i \in DOMAIN db'[p] : db'[p][i].height = k
      <4> TAKE k \in 0 .. b.height
      <4>1. CASE k = b.height
        BY <3>3, <3>7, <4>1
      <4>2. CASE k # b.height
        <5>1. k \in 0 .. TipOf(p).height
          BY <3>1, <4>2
        <5>2. k \in unsaved[p] \/ \E i \in DOMAIN db[p] : db[p][i].height = k
          BY <3>2, <5>1
        <5>3. \A i \in DOMAIN db[p] : i \in DOMAIN db'[p] /\ db'[p][i] = db[p][i]
          BY <3>3, <3>7
        <5> QED BY <3>7, <4>2, <5>2, <5>3
      <4> QED BY <4>1, <4>2
    <3>9. \A i \in DOMAIN db'[p] :
            /\ 0 .. db'[p][i].height \subseteq 0 .. b.height
            /\ \E j \in DOMAIN chain : db'[p][i] = chain[j]
      <4> TAKE i \in DOMAIN db'[p]
      <4>1. CASE i \in DOMAIN db[p]
        <5>1. db'[p][i] = db[p][i]
          BY <3>3, <3>7, <4>1
        <5>2. db[p][i] \in Block
          BY <1>2, <3>3, <4>1, ElementOfSeq
        <5>3. db[p][i].height \in Nat /\ db[p][i].height < b.height
          BY <3>1, <4>1, <5>2 DEF Block
        <5>4. PICK j \in DOMAIN blocks[p] : db[p][i] = blocks[p][j]
          BY <3>2, <4>1
        <5>5. j \in DOMAIN chain /\ chain[j] = blocks[p][j]
          BY <3>4, <5>4
        <5> QED BY <3>1, <5>1, <5>3, <5>4, <5>5
      <4>2. CASE i \notin DOMAIN db[p]
        <5>1. i = Len(db[p]) + 1 /\ db'[p] = store
          BY <3>3, <3>7, <4>2
        <5>2. db'[p][i] = b
          BY <3>3, <5>1
        <5>3. Len(blocks[p]) + 1 \in DOMAIN chain
          BY <3>4
        <5> QED BY <3>4, <5>2, <5>3
      <4> QED BY <4>1, <4>2
    <3>10. p \notin SaveMayFail => db'[p] = chain
      BY <3>2, <3>7 DEF chain, store
    <3>11. Gapless(db'[p], unsaved'[p])
      BY <3>8, <3>9 DEF Gapless
    <3> QED BY <3>5, <3>6, <3>8, <3>9, <3>10, <3>11 DEF Whole
  <2> QED BY <2>2, <2>3
<1>10. CASE ChainUnchanged
  BY <1>5, <1>10 DEF ChainUnchanged
<1>11. ASSUME NEW n \in Validators, Flush(n)
       PROVE  Whole(p)'
  BY <1>5, <1>11 DEF Flush, chainVars
<1> QED BY <1>7, <1>8, <1>9, <1>10, <1>11, ChainSteps

(* A chain misses only the heights at which a save failed, and the store   *)
(* holds the same blocks.                                                  *)
THEOREM ChainsAreWhole == Spec => []ChainIsWhole
<1>1. Init => Typed /\ StoredChain /\ EveryNodeWhole
  BY TypedInit, StoredChainInit, WholeInit
<1>2. (Typed /\ StoredChain /\ EveryNodeWhole) /\ [Next]_vars
        => (Typed /\ StoredChain /\ EveryNodeWhole)'
  BY TypedStep, StoredChainStep, WholeStep
<1>3. EveryNodeWhole => ChainIsWhole
  BY WholeImplies
<1> QED BY <1>1, <1>2, <1>3, PTL DEF Spec

-----------------------------------------------------------------------------
(* Implementation of ChainLog *)

LEMMA LogInit == Init => Log!Init
BY DEF Init, Log!Init

LEMMA LogStep ==
  ASSUME Typed, StoredChain, EveryNodeWhole, [Next]_vars
  PROVE  [Log!Next]_<<minted, blocks, disk>>
<1>1. ASSUME NEW n \in Validators, Boot(n)
      PROVE  Log!Recover(n)
  <2>1. blocks[n] = << >>
    BY <1>1 DEF Boot, EveryNodeWhole, Whole
  <2> QED BY <1>1, <2>1 DEF Boot, Loaded, Log!Recover
<1>2. ASSUME NEW n \in Validators, Crash(n)
      PROVE  Log!Fail(n)
  BY <1>2 DEF Crash, Log!Fail
<1>3. ASSUME NEW n \in Validators, Flush(n)
      PROVE  Log!Stabilise(n)
  <2>1. Whole(n) /\ up[n] /\ Increasing(db[n]) /\ IsPrefix(disk[n], db[n])
    BY <1>3 DEF Flush, EveryNodeWhole, StoredChain
  <2>2. disk' = [disk EXCEPT ![n] = db[n]] /\ minted' = minted /\ blocks' = blocks
    BY <1>3 DEF Flush, chainVars
  <2>3. disk \in [Validators -> Seq(Existing)]
    BY DEF Typed, TypeOK
  <2>4. disk'[n] = db[n] /\ disk' = [disk EXCEPT ![n] = disk'[n]]
    BY <2>2, <2>3
  <2>5. Log!PartOfLog(n, disk'[n])
    BY <2>1, <2>4 DEF Whole, Increasing, Log!PartOfLog
  <2>6. IsPrefix(disk[n], disk'[n])
    BY <2>1, <2>4
  <2>7. disk'[n] # disk[n]
    BY <1>3, <2>4 DEF Flush
  <2> QED BY <2>2, <2>4, <2>5, <2>6, <2>7 DEF Log!Stabilise, Log!IsPrefix, IsPrefix
<1>4. ASSUME NEW n \in Validators, NEW b \in Block, Grows(n, b)
      PROVE  Log!Extend(n)
  <2>1. blocks' = [blocks EXCEPT ![n] = Append(blocks[n], b)]
    BY <1>4, GrowthAppends
  <2>2. blocks[n] # << >>
    BY <1>4 DEF Grows, Typed, HasChain
  <2>3. /\ b \in minted' /\ minted' = minted \cup {b} /\ disk' = disk
        /\ b.height = blocks[n][Len(blocks[n])].height + 1
    BY <1>4 DEF Grows, TipOf
  <2> QED BY <2>1, <2>2, <2>3 DEF Log!Extend
<1>5. CASE ChainUnchanged
  BY <1>5 DEF ChainUnchanged
<1> QED BY <1>1, <1>2, <1>3, <1>4, <1>5, ChainSteps DEF Log!Next

(* A network of nodes implements ChainLog: the chains are the logs and the *)
(* disks their stable parts.                                               *)
THEOREM NodesImplementLog == Spec => ImplementsLog
<1>1. Init => Typed /\ StoredChain /\ EveryNodeWhole
  BY TypedInit, StoredChainInit, WholeInit
<1>2. (Typed /\ StoredChain /\ EveryNodeWhole) /\ [Next]_vars
        => (Typed /\ StoredChain /\ EveryNodeWhole)'
  BY TypedStep, StoredChainStep, WholeStep
<1>3. (Typed /\ StoredChain /\ EveryNodeWhole) /\ [Next]_vars
        => [Log!Next]_<<minted, blocks, disk>>
  BY LogStep
<1>4. Init => Log!Init
  BY LogInit
<1> QED BY <1>1, <1>2, <1>3, <1>4, PTL DEF Spec, ImplementsLog, Log!Spec, Log!vars

-----------------------------------------------------------------------------
(* The world state of a node                                               *)

(***************************************************************************)
(* StateInv: StateMatchesChain, of nodes that are down too: the chain and  *)
(* the accounts of such a node are both empty.                             *)
(***************************************************************************)
StateInv == ws = [n \in Validators |-> Replay(blocks[n])]

LEMMA StateInit == Init => StateInv
BY ReplayEmpty DEF Init, StateInv

(* Whatever enters or reloads a chain, the accounts follow: apply_block is *)
(* called for every block that is pushed, and a start replays them all.    *)
LEMMA StateStep ==
  ASSUME Typed, StateInv, [Next]_vars
  PROVE  StateInv'
<1>1. ASSUME NEW n \in Validators, Boot(n)
      PROVE  StateInv'
  <2>1. /\ blocks' = [blocks EXCEPT ![n] = Loaded(n)]
        /\ ws' = [ws EXCEPT ![n] = Replay(Loaded(n))]
    BY <1>1 DEF Boot
  <2>2. blocks \in [Validators -> Seq(Existing)]  BY DEF Typed, TypeOK
  <2> QED BY <2>1, <2>2 DEF StateInv
<1>2. ASSUME NEW n \in Validators, Crash(n)
      PROVE  StateInv'
  <2>1. blocks' = [blocks EXCEPT ![n] = << >>] /\ ws' = [ws EXCEPT ![n] = NewWorldState]
    BY <1>2 DEF Crash
  <2>2. blocks \in [Validators -> Seq(Existing)]  BY DEF Typed, TypeOK
  <2> QED BY <2>1, <2>2, ReplayEmpty DEF StateInv
<1>3. ASSUME NEW n \in Validators, NEW b \in Block, Grows(n, b)
      PROVE  StateInv'
  <2>1. /\ blocks' = [blocks EXCEPT ![n] = Append(blocks[n], b)]
        /\ ws' = [ws EXCEPT ![n] = ApplyBlock(ws[n], b)]
    BY <1>3 DEF Grows, Accept
  <2>2. blocks \in [Validators -> Seq(Existing)]  BY DEF Typed, TypeOK
  <2>3. blocks[n] \in Seq(Block)
    BY <2>2, ExistingType, SeqMonotonic DEF Typed
  <2>4. ApplyBlock(ws[n], b) = Replay(Append(blocks[n], b))
    BY <2>3, ReplayAppend DEF StateInv
  <2> QED BY <2>1, <2>2, <2>4 DEF StateInv
<1>4. CASE ChainUnchanged
  BY <1>4 DEF ChainUnchanged, StateInv
<1>5. ASSUME NEW n \in Validators, Flush(n)
      PROVE  StateInv'
  BY <1>5 DEF Flush, chainVars, StateInv
<1> QED BY <1>1, <1>2, <1>3, <1>4, <1>5, ChainSteps

LEMMA StateInvariant == Spec => [](Typed /\ StateInv)
<1>1. Init => Typed /\ StateInv
  BY TypedInit, StateInit
<1>2. (Typed /\ StateInv) /\ [Next]_vars => (Typed /\ StateInv)'
  BY TypedStep, StateStep
<1> QED BY <1>1, <1>2, PTL DEF Spec

(***************************************************************************)
(* StatesReplayable: for any blocks, crashes, failed saves and messages,   *)
(* the balances and nonces a running node answers with are those a replay  *)
(* of its chain gives: what main.rs computes at the next start.            *)
(***************************************************************************)
THEOREM StatesReplayable == Spec => []StateMatchesChain
<1>1. StateInv => StateMatchesChain  BY DEF StateInv, StateMatchesChain
<1> QED BY <1>1, StateInvariant, PTL

(* The blocks of a chain are lists of payable transactions.                *)
LEMMA ChainType ==
  ASSUME Typed, NEW n \in Validators
  PROVE  /\ Len(blocks[n]) \in Nat /\ DOMAIN blocks[n] = 1 .. Len(blocks[n])
         /\ \A i \in 1 .. Len(blocks[n]) :
              /\ Len(blocks[n][i].txs) \in Nat
              /\ DOMAIN blocks[n][i].txs = 1 .. Len(blocks[n][i].txs)
              /\ \A k \in 1 .. Len(blocks[n][i].txs) : Payable(blocks[n][i].txs[k])
<1>1. blocks[n] \in Seq(Block)
  BY ExistingType, SeqMonotonic DEF Typed, TypeOK
<1>2. /\ Len(blocks[n]) \in Nat /\ DOMAIN blocks[n] = 1 .. Len(blocks[n])
      /\ \A i \in 1 .. Len(blocks[n]) : blocks[n][i] \in Block
  BY <1>1, LenProperties, ElementOfSeq
<1>3. ASSUME NEW i \in 1 .. Len(blocks[n])
      PROVE  /\ Len(blocks[n][i].txs) \in Nat
             /\ DOMAIN blocks[n][i].txs = 1 .. Len(blocks[n][i].txs)
             /\ \A k \in 1 .. Len(blocks[n][i].txs) : Payable(blocks[n][i].txs[k])
  <2>1. blocks[n][i].txs \in Seq(Tx)  BY <1>2 DEF Block
  <2>2. \A k \in 1 .. Len(blocks[n][i].txs) : blocks[n][i].txs[k] \in Tx
    BY <2>1, ElementOfSeq
  <2> QED BY <2>1, <2>2, LenProperties, WorldStateAssumption DEF Payable
<1> QED BY <1>2, <1>3

(***************************************************************************)
(* NoOverdraft: in a network of any size, whatever blocks peers send and   *)
(* whatever of them is reloaded, the accounts of every node stay well      *)
(* formed: apply_block's unchecked subtraction never takes a balance below *)
(* zero on any node.                                                       *)
(***************************************************************************)
THEOREM NoOverdraft == Spec => [](\A n \in Validators : ws[n] \in WorldStates)
<1>1. (Typed /\ StateInv) => \A n \in Validators : ws[n] \in WorldStates
  BY ChainType, ReplayType DEF StateInv
<1> QED BY <1>1, StateInvariant, PTL

(* The balances of a node whose chain has no transaction that wraps.       *)
SupplyHolds ==
  \A n \in Validators :
    (\A i \in DOMAIN blocks[n] : NoneWraps(blocks[n][i].txs)) => Supply(ws[n]) <= TOTAL_SUPPLY

(***************************************************************************)
(* NetworkMintsNothing: as long as no transaction in a node's chain has an *)
(* amount + fee that wraps around u64, the node's balances add up to no    *)
(* more than TOTAL_SUPPLY: no order of blocks, resent, repeated, lost or   *)
(* reloaded, makes a node apply genesis twice or credit what it did not    *)
(* debit.                                                                  *)
(***************************************************************************)
THEOREM NetworkMintsNothing == Spec => []SupplyHolds
<1>1. ASSUME Typed, StateInv, NEW n \in Validators,
             \A i \in DOMAIN blocks[n] : NoneWraps(blocks[n][i].txs)
      PROVE  Supply(ws[n]) <= TOTAL_SUPPLY
  <2>1. Replay(blocks[n]) \in WorldStates /\ Backed(Replay(blocks[n]))
    BY <1>1, ChainType, ReplayBacked
  <2>2. ws[n] \in WorldStates /\ Backed(ws[n])  BY <1>1, <2>1 DEF StateInv
  <2>3. Supply(ws[n]) \in Nat  BY <2>2, SupplyType
  <2>4. TOTAL_SUPPLY \in Nat  BY WorldStateAssumption DEF TOTAL_SUPPLY
  <2> QED BY <2>2, <2>3, <2>4 DEF Backed
<1>2. (Typed /\ StateInv) => SupplyHolds
  BY <1>1 DEF SupplyHolds
<1> QED BY <1>2, StateInvariant, PTL
=============================================================================
