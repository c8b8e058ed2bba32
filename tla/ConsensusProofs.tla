--------------------------- MODULE ConsensusProofs ---------------------------
(***************************************************************************)
(* Theorems about Consensus and the BlockProducer under it, for every      *)
(* number of chains and validators, every slot length, every number of     *)
(* attempts and every bound on the clock: the chains of timers, what       *)
(* attestations are for, what a supermajority is worth, and what the       *)
(* rewards of a block can come to.                                         *)
(***************************************************************************)
EXTENDS Consensus, CountingUp, FiniteSets, FiniteSetTheorems,
        SequenceTheorems, TLAPS

-----------------------------------------------------------------------------
(* Division by the length of a slot *)

\* A time that is at least k slots after genesis is in slot k or later.
LEMMA AtLeast ==
    ASSUME NEW t \in Nat, NEW k \in Int, NEW d \in Nat \ {0}, t >= k * d
    PROVE  t \div d >= k
<1>1. t < (t \div d + 1) * d /\ t \div d \in Int
    BY SMT
<1>2. k * d < (t \div d + 1) * d
    BY <1>1, SMT
<1>3. k < t \div d + 1
    BY <1>1, <1>2, SMT
<1>4. QED
    BY <1>1, <1>3

\* Slots are numbered from 0 and do not decrease.
LEMMA SlotsGrow ==
    ASSUME NEW t \in Nat, NEW u \in Nat, NEW d \in Nat \ {0}, t <= u
    PROVE  /\ t \div d \in Nat
           /\ t \div d <= u \div d
<1>1. (t \div d) * d <= t /\ t \div d \in Nat
    BY SMT
<1>2. u >= (t \div d) * d
    BY <1>1, SMT
<1>3. QED
    BY <1>1, <1>2, AtLeast

-----------------------------------------------------------------------------
(* The inductive invariant *)

Armed(l) == loop[l].step # "free"

\* The genesis time is that of the genesis block, which is not of the future,
\* and no chain runs before it is known.
GenesisKnown ==
    /\ genesisBlock # None => genesisBlock <= now
    /\ genesisTime # None => genesisTime = genesisBlock
    /\ \A l \in Loop : Armed(l) => genesisTime # None

\* Until the first stop there is at most one chain, and only in a producer
\* that says it runs.
OneChain ==
    ~wasStopped =>
        /\ \A l \in Loop : Armed(l) => isRunning
        /\ \A l, k \in Loop : Armed(l) /\ Armed(k) => l = k

\* The last block was begun in a slot of the past or in this one, and a timer
\* that is armed is for a later slot than the last block's.
SlotIsLater ==
    /\ lastSlot >= 0 => genesisTime # None
    /\ genesisTime # None => lastSlot <= CurrentSlot
    /\ ~wasStopped =>
          \A l \in Loop : loop[l].step = "waiting" =>
              \E k \in Nat : /\ k > lastSlot
                             /\ loop[l].due = genesisTime + k * SlotLength

ProducerInv ==
    /\ TypeOK
    /\ RunningIsAlive
    /\ ContextIsItsOwnUntilStopped
    /\ GenesisKnown
    /\ OneChain
    /\ SlotIsLater

\* A time that is not before genesis is in a slot, and the next slot begins at
\* a time.
LEMMA SlotNumber ==
    ASSUME NEW t \in Nat, NEW g \in Nat, g <= t
    PROVE  /\ t - g \in Nat
           /\ (t - g) \div SlotLength \in Nat
           /\ g + ((t - g) \div SlotLength + 1) * SlotLength \in Nat
<1>1. SlotLength \in Nat \ {0}
    BY BlockProducerAssumption
<1>2. t - g \in Nat
    BY SMT
<1>3. (t - g) \div SlotLength \in Nat
    BY <1>1, <1>2, SlotsGrow
<1>4. g + ((t - g) \div SlotLength + 1) * SlotLength \in Nat
    BY <1>1, <1>3, SMT
<1>5. QED
    BY <1>2, <1>3, <1>4

\* So it is for the node's clock and its genesis time.
LEMMA SlotType ==
    ASSUME TypeOK, GenesisKnown, genesisTime # None
    PROVE  /\ now \in Nat /\ genesisTime \in Nat /\ genesisTime <= now
           /\ CurrentSlot \in Nat
<1>1. now \in Nat /\ genesisTime \in Nat /\ genesisTime <= now
    BY DEF TypeOK, Times, GenesisKnown
<1>2. QED
    BY <1>1, SlotNumber DEF CurrentSlot

\* All of it holds when the node starts.
LEMMA ProducerInit == Init => ProducerInv
<1> SUFFICES ASSUME Init
             PROVE  ProducerInv
    OBVIOUS
<1> USE DEF Init
<1>1. TypeOK
  <2>1. now \in Nat /\ attempts \in 0..MaxAttempts /\ lastSlot \in Nat \cup {-1}
    BY BlockProducerAssumption, SMT
  <2>2. {genesisBlock, genesisTime} \subseteq Times
    BY DEF Times
  <2>3. boot \in {"waiting", "done", "failed"}
    BY Zenon
  <2>4. isRunning \in BOOLEAN /\ wasStopped \in BOOLEAN
    BY Zenon
  <2>5. {currentTimeout, journalOf} \subseteq Loop \cup {None}
    BY Zenon
  <2>6. loop \in [Loop -> [step : Producing \cup {"free", "waiting"},
                           due : Nat]]
    BY DEF NoLoop
  <2>7. QED
    BY <2>1, <2>2, <2>3, <2>4, <2>5, <2>6 DEF TypeOK
<1>2. \A l \in Loop : ~Armed(l)
    BY DEF Armed, NoLoop
<1>3. RunningIsAlive /\ ContextIsItsOwnUntilStopped
    BY DEF RunningIsAlive, ContextIsItsOwnUntilStopped, ContextIsItsOwn, NoLoop
<1>4. GenesisKnown /\ OneChain
  <2>1. genesisBlock # None => genesisBlock <= now
    OBVIOUS
  <2>2. QED
    BY <1>2, <2>1 DEF GenesisKnown, OneChain
<1>5. SlotIsLater
  <2>1. ~(lastSlot >= 0)
    BY SMT
  <2>2. \A l \in Loop : loop[l].step # "waiting"
    BY DEF NoLoop
  <2>3. QED
    BY <2>1, <2>2 DEF SlotIsLater
<1>6. QED
    BY <1>1, <1>3, <1>4, <1>5 DEF ProducerInv


-----------------------------------------------------------------------------
(* The conjuncts of the invariant, one at a time, under the steps that arm or *)
(* clear a timer                                                              *)

ChainType == [step : Producing \cup {"free", "waiting"}, due : Nat]

\* start() puts at most one chain, that was free, before its next slot.
LEMMA StartChanges ==
    ASSUME ProducerInv, Start(genesisTime'),
           genesisTime' # None => Scheduled(genesisTime') \in ChainType
    PROVE  \/ UNCHANGED <<isRunning, currentTimeout, loop>>
           \/ /\ ~isRunning /\ isRunning' /\ genesisTime' # None
              /\ isRunning' \in BOOLEAN
              /\ currentTimeout' \in Loop
              /\ loop' \in [Loop -> ChainType]
              /\ \E l \in Loop :
                    /\ loop[l].step = "free"
                    /\ loop'[l] = Scheduled(genesisTime')
                    /\ \A k \in Loop \ {l} : loop'[k] = loop[k]
<1>1. CASE isRunning \/ genesisTime' = None
    BY <1>1 DEF Start
<1>2. CASE ~isRunning /\ genesisTime' # None
  <2>1. PICK l \in Loop :
            /\ loop[l].step = "free"
            /\ isRunning' = TRUE
            /\ loop' = [loop EXCEPT ![l] = Scheduled(genesisTime')]
            /\ currentTimeout' = l
    BY <1>2 DEF Start
  <2>2. loop \in [Loop -> ChainType]
    BY DEF ProducerInv, TypeOK, ChainType
  <2>3. QED
    BY <1>2, <2>1, <2>2
<1>3. QED
    BY <1>1, <1>2

\* Arming a chain that was free, in a producer that was not running, keeps the
\* invariant.
LEMMA ArmingStep ==
    ASSUME ProducerInv, TypeOK', GenesisKnown',
           NEW l \in Loop,
           ~isRunning, isRunning', genesisTime' # None,
           loop[l].step = "free",
           loop'[l] = [step |-> "waiting",
                       due |-> genesisTime' + (CurrentSlot' + 1) * SlotLength],
           \A k \in Loop \ {l} : loop'[k] = loop[k],
           UNCHANGED <<now, journalOf, lastSlot, wasStopped>>,
           genesisTime # None => genesisTime' = genesisTime
    PROVE  ProducerInv'
<1>1. RunningIsAlive'
    BY DEF RunningIsAlive
<1>2. ~wasStopped => \A k \in Loop : loop[k].step = "free"
    BY DEF ProducerInv, OneChain, Armed
<1>3. ContextIsItsOwnUntilStopped'
  <2>1. ~wasStopped => \A k \in Loop : loop'[k].step \in {"free", "waiting"}
    BY <1>2
  <2>2. QED
    BY <2>1 DEF ContextIsItsOwnUntilStopped, ContextIsItsOwn
<1>4. OneChain'
    BY <1>2 DEF OneChain, Armed
<1>5. /\ now' \in Nat /\ genesisTime' \in Nat /\ genesisTime' <= now'
      /\ lastSlot' \in Nat \cup {-1}
    BY DEF TypeOK, Times, GenesisKnown
<1>6. CurrentSlot' \in Nat
    BY <1>5, SlotNumber DEF CurrentSlot
<1>7. lastSlot' <= CurrentSlot'
  <2>1. CASE genesisTime = None
    <3>1. ~(lastSlot' >= 0)
      BY <2>1 DEF ProducerInv, SlotIsLater
    <3>2. QED
      BY <1>5, <1>6, <3>1
  <2>2. CASE genesisTime # None
    <3>1. CurrentSlot' = CurrentSlot
      BY <2>2 DEF CurrentSlot
    <3>2. QED
      BY <2>2, <3>1 DEF ProducerInv, SlotIsLater
  <2>3. QED
    BY <2>1, <2>2
<1>8. SlotIsLater'
  <2>1. CurrentSlot' + 1 \in Nat /\ CurrentSlot' + 1 > lastSlot'
    <3> DEFINE s == CurrentSlot'
               last == lastSlot'
    <3>1. s \in Nat /\ last \in Int /\ last <= s
      BY <1>5, <1>6, <1>7
    <3> HIDE DEF s, last
    <3>2. s + 1 \in Nat /\ s + 1 > last
      BY <3>1, SMT
    <3>3. QED
      BY <3>2 DEF s, last
  <2>2. ~wasStopped => \A k \in Loop : loop'[k].step = "waiting" => k = l
    BY <1>2
  <2>3. ASSUME ~wasStopped', NEW k \in Loop, loop'[k].step = "waiting"
        PROVE  \E n \in Nat : /\ n > lastSlot'
                              /\ loop'[k].due = genesisTime' + n * SlotLength
    BY <2>1, <2>2, <2>3
  <2>4. QED
    BY <1>7, <2>3 DEF SlotIsLater
<1>9. QED
    BY <1>1, <1>3, <1>4, <1>8 DEF ProducerInv

\* start() keeps the invariant, with the genesis time found before or just now.
LEMMA StartStep ==
    ASSUME ProducerInv, Start(genesisTime'),
           GenesisKnown',
           genesisTime' \in Times,
           boot' \in {"waiting", "done", "failed"},
           attempts' \in 0..MaxAttempts,
           genesisTime # None => genesisTime' = genesisTime,
           UNCHANGED <<now, genesisBlock, journalOf, lastSlot, wasStopped>>
    PROVE  ProducerInv'
<1>1. now' \in Nat /\ (genesisTime' # None => genesisTime' \in Nat
                                               /\ genesisTime' <= now')
    BY DEF ProducerInv, TypeOK, Times, GenesisKnown
<1>2. genesisTime' # None =>
         Scheduled(genesisTime') =
            [step |-> "waiting",
             due |-> genesisTime' + (CurrentSlot' + 1) * SlotLength]
    BY DEF Scheduled, CurrentSlot
<1>3. genesisTime' # None => Scheduled(genesisTime') \in ChainType
  <2>1. genesisTime' # None =>
           genesisTime' + (CurrentSlot' + 1) * SlotLength \in Nat
    BY <1>1, SlotNumber DEF CurrentSlot
  <2>2. QED
    BY <1>2, <2>1 DEF ChainType
<1>4. CASE UNCHANGED <<isRunning, currentTimeout, loop>>
  <2>1. TypeOK'
    BY <1>4 DEF ProducerInv, TypeOK
  <2>2. RunningIsAlive' /\ ContextIsItsOwnUntilStopped' /\ OneChain'
    BY <1>4 DEF ProducerInv, RunningIsAlive, ContextIsItsOwnUntilStopped,
                ContextIsItsOwn, OneChain, Armed
  <2>3. CASE genesisTime' = genesisTime
    <3>1. CurrentSlot' = CurrentSlot
      BY <2>3 DEF CurrentSlot
    <3>2. SlotIsLater'
      BY <1>4, <2>3, <3>1 DEF ProducerInv, SlotIsLater
    <3>3. QED
      BY <2>1, <2>2, <3>2 DEF ProducerInv
  <2>4. CASE genesisTime = None /\ genesisTime' # None
    <3>1. \A l \in Loop : loop'[l].step = "free"
      BY <1>4, <2>4 DEF ProducerInv, GenesisKnown, Armed
    <3>2. lastSlot' = -1
      BY <2>4 DEF ProducerInv, SlotIsLater, TypeOK
    <3>3. CurrentSlot' \in Nat
      BY <1>1, <2>4, SlotNumber DEF CurrentSlot
    <3>4. lastSlot' <= CurrentSlot'
      BY <3>2, <3>3
    <3>5. SlotIsLater'
      BY <2>4, <3>1, <3>4 DEF SlotIsLater
    <3>6. QED
      BY <2>1, <2>2, <3>5 DEF ProducerInv
  <2>5. QED
    BY <2>3, <2>4
<1>5. CASE ~UNCHANGED <<isRunning, currentTimeout, loop>>
  <2>1. /\ ~isRunning /\ isRunning' /\ genesisTime' # None
        /\ isRunning' \in BOOLEAN
        /\ currentTimeout' \in Loop
        /\ loop' \in [Loop -> ChainType]
    BY <1>3, <1>5, StartChanges
  <2>2. PICK l \in Loop :
            /\ loop[l].step = "free"
            /\ loop'[l] = Scheduled(genesisTime')
            /\ \A k \in Loop \ {l} : loop'[k] = loop[k]
    BY <1>3, <1>5, StartChanges
  <2>3. TypeOK'
    BY <2>1 DEF ProducerInv, TypeOK, ChainType
  <2>4. loop'[l] = [step |-> "waiting",
                    due |-> genesisTime' + (CurrentSlot' + 1) * SlotLength]
    BY <1>2, <2>1, <2>2
  <2>5. QED
    BY <2>1, <2>2, <2>3, <2>4, ArmingStep
<1>6. QED
    BY <1>4, <1>5

\* stop() keeps the invariant: it frees a chain or none, and says so.
LEMMA StopStep ==
    ASSUME ProducerInv, StopRequested
    PROVE  ProducerInv'
<1> USE DEF StopRequested, Stop, clockAndBoot
<1>1. \A l \in Loop : loop'[l] \in {loop[l], NoLoop}
    BY DEF ProducerInv, TypeOK
<1>2. loop' \in [Loop -> ChainType]
    BY DEF ProducerInv, TypeOK, ChainType, NoLoop
<1>3. TypeOK'
    BY <1>2 DEF ProducerInv, TypeOK, ChainType
<1>4. RunningIsAlive' /\ ContextIsItsOwnUntilStopped' /\ OneChain'
    BY DEF RunningIsAlive, ContextIsItsOwnUntilStopped, OneChain
<1>5. GenesisKnown'
    BY <1>1 DEF ProducerInv, GenesisKnown, Armed, NoLoop
<1>6. SlotIsLater'
  <2>1. CurrentSlot' = CurrentSlot
    BY DEF CurrentSlot
  <2>2. QED
    BY <2>1 DEF ProducerInv, SlotIsLater
<1>7. QED
    BY <1>3, <1>4, <1>5, <1>6 DEF ProducerInv

-----------------------------------------------------------------------------
(* The clock and the bootstrap *)

\* A step that leaves the chains and the requests alone keeps what is said of
\* them.
LEMMA QuietStep ==
    ASSUME ProducerInv, TypeOK', GenesisKnown',
           lastSlot' >= 0 => genesisTime' # None,
           genesisTime' # None => lastSlot' <= CurrentSlot',
           \A l \in Loop : Armed(l) => genesisTime' = genesisTime,
           UNCHANGED <<isRunning, loop, journalOf, lastSlot, wasStopped>>
    PROVE  ProducerInv'
<1>1. RunningIsAlive' /\ ContextIsItsOwnUntilStopped' /\ OneChain'
    BY DEF ProducerInv, RunningIsAlive, ContextIsItsOwnUntilStopped,
           ContextIsItsOwn, OneChain, Armed
<1>2. SlotIsLater'
    BY DEF ProducerInv, SlotIsLater, Armed
<1>3. QED
    BY <1>1, <1>2 DEF ProducerInv

\* Time passes: an armed timer does not move.
LEMMA TickStep ==
    ASSUME ProducerInv, Tick
    PROVE  ProducerInv'
<1> USE DEF Tick
<1>1. now \in Nat /\ now' = now + 1
    BY DEF ProducerInv, TypeOK
<1>2. TypeOK'
    BY <1>1 DEF ProducerInv, TypeOK
<1>3. genesisBlock # None => genesisBlock \in Nat /\ genesisBlock <= now
    BY DEF ProducerInv, GenesisKnown, TypeOK, Times
<1>4. GenesisKnown'
  <2>1. genesisBlock' # None => genesisBlock' <= now'
    BY <1>1, <1>3
  <2>2. QED
    BY <2>1 DEF ProducerInv, GenesisKnown, Armed
<1>5. genesisTime' # None => lastSlot' <= CurrentSlot'
  <2>1. SUFFICES ASSUME genesisTime # None
                 PROVE  lastSlot <= CurrentSlot'
    OBVIOUS
  <2>2. genesisTime \in Nat /\ genesisTime <= now
    BY <2>1, SlotType DEF ProducerInv
  <2>3. now - genesisTime \in Nat /\ now' - genesisTime \in Nat
        /\ now - genesisTime <= now' - genesisTime
    BY <1>1, <2>2
  <2>4. CurrentSlot \in Nat /\ CurrentSlot <= CurrentSlot'
        /\ CurrentSlot' \in Nat
    BY <2>3, SlotsGrow, BlockProducerAssumption DEF CurrentSlot
  <2>5. lastSlot \in Int /\ lastSlot <= CurrentSlot
    BY <2>1 DEF ProducerInv, SlotIsLater, TypeOK
  <2>6. QED
    BY <2>4, <2>5
<1>6. QED
    BY <1>2, <1>4, <1>5, QuietStep DEF ProducerInv, SlotIsLater

\* The genesis block is created, and is not of the future.
LEMMA GenesisStep ==
    ASSUME ProducerInv, GenesisCreated
    PROVE  ProducerInv'
<1> USE DEF GenesisCreated
<1>1. now \in Nat
    BY DEF ProducerInv, TypeOK
<1>2. TypeOK'
    BY <1>1 DEF ProducerInv, TypeOK, Times
<1>3. GenesisKnown'
  <2>1. genesisBlock' <= now' /\ genesisTime' = None
    BY <1>1 DEF ProducerInv, GenesisKnown
  <2>2. QED
    BY <2>1 DEF ProducerInv, GenesisKnown, Armed
<1>4. QED
    BY <1>2, <1>3, QuietStep DEF ProducerInv, GenesisKnown, SlotIsLater

\* After its last attempt the bootstrap gives up: no timer is armed.
LEMMA BootFailsStep ==
    ASSUME ProducerInv, BootFails
    PROVE  ProducerInv'
<1> USE DEF BootFails
<1>1. TypeOK' /\ GenesisKnown'
    BY DEF ProducerInv, TypeOK, GenesisKnown, Armed
<1>2. CurrentSlot' = CurrentSlot
    BY DEF CurrentSlot
<1>3. QED
    BY <1>1, <1>2, QuietStep DEF ProducerInv, SlotIsLater

\* The bootstrap finds no genesis block and counts the attempt, or it finds one
\* and starts.
LEMMA BootLooksStep ==
    ASSUME ProducerInv, BootLooks
    PROVE  ProducerInv'
<1>1. CASE genesisBlock = None
  <2>1. attempts \in Nat /\ MaxAttempts \in Nat
    BY BlockProducerAssumption DEF ProducerInv, TypeOK
  <2>2. attempts' \in 0..MaxAttempts
    BY <1>1, <2>1 DEF BootLooks
  <2>3. TypeOK' /\ GenesisKnown'
    BY <1>1, <2>2 DEF BootLooks, ProducerInv, TypeOK, GenesisKnown, Armed
  <2>4. CurrentSlot' = CurrentSlot
    BY <1>1 DEF CurrentSlot, BootLooks
  <2>5. QED
    BY <1>1, <2>3, <2>4, QuietStep DEF BootLooks, ProducerInv, SlotIsLater
<1>2. CASE genesisBlock # None
  <2>1. genesisTime' = genesisBlock /\ Start(genesisTime')
    BY <1>2 DEF BootLooks
  <2>2. GenesisKnown'
    BY <1>2, <2>1 DEF BootLooks, ProducerInv, GenesisKnown
  <2>3. QED
    BY <1>2, <2>1, <2>2, StartStep
       DEF BootLooks, ProducerInv, TypeOK, GenesisKnown
<1>3. QED
    BY <1>1, <1>2

-----------------------------------------------------------------------------
(* A chain's steps *)

\* A chain that runs and goes on to another step of its block, with the
\* journal its own from the start of the block on, keeps the invariant.
LEMMA ChainStep ==
    ASSUME ProducerInv,
           NEW l \in Loop, Armed(l),
           loop' = [loop EXCEPT ![l].step = loop'[l].step],
           loop'[l].step \in Producing,
           ~wasStopped /\ loop'[l].step # "selecting" => journalOf' = l,
           journalOf' \in {journalOf, l},
           lastSlot' \in {lastSlot, CurrentSlot},
           UNCHANGED <<clockAndBoot, isRunning, currentTimeout, wasStopped>>
    PROVE  ProducerInv'
<1> USE DEF clockAndBoot
<1>1. /\ \A k \in Loop \ {l} : loop'[k] = loop[k]
      /\ loop'[l].step # "free" /\ loop'[l].step # "waiting"
      /\ loop' \in [Loop -> [step : Producing \cup {"free", "waiting"},
                             due : Nat]]
    BY DEF ProducerInv, TypeOK, Producing
<1>2. genesisTime # None
    BY DEF ProducerInv, GenesisKnown
<1>3. CurrentSlot \in Nat /\ CurrentSlot' = CurrentSlot
    BY <1>2, SlotType DEF ProducerInv, CurrentSlot
<1>4. lastSlot' \in Nat \cup {-1} /\ lastSlot' <= CurrentSlot'
    BY <1>2, <1>3 DEF ProducerInv, TypeOK, SlotIsLater
<1>5. TypeOK'
    BY <1>1, <1>4 DEF ProducerInv, TypeOK
<1>6. RunningIsAlive' /\ GenesisKnown' /\ OneChain'
    BY <1>1, <1>2
       DEF ProducerInv, RunningIsAlive, GenesisKnown, OneChain, Armed
<1>7. ~wasStopped => \A k \in Loop \ {l} : loop'[k].step = "free"
    BY <1>1 DEF ProducerInv, OneChain, Armed
<1>8. ContextIsItsOwnUntilStopped'
    BY <1>7 DEF ContextIsItsOwnUntilStopped, ContextIsItsOwn
<1>9. SlotIsLater'
    BY <1>1, <1>2, <1>4, <1>7 DEF SlotIsLater
<1>10. QED
    BY <1>5, <1>6, <1>8, <1>9 DEF ProducerInv

\* A timer that goes off reads the slot, which is not before the one it is
\* for.
LEMMA FireStep ==
    ASSUME ProducerInv, NEW l \in Loop, Fire(l)
    PROVE  ProducerInv'
<1>1. loop \in [Loop -> ChainType]
    BY DEF ProducerInv, TypeOK, ChainType
<1>2. loop'[l].step = "selecting"
    BY <1>1 DEF Fire
<1>3. QED
    BY <1>2, ChainStep DEF Fire, Armed, Producing

\* The journal stack is taken.
LEMMA BeginBlockStep ==
    ASSUME ProducerInv, NEW l \in Loop, BeginBlock(l)
    PROVE  ProducerInv'
<1>1. loop \in [Loop -> ChainType]
    BY DEF ProducerInv, TypeOK, ChainType
<1>2. loop'[l].step = "executing"
    BY <1>1 DEF BeginBlock
<1>3. QED
    BY <1>2, ChainStep DEF BeginBlock, Armed, Producing

\* It stays taken while a block is committed.
LEMMA BeginCommitStep ==
    ASSUME ProducerInv, NEW l \in Loop, BeginCommit(l)
    PROVE  ProducerInv'
<1>1. loop \in [Loop -> ChainType]
    BY DEF ProducerInv, TypeOK, ChainType
<1>2. loop'[l].step = "committing" /\ loop[l].step = "executing"
    BY <1>1 DEF BeginCommit
<1>3. ~wasStopped => journalOf = l
    BY <1>2 DEF ProducerInv, ContextIsItsOwnUntilStopped, ContextIsItsOwn
<1>4. QED
    BY <1>2, <1>3, ChainStep DEF BeginCommit, Armed, Producing

\* A block that ends, kept or failed, arms the timer of a later slot and leaves
\* the journal to nobody.
LEMMA EndBlockStep ==
    ASSUME ProducerInv, NEW l \in Loop, loop[l].step \in Producing, EndBlock(l)
    PROVE  ProducerInv'
<1> USE DEF EndBlock, clockAndBoot
<1>1. Armed(l) /\ genesisTime # None
    BY DEF ProducerInv, GenesisKnown, Armed, Producing
<1>2. /\ now \in Nat /\ genesisTime \in Nat /\ genesisTime <= now
      /\ CurrentSlot \in Nat /\ CurrentSlot' = CurrentSlot
    BY <1>1, SlotType DEF ProducerInv, CurrentSlot
<1> DEFINE next == [step |-> "waiting",
                    due |-> genesisTime + (CurrentSlot + 1) * SlotLength]
<1>3. next \in ChainType
  <2>1. genesisTime + (CurrentSlot + 1) * SlotLength \in Nat
    BY <1>2, SlotNumber DEF CurrentSlot
  <2>2. QED
    BY <2>1 DEF ChainType
<1>4. loop' = [loop EXCEPT ![l] = next]
    BY DEF Scheduled, CurrentSlot
<1>5. loop \in [Loop -> ChainType]
    BY DEF ProducerInv, TypeOK, ChainType
<1>6. /\ loop' \in [Loop -> ChainType]
      /\ loop'[l] = next
      /\ \A k \in Loop \ {l} : loop'[k] = loop[k]
    BY <1>3, <1>4, <1>5
<1>7. TypeOK'
    BY <1>6 DEF ProducerInv, TypeOK, ChainType
<1>8. RunningIsAlive' /\ GenesisKnown' /\ OneChain'
    BY <1>1, <1>6
       DEF ProducerInv, RunningIsAlive, GenesisKnown, OneChain, Armed
<1>9. ~wasStopped => \A k \in Loop \ {l} : loop'[k].step = "free"
    BY <1>1, <1>6 DEF ProducerInv, OneChain, Armed
<1>10. ContextIsItsOwnUntilStopped'
    BY <1>6, <1>9 DEF ContextIsItsOwnUntilStopped, ContextIsItsOwn
<1>11. SlotIsLater'
  <2>1. lastSlot <= CurrentSlot /\ lastSlot \in Int
    BY <1>1 DEF ProducerInv, SlotIsLater, TypeOK
  <2>2. CurrentSlot + 1 \in Nat /\ CurrentSlot + 1 > lastSlot
    BY <1>2, <2>1
  <2>3. ASSUME ~wasStopped, NEW k \in Loop, loop'[k].step = "waiting"
        PROVE  \E n \in Nat : /\ n > lastSlot
                              /\ loop'[k].due = genesisTime + n * SlotLength
    BY <1>6, <1>9, <2>2, <2>3
  <2>4. QED
    BY <1>1, <1>2, <2>1, <2>3 DEF SlotIsLater
<1>12. QED
    BY <1>7, <1>8, <1>10, <1>11 DEF ProducerInv

-----------------------------------------------------------------------------
(* The theorems *)

\* Every step of the producer keeps the invariant.
LEMMA ProducerStep == ProducerInv /\ [Next]_vars => ProducerInv'
<1> SUFFICES ASSUME ProducerInv, [Next]_vars
             PROVE  ProducerInv'
    OBVIOUS
<1>1. CASE Tick
    BY <1>1, TickStep
<1>2. CASE GenesisCreated
    BY <1>2, GenesisStep
<1>3. CASE BootLooks
    BY <1>3, BootLooksStep
<1>4. CASE BootFails
    BY <1>4, BootFailsStep
<1>5. CASE StartRequested
  <2>1. genesisTime' = genesisTime /\ genesisBlock' = genesisBlock
        /\ now' = now
    BY <1>5 DEF StartRequested, clockAndBoot
  <2>2. Start(genesisTime')
    BY <1>5, <2>1 DEF StartRequested
  <2>3. GenesisKnown'
    <3>1. CASE genesisTime = None
      <4>1. UNCHANGED loop
        BY <1>5, <3>1 DEF StartRequested, Start
      <4>2. QED
        BY <2>1, <4>1 DEF ProducerInv, GenesisKnown, Armed
    <3>2. CASE genesisTime # None
      BY <2>1, <3>2 DEF ProducerInv, GenesisKnown
    <3>3. QED
      BY <3>1, <3>2
  <2>4. QED
    BY <1>5, <2>1, <2>2, <2>3, StartStep
       DEF StartRequested, clockAndBoot, ProducerInv, TypeOK
<1>6. CASE StopRequested
    BY <1>6, StopStep
<1>7. ASSUME NEW l \in Loop, Fire(l)
      PROVE  ProducerInv'
    BY <1>7, FireStep
<1>8. ASSUME NEW l \in Loop, Produce(l) \/ BlockFails(l)
      PROVE  ProducerInv'
  <2>1. CASE BeginBlock(l)
    BY <2>1, BeginBlockStep
  <2>2. CASE BeginCommit(l)
    BY <2>2, BeginCommitStep
  <2>3. CASE BlockDone(l) \/ BlockFails(l)
    BY <2>3, EndBlockStep DEF BlockDone, BlockFails, Producing
  <2>4. QED
    BY <1>8, <2>1, <2>2, <2>3 DEF Produce
<1>9. CASE UNCHANGED vars
  <2>1. CurrentSlot' = CurrentSlot
    BY <1>9 DEF vars, CurrentSlot
  <2>2. QED
    BY <1>9, <2>1
       DEF vars, ProducerInv, TypeOK, RunningIsAlive,
           ContextIsItsOwnUntilStopped, ContextIsItsOwn, GenesisKnown,
           OneChain, SlotIsLater, Armed
<1>10. QED
    BY <1>1, <1>2, <1>3, <1>4, <1>5, <1>6, <1>7, <1>8, <1>9 DEF Next

\* The consensus goes through no step that the producer does not know.
LEMMA ConsensusIsProducing == ConsensusSpec => Spec
<1>1. ConsensusInit => Init
    BY DEF ConsensusInit
<1>2. [ConsensusNext]_allVars => [Next]_vars
    BY DEF ConsensusNext, OtherStep, SelectDuty, Attest, DutyDone, Next,
           Produce, BlockDone, allVars
<1>3. QED
    BY <1>1, <1>2, PTL DEF ConsensusSpec, Spec

\* The invariant holds whatever is requested, however long blocks take and
\* however often they fail.
LEMMA ProducerInvariant == ConsensusSpec => []ProducerInv
<1>1. Spec => []ProducerInv
    BY ProducerInit, ProducerStep, PTL DEF Spec
<1>2. QED
    BY <1>1, ConsensusIsProducing, PTL

\* The variables of the block producer always have their types.
THEOREM ProducerTypeCorrect == ConsensusSpec => []TypeOK
<1>1. ProducerInv => TypeOK
    BY DEF ProducerInv
<1>2. QED
    BY <1>1, ProducerInvariant, PTL

\* Until the producer is first stopped, the journal stack of the StateManager
\* holds the changes of the block that is executed or committed and of no other
\* block, with any number of chains of timers that start() might have armed.
THEOREM BlocksAreApart == ConsensusSpec => []ContextIsItsOwnUntilStopped
<1>1. ProducerInv => ContextIsItsOwnUntilStopped
    BY DEF ProducerInv
<1>2. QED
    BY <1>1, ProducerInvariant, PTL

\* A producer that says it runs has a chain that will make another block, also
\* after it was stopped and started while a block was being made.
THEOREM ProducerStaysAlive == ConsensusSpec => []RunningIsAlive
<1>1. ProducerInv => RunningIsAlive
    BY DEF ProducerInv
<1>2. QED
    BY <1>1, ProducerInvariant, PTL

\* Until the producer is first stopped every block is begun in a later slot
\* than the one before: no slot's proposer is asked for two blocks.
THEOREM SlotsDoAdvance == ConsensusSpec => SlotsAdvance
<1>1. ASSUME ProducerInv, NEW l \in Loop, Fire(l), ~wasStopped
      PROVE  CurrentSlot > lastSlot
  <2>1. genesisTime # None
    BY <1>1 DEF ProducerInv, GenesisKnown, Armed, Fire
  <2>2. now \in Nat /\ genesisTime \in Nat /\ genesisTime <= now
        /\ CurrentSlot \in Nat /\ lastSlot \in Int
    BY <1>1, <2>1, SlotType DEF ProducerInv, TypeOK
  <2>3. PICK k \in Nat : /\ k > lastSlot
                         /\ loop[l].due = genesisTime + k * SlotLength
    BY <1>1 DEF ProducerInv, SlotIsLater, Fire
  <2>4. SlotLength \in Nat \ {0} /\ k * SlotLength \in Nat
    BY BlockProducerAssumption
  <2>5. now >= genesisTime + k * SlotLength
    BY <1>1, <2>3 DEF Fire
  <2>6. now - genesisTime \in Nat /\ now - genesisTime >= k * SlotLength
    BY <2>2, <2>4, <2>5
  <2>7. CurrentSlot >= k
    BY <2>4, <2>6, AtLeast DEF CurrentSlot
  <2>8. QED
    BY <2>2, <2>3, <2>7
<1>2. ProducerInv /\ [Next]_vars =>
         [\A l \in Loop : Fire(l) /\ ~wasStopped => CurrentSlot > lastSlot]_vars
    BY <1>1
<1>3. Spec => []ProducerInv
    BY ProducerInit, ProducerStep, PTL DEF Spec
<1>4. Spec => SlotsAdvance
    BY <1>2, <1>3, PTL DEF Spec, SlotsAdvance
<1>5. QED
    BY <1>4, ConsensusIsProducing, PTL

-----------------------------------------------------------------------------
(* One block per slot *)

\* No attestation names a slot of the future; the block that is being made was
\* begun in a later slot than any that is named, and the timer that is armed is
\* for one.
NamedBefore ==
    /\ \A a \in attestations : a.slot \in Nat
    /\ attestations # {} => genesisTime # None
    /\ ~wasStopped =>
          \A a \in attestations :
              /\ a.slot <= CurrentSlot
              /\ \A l \in Loop :
                    /\ loop[l].step \in {"selecting", "executing"} =>
                          a.slot < lastSlot
                    /\ loop[l].step = "waiting" =>
                          \E k \in Nat :
                             /\ k > a.slot
                             /\ loop[l].due = genesisTime + k * SlotLength

AttestInv == ProducerInv /\ NamedBefore /\ OneBlockPerSlot

\* A chain goes on to a step that says nothing of slots, keeps its place, or
\* arms the timer of the next slot.
GoesOn(l) ==
    \/ loop'[l] = loop[l]
    \/ loop'[l].step \in {"free", "committing"}
    \/ loop[l].step = "selecting" /\ loop'[l].step = "executing"
    \/ loop'[l] = [step |-> "waiting",
                   due |-> genesisTime' + (CurrentSlot' + 1) * SlotLength]

\* The steps in which no block is begun and nobody attests.
LEMMA NamedStays ==
    ASSUME NamedBefore,
           \A l \in Loop : GoesOn(l),
           genesisTime # None =>
               /\ genesisTime' = genesisTime
               /\ CurrentSlot \in Nat /\ CurrentSlot' \in Nat
               /\ CurrentSlot <= CurrentSlot',
           ~wasStopped' => ~wasStopped,
           UNCHANGED <<lastSlot, attestations>>
    PROVE  NamedBefore'
<1>1. attestations # {} =>
         /\ genesisTime # None /\ genesisTime' = genesisTime
         /\ CurrentSlot \in Nat /\ CurrentSlot' \in Nat
         /\ CurrentSlot <= CurrentSlot'
    BY DEF NamedBefore
<1>2. ASSUME ~wasStopped', NEW a \in attestations
      PROVE  a.slot \in Nat /\ a.slot <= CurrentSlot'
    BY <1>1, <1>2 DEF NamedBefore
<1>3. ASSUME ~wasStopped', NEW a \in attestations, NEW l \in Loop
      PROVE  /\ loop'[l].step \in {"selecting", "executing"} =>
                    a.slot < lastSlot
             /\ loop'[l].step = "waiting" =>
                    \E k \in Nat :
                        /\ k > a.slot
                        /\ loop'[l].due = genesisTime' + k * SlotLength
  <2>1. CASE loop'[l] = loop[l]
    BY <1>1, <1>3, <2>1 DEF NamedBefore
  <2>2. CASE loop'[l].step \in {"free", "committing"}
    BY <2>2
  <2>3. CASE loop[l].step = "selecting" /\ loop'[l].step = "executing"
    BY <1>3, <2>3 DEF NamedBefore
  <2>4. CASE loop'[l] =
               [step |-> "waiting",
                due |-> genesisTime' + (CurrentSlot' + 1) * SlotLength]
    <3>1. CurrentSlot' + 1 \in Nat /\ CurrentSlot' + 1 > a.slot
      BY <1>1, <1>2, <1>3
    <3>2. QED
      BY <2>4, <3>1
  <2>5. QED
    BY <2>1, <2>2, <2>3, <2>4 DEF GoesOn
<1>4. QED
    BY <1>1, <1>2, <1>3 DEF NamedBefore

\* A block is begun: the slot it is begun in is later than any that is named.
LEMMA NamedSelect ==
    ASSUME AttestInv, NEW l \in Loop, SelectDuty(l)
    PROVE  NamedBefore'
<1> USE DEF SelectDuty, Fire, clockAndBoot
<1>1. genesisTime # None
    BY DEF AttestInv, ProducerInv, GenesisKnown, Armed
<1>2. /\ now \in Nat /\ genesisTime \in Nat /\ genesisTime <= now
      /\ CurrentSlot \in Nat /\ CurrentSlot' = CurrentSlot
      /\ lastSlot' = CurrentSlot
    BY <1>1, SlotType DEF AttestInv, ProducerInv, CurrentSlot
<1>3. loop'[l].step = "selecting"
    BY DEF AttestInv, ProducerInv, TypeOK
<1>4. ~wasStopped => \A k \in Loop \ {l} : loop'[k].step = "free"
    BY DEF AttestInv, ProducerInv, OneChain, Armed, TypeOK
<1>5. ASSUME ~wasStopped, NEW a \in attestations
      PROVE  a.slot < CurrentSlot
  <2>1. PICK k \in Nat : /\ k > a.slot
                         /\ loop[l].due = genesisTime + k * SlotLength
    BY <1>5 DEF AttestInv, NamedBefore
  <2>2. SlotLength \in Nat \ {0} /\ k * SlotLength \in Nat
    BY BlockProducerAssumption
  <2>3. now - genesisTime \in Nat /\ now - genesisTime >= k * SlotLength
    BY <1>2, <2>1, <2>2
  <2>4. CurrentSlot >= k /\ a.slot \in Nat
    BY <2>2, <2>3, <1>5, AtLeast DEF CurrentSlot, AttestInv, NamedBefore
  <2>5. QED
    BY <1>2, <2>1, <2>4
<1>6. \A a \in attestations : a.slot \in Nat
    BY DEF AttestInv, NamedBefore
<1>7. \A a \in attestations : ~wasStopped => a.slot <= CurrentSlot
    BY <1>2, <1>5, <1>6
<1>8. QED
    BY <1>1, <1>2, <1>3, <1>4, <1>5, <1>6, <1>7 DEF NamedBefore

\* Whatever the committee, its attestations name the slot it is and one block.
LEMMA CollectedNames ==
    ASSUME NEW block, NEW committee,
           NEW a \in Elements(CollectAttestations(block, committee))
    PROVE  a.slot = CurrentSlot /\ a.block = block
<1>1. PICK i \in DOMAIN committee :
          a = Attestation(CurrentSlot, block, committee[i])
    BY DEF Elements, CollectAttestations
<1>2. QED
    BY <1>1 DEF Attestation

\* The committee attests: the slot of its attestations has none before, unless
\* the producer has been stopped.
LEMMA AttestStep ==
    ASSUME AttestInv, NEW l \in Loop, Attest(l)
    PROVE  NamedBefore' /\ OneBlockPerSlot'
<1> USE DEF Attest, BeginCommit, clockAndBoot
<1>1. genesisTime # None
    BY DEF AttestInv, ProducerInv, GenesisKnown, Armed
<1>2. /\ CurrentSlot \in Nat /\ CurrentSlot' = CurrentSlot
      /\ genesisTime' = genesisTime
    BY <1>1, SlotType DEF AttestInv, ProducerInv, CurrentSlot
<1>3. loop'[l].step = "committing"
    BY DEF AttestInv, ProducerInv, TypeOK
<1>4. ~wasStopped => \A k \in Loop \ {l} : loop'[k].step = "free"
    BY DEF AttestInv, ProducerInv, OneChain, Armed, TypeOK
<1>5. \A a \in Elements(CollectAttestations(blocks + 1, duty[l].committee)) :
          a.slot = CurrentSlot /\ a.block = blocks + 1
    BY CollectedNames
<1>6. ~wasStopped => {a \in attestations : a.slot = CurrentSlot} = {}
  <2>1. ASSUME ~wasStopped, NEW a \in attestations
        PROVE  a.slot < CurrentSlot
    <3>1. a.slot < lastSlot /\ a.slot \in Nat
      BY <2>1 DEF AttestInv, NamedBefore
    <3>2. lastSlot \in Int /\ lastSlot <= CurrentSlot
      BY <1>1 DEF AttestInv, ProducerInv, SlotIsLater, TypeOK
    <3>3. QED
      BY <1>2, <3>1, <3>2
  <2>2. \A a \in attestations : a.slot \in Nat
    BY DEF AttestInv, NamedBefore
  <2>3. QED
    BY <1>2, <2>1, <2>2
<1>7. \A a \in attestations' : a.slot = CurrentSlot
    BY <1>5
<1>8. ~wasStopped => \A a \in attestations' : a.block = blocks + 1
    BY <1>5, <1>6
<1>9. OneBlockPerSlot'
    BY <1>8 DEF OneBlockPerSlot
<1>10. NamedBefore'
    BY <1>1, <1>2, <1>3, <1>4, <1>7 DEF NamedBefore
<1>11. QED
    BY <1>9, <1>10

\* The other steps leave the attestations alone.
LEMMA OtherStepNames ==
    ASSUME AttestInv,
           OtherStep \/ \E l \in Loop : BlockDone(l) \/ BlockFails(l),
           UNCHANGED attestations
    PROVE  NamedBefore'
<1> USE BlockProducerAssumption DEF clockAndBoot
<1>1. loop \in [Loop -> ChainType]
    BY DEF AttestInv, ProducerInv, TypeOK, ChainType
<1>2. genesisTime # None =>
         now \in Nat /\ genesisTime \in Nat /\ genesisTime <= now
         /\ CurrentSlot \in Nat
    BY SlotType DEF AttestInv, ProducerInv
<1>3. ASSUME UNCHANGED <<now, lastSlot>>,
             genesisTime # None => genesisTime' = genesisTime,
             ~wasStopped' => ~wasStopped,
             \A l \in Loop : GoesOn(l)
      PROVE  NamedBefore'
  <2>1. genesisTime # None => CurrentSlot' = CurrentSlot
    BY <1>3 DEF CurrentSlot
  <2>2. QED
    BY <1>2, <1>3, <2>1, NamedStays DEF AttestInv
<1>4. CASE Tick
  <2>1. genesisTime # None =>
           /\ now - genesisTime \in Nat /\ now' - genesisTime \in Nat
           /\ now - genesisTime <= now' - genesisTime
    BY <1>2, <1>4 DEF Tick
  <2>2. genesisTime # None =>
           CurrentSlot' \in Nat /\ CurrentSlot <= CurrentSlot'
    BY <1>4, <2>1, SlotsGrow DEF CurrentSlot, Tick
  <2>3. QED
    BY <1>2, <1>4, <2>2, NamedStays DEF Tick, AttestInv, GoesOn
<1>5. CASE GenesisCreated \/ BootFails
    BY <1>3, <1>5 DEF GenesisCreated, BootFails, GoesOn
<1>6. ASSUME Start(genesisTime'), UNCHANGED now
      PROVE  \A l \in Loop : GoesOn(l)
  <2>1. Scheduled(genesisTime') =
           [step |-> "waiting",
            due |-> genesisTime' + (CurrentSlot' + 1) * SlotLength]
    BY <1>6 DEF Scheduled, CurrentSlot
  <2>2. QED
    BY <1>1, <1>6, <2>1 DEF Start, GoesOn
<1>7. CASE BootLooks
  <2>1. genesisTime # None => genesisTime' = genesisTime
    BY <1>7 DEF BootLooks, AttestInv, ProducerInv, GenesisKnown
  <2>2. CASE genesisBlock = None
    BY <1>3, <1>7, <2>1, <2>2 DEF BootLooks, GoesOn
  <2>3. CASE genesisBlock # None
    <3>1. Start(genesisTime')
      BY <1>7, <2>3 DEF BootLooks
    <3>2. QED
      BY <1>3, <1>6, <1>7, <2>1, <3>1 DEF BootLooks
  <2>4. QED
    BY <2>2, <2>3
<1>8. CASE StartRequested
  <2>1. genesisTime' = genesisTime
    BY <1>8 DEF StartRequested
  <2>2. Start(genesisTime')
    BY <1>8, <2>1 DEF StartRequested
  <2>3. QED
    BY <1>3, <1>6, <1>8, <2>1, <2>2 DEF StartRequested
<1>9. CASE StopRequested
  <2>1. \A l \in Loop : loop'[l] \in {loop[l], NoLoop}
    BY <1>1, <1>9 DEF StopRequested, Stop
  <2>2. QED
    BY <1>3, <1>9, <2>1 DEF StopRequested, GoesOn, NoLoop
<1>10. CASE \E l \in Loop : BeginBlock(l)
  <2>1. \A l \in Loop : GoesOn(l)
    BY <1>1, <1>10 DEF BeginBlock, GoesOn
  <2>2. QED
    BY <1>3, <1>10, <2>1 DEF BeginBlock
<1>11. CASE \E l \in Loop : BlockDone(l) \/ BlockFails(l)
  <2>1. \A l \in Loop : GoesOn(l)
    <3>1. genesisTime' = genesisTime /\ CurrentSlot' = CurrentSlot
      BY <1>11 DEF BlockDone, BlockFails, EndBlock, CurrentSlot
    <3>2. PICK l \in Loop : loop' = [loop EXCEPT ![l] = Scheduled(genesisTime)]
      BY <1>11 DEF BlockDone, BlockFails, EndBlock
    <3>3. QED
      BY <1>1, <3>1, <3>2 DEF Scheduled, CurrentSlot, GoesOn
  <2>2. QED
    BY <1>3, <1>11, <2>1 DEF BlockDone, BlockFails, EndBlock
<1>12. QED
    BY <1>4, <1>5, <1>7, <1>8, <1>9, <1>10, <1>11 DEF OtherStep

\* Until the producer is first stopped no slot is named by attestations of two
\* blocks, however long blocks take and whatever fails: nobody attests twice.
THEOREM NobodyAttestsTwice == ConsensusSpec => []OneBlockPerSlot
<1>1. ConsensusInit => AttestInv
    BY ProducerInit
       DEF ConsensusInit, AttestInv, NamedBefore, OneBlockPerSlot
<1>2. AttestInv /\ [ConsensusNext]_allVars => AttestInv'
  <2> SUFFICES ASSUME AttestInv, [ConsensusNext]_allVars
               PROVE  AttestInv'
    OBVIOUS
  <2>1. ProducerInv'
    <3>1. [Next]_vars
      BY DEF ConsensusNext, OtherStep, SelectDuty, Attest, DutyDone, Next,
             Produce, BlockDone, allVars
    <3>2. QED
      BY <3>1, ProducerStep DEF AttestInv
  <2>2. CASE OtherStep
    <3>1. attestations' = attestations /\ (~wasStopped' => ~wasStopped)
      BY <2>2 DEF OtherStep, consensusVars, Tick, GenesisCreated, BootLooks,
                  BootFails, StartRequested, StopRequested, BeginBlock
    <3>2. QED
      BY <2>1, <2>2, <3>1, OtherStepNames DEF AttestInv, OneBlockPerSlot
  <2>3. ASSUME NEW l \in Loop, SelectDuty(l)
        PROVE  AttestInv'
    BY <2>1, <2>3, NamedSelect
       DEF AttestInv, OneBlockPerSlot, SelectDuty, Fire
  <2>4. ASSUME NEW l \in Loop, Attest(l)
        PROVE  AttestInv'
    BY <2>1, <2>4, AttestStep DEF AttestInv
  <2>5. ASSUME NEW l \in Loop, DutyDone(l)
        PROVE  AttestInv'
    BY <2>1, <2>5, OtherStepNames
       DEF AttestInv, OneBlockPerSlot, DutyDone, BlockDone, BlockFails, EndBlock
  <2>6. CASE UNCHANGED allVars
    <3>1. CurrentSlot' = CurrentSlot
      BY <2>6 DEF allVars, vars, CurrentSlot
    <3>2. QED
      BY <2>1, <2>6, <3>1 DEF allVars, vars, consensusVars, AttestInv,
                              NamedBefore, OneBlockPerSlot
  <2>7. QED
    BY <2>2, <2>3, <2>4, <2>5, <2>6 DEF ConsensusNext
<1>3. AttestInv => OneBlockPerSlot
    BY DEF AttestInv
<1>4. QED
    BY <1>1, <1>2, <1>3, PTL DEF ConsensusSpec

-----------------------------------------------------------------------------
(* The shuffle *)

\* The function that Turns chooses exists: the turns are what they are defined
\* to be.
LEMMA TurnsAreTurns ==
    ASSUME NEW V, NEW array \in Seq(V), NEW seed
    PROVE  Turns(array, seed) =
             [k \in 0..Len(array) |->
                 IF k = 0 THEN [seed |-> seed, array |-> array]
                 ELSE Turn(Turns(array, seed)[k - 1], Len(array) - k + 1)]
<1> DEFINE n == Len(array)
           first == [seed |-> seed, array |-> array]
           Step(g, k) == IF k = 0 THEN first ELSE Turn(g[k - 1], n - k + 1)
           S == {m \in 0..n : \E g : g = [k \in 0..m |-> Step(g, k)]}
<1>1. n \in Nat
    OBVIOUS
<1>2. 0 \in S
  <2> DEFINE g == [k \in 0..0 |-> first]
  <2>1. \A k \in 0..0 : g[k] = Step(g, k)
    OBVIOUS
  <2>2. g = [k \in 0..0 |-> Step(g, k)]
    BY <2>1
  <2>3. 0 \in 0..n
    BY <1>1
  <2> HIDE DEF g, Step, n
  <2>4. QED
    BY <2>2, <2>3
<1>3. ASSUME NEW m \in Nat, m < n, m \in S
      PROVE  m + 1 \in S
  <2>1. PICK g : g = [k \in 0..m |-> Step(g, k)]
    BY <1>3
  <2> DEFINE h == [k \in 0..(m + 1) |-> IF k <= m THEN g[k] ELSE Step(g, k)]
  <2>2. ASSUME NEW k \in 0..(m + 1)
        PROVE  h[k] = Step(h, k)
    <3>1. CASE k = 0
      <4>1. h[k] = g[k] /\ g[k] = Step(g, k)
        BY <1>3, <2>1, <3>1
      <4>2. QED
        BY <3>1, <4>1
    <3>2. CASE k # 0 /\ k <= m
      <4>1. k - 1 \in 0..m /\ k \in 0..m /\ h[k] = g[k] /\ h[k - 1] = g[k - 1]
        BY <1>3, <3>2
      <4> HIDE DEF h
      <4>2. g[k] = Step(g, k)
        BY <2>1, <4>1
      <4>3. QED
        BY <3>2, <4>1, <4>2
    <3>3. CASE k = m + 1
      <4>1. /\ k - 1 \in 0..m /\ k # 0
            /\ h[k] = Step(g, k) /\ h[k - 1] = g[k - 1]
        BY <1>3, <3>3
      <4> HIDE DEF h
      <4>2. QED
        BY <4>1
    <3>4. QED
      BY <1>3, <3>1, <3>2, <3>3
  <2>3. h = [k \in 0..(m + 1) |-> Step(h, k)]
    BY <2>2
  <2>4. m + 1 \in 0..n
    BY <1>1, <1>3
  <2> HIDE DEF h, Step
  <2>5. QED
    BY <2>3, <2>4
<1>4. n \in S
  <2> HIDE DEF S, n
  <2>1. QED
    BY <1>1, <1>2, <1>3, Up
<1>5. \E g : g = [k \in 0..n |-> Step(g, k)]
    BY <1>4
<1>6. Turns(array, seed) = CHOOSE g : g = [k \in 0..n |-> Step(g, k)]
    BY DEF Turns
<1> DEFINE turns == CHOOSE g : g = [k \in 0..n |-> Step(g, k)]
<1>7. turns = [k \in 0..n |-> Step(turns, k)]
  <2> HIDE DEF n
  <2>1. QED
    BY <1>5
<1>8. QED
    BY <1>6, <1>7

\* A list of the same length, without repetitions, of members of V.
Listing(seq, V, n) ==
    /\ seq \in Seq(V)
    /\ Len(seq) = n
    /\ \A i, j \in 1..n : seq[i] = seq[j] => i = j

\* Swapping two elements of a permutation gives a permutation.
LEMMA SwapLists ==
    ASSUME NEW V, NEW n \in Nat, NEW seq, Listing(seq, V, n),
           NEW i \in 1..n, NEW j \in 1..n
    PROVE  Listing(Swapped(seq, i, j), V, n)
<1> DEFINE swapped == Swapped(seq, i, j)
<1>1. seq \in [1..n -> V]
    BY DEF Listing
<1>2. swapped \in [1..n -> V]
    BY <1>1 DEF Swapped
<1>3. swapped \in Seq(V) /\ Len(swapped) = n
    BY <1>2
<1>4. \A k \in 1..n : swapped[k] = IF k = j THEN seq[i]
                                   ELSE IF k = i THEN seq[j] ELSE seq[k]
    BY <1>1 DEF Swapped
<1>5. \A k, m \in 1..n : swapped[k] = swapped[m] => k = m
  <2> HIDE DEF swapped
  <2>1. QED
    BY <1>4 DEF Listing
<1>6. QED
    BY <1>3, <1>5 DEF Listing

\* Whatever the seed, the shuffle returns all the validators it was given, each
\* once.
LEMMA ShuffleLists ==
    ASSUME NEW V, NEW n \in Nat, NEW array, Listing(array, V, n),
           NEW seed \in Nat
    PROVE  Listing(Shuffle(array, seed), V, n)
<1> DEFINE turns == Turns(array, seed)
           Good(last) == last.seed \in Nat /\ Listing(last.array, V, n)
           S == {m \in 0..n : m < n \/ m = 0 => Good(turns[m])}
<1>1. Len(array) = n /\ array \in Seq(V)
    BY DEF Listing
<1>2. turns = [k \in 0..n |->
                  IF k = 0 THEN [seed |-> seed, array |-> array]
                  ELSE Turn(turns[k - 1], n - k + 1)]
    BY <1>1, TurnsAreTurns
<1> HIDE DEF turns
<1>3. Good(turns[0])
    BY <1>2
<1>4. ASSUME NEW m \in Nat, m + 1 < n, Good(turns[m])
      PROVE  Good(turns[m + 1])
  <2> DEFINE last == turns[m]
             i == n - (m + 1) + 1
             next == (last.seed * Multiplier) % Modulus
             j == (next % i) + 1
  <2>1. turns[m + 1] = Turn(last, i)
    BY <1>2, <1>4
  <2>2. i \in 1..n /\ i \in Nat /\ i > 0
    BY <1>4
  <2>3. next \in Nat
    <3>1. Multiplier \in Nat /\ Modulus \in Nat \ {0}
      BY ConsensusAssumption
    <3>2. last.seed * Multiplier \in Nat
      BY <1>4, <3>1
    <3>3. QED
      BY <3>1, <3>2
  <2> HIDE DEF next
  <2>4. j \in 1..n
    BY <2>2, <2>3
  <2>5. Turn(last, i) = [seed |-> next, array |-> Swapped(last.array, i, j)]
    BY DEF Turn, next
  <2> HIDE DEF last, i, j
  <2>6. Listing(Swapped(last.array, i, j), V, n)
    BY <1>4, <2>2, <2>4, SwapLists DEF last
  <2>7. QED
    BY <2>1, <2>3, <2>5, <2>6
<1>5. CASE n = 0
    BY <1>1, <1>3, <1>5 DEF Shuffle, turns
<1>6. CASE n > 0
  <2> DEFINE G == {m \in 0..(n - 1) : Good(turns[m])}
  <2>1. n - 1 \in Nat
    BY <1>6
  <2>2. 0 \in G
    BY <1>3, <2>1
  <2>3. \A m \in Nat : m < n - 1 /\ m \in G => m + 1 \in G
    BY <1>4, <2>1
  <2>4. n - 1 \in G
    <3> HIDE DEF G
    <3>1. QED
      BY <2>1, <2>2, <2>3, Up
  <2>5. QED
    BY <1>1, <1>6, <2>4 DEF Shuffle, turns
<1>7. QED
    BY <1>5, <1>6

-----------------------------------------------------------------------------
(* The committees of all slots *)

DistinctMembers(committee) ==
    \A i, j \in DOMAIN committee : committee[i] = committee[j] => i = j

RightSize(committee) ==
    Len(committee) = IF Len(Validators) < COMMITTEE_SIZE
                     THEN Len(Validators) ELSE COMMITTEE_SIZE

\* Every duty is that of a slot within the bound on the clock.
DutyOfASlot ==
    \A l \in Loop :
        duty[l] # NoDuty => \E slot \in 0..MaxTime : duty[l] = Duty(slot)

DutyInv ==
    /\ ProducerInv
    /\ now <= MaxTime
    /\ DOMAIN duty = Loop
    /\ DutyOfASlot

\* The first elements of one are distinct.
LEMMA CommitteeIsSound ==
    ASSUME NEW slot \in 0..MaxTime
    PROVE  DistinctMembers(SelectCommittee(slot)) /\ RightSize(SelectCommittee(slot))
<1> DEFINE n == Len(Validators)
           committee == SelectCommittee(slot)
<1>1. Listing(Validators, STRING, n) /\ n \in Nat /\ COMMITTEE_SIZE \in Nat
    BY ConsensusAssumption DEF Listing
<1>2. CASE n < COMMITTEE_SIZE
  <2>1. committee = Validators
    BY <1>2 DEF SelectCommittee
  <2>2. QED
    BY <1>2, <2>1, ConsensusAssumption DEF DistinctMembers, RightSize
<1>3. CASE ~(n < COMMITTEE_SIZE)
  <2> DEFINE shuffled == Shuffle(Validators, GenerateSeed(slot, "committee"))
  <2>1. GenerateSeed(slot, "committee") \in Nat
    BY SeedAssumption
  <2>2. Listing(shuffled, STRING, n)
    BY <1>1, <2>1, ShuffleLists
  <2>3. committee = SubSeq(shuffled, 1, COMMITTEE_SIZE)
    BY <1>3 DEF SelectCommittee
  <2> HIDE DEF shuffled, committee
  <2>4. \A i \in 1..COMMITTEE_SIZE : i \in 1..n /\ shuffled[i] \in STRING
    BY <1>1, <1>3, <2>2 DEF Listing
  <2>5. COMMITTEE_SIZE \in Nat \ {0}
    BY ConsensusAssumption
  <2>6. /\ committee \in Seq(STRING)
        /\ Len(committee) = COMMITTEE_SIZE
        /\ \A i \in 1..COMMITTEE_SIZE : committee[i] = shuffled[i]
    BY <2>3, <2>4, <2>5, SubSeqProperties
  <2>7. DOMAIN committee = 1..COMMITTEE_SIZE
    BY <2>6
  <2>8. DistinctMembers(committee)
    BY <2>2, <2>4, <2>6, <2>7 DEF DistinctMembers, Listing
  <2>9. QED
    BY <1>3, <2>6, <2>8 DEF RightSize, committee
<1>4. QED
    BY <1>2, <1>3

\* At first no chain has a duty.
LEMMA DutyInit == ConsensusInit => DutyInv
<1> SUFFICES ASSUME ConsensusInit
             PROVE  DutyInv
    OBVIOUS
<1>1. ProducerInv
    BY ProducerInit DEF ConsensusInit
<1>2. now <= MaxTime
    BY BlockProducerAssumption DEF ConsensusInit, Init
<1>3. DOMAIN duty = Loop /\ DutyOfASlot
    BY DEF ConsensusInit, DutyOfASlot
<1>4. QED
    BY <1>1, <1>2, <1>3 DEF DutyInv

\* A duty is selected for a slot within the bound on the clock.
LEMMA SelectedSlot ==
    ASSUME DutyInv, NEW l \in Loop, SelectDuty(l)
    PROVE  CurrentSlot \in 0..MaxTime
<1>1. genesisTime # None
    BY DEF SelectDuty, Fire, DutyInv, ProducerInv, GenesisKnown, Armed
<1>2. now \in Nat /\ genesisTime \in Nat /\ genesisTime <= now
      /\ CurrentSlot \in Nat
    BY <1>1, SlotType DEF DutyInv, ProducerInv
<1>3. SlotLength \in Nat \ {0} /\ MaxTime \in Nat
    BY BlockProducerAssumption
<1>4. now - genesisTime \in Nat /\ now - genesisTime <= now
    BY <1>2
<1>5. CurrentSlot <= now - genesisTime
    BY <1>3, <1>4, SMT DEF CurrentSlot
<1>6. now <= MaxTime
    BY DEF DutyInv
<1>7. QED
    BY <1>2, <1>3, <1>4, <1>5, <1>6

\* Every step leaves each duty that of a slot.
LEMMA DutyStep == DutyInv /\ [ConsensusNext]_allVars => DutyInv'
<1> SUFFICES ASSUME DutyInv, [ConsensusNext]_allVars
             PROVE  DutyInv'
    OBVIOUS
<1>1. ProducerInv'
  <2>1. [Next]_vars
    BY DEF ConsensusNext, OtherStep, SelectDuty, Attest, DutyDone, Next,
           Produce, BlockDone, allVars
  <2>2. QED
    BY <2>1, ProducerStep DEF DutyInv
<1>2. now' <= MaxTime
  <2>1. now \in Nat /\ MaxTime \in Nat /\ now <= MaxTime
    BY BlockProducerAssumption DEF DutyInv, ProducerInv, TypeOK
  <2>2. CASE Tick
    BY <2>1, <2>2 DEF Tick
  <2>3. CASE ~Tick
    <3>1. now' = now
      BY <2>3 DEF ConsensusNext, OtherStep, SelectDuty, Attest, DutyDone,
                  BlockDone, BlockFails, EndBlock, Fire, BeginBlock,
                  BeginCommit, BootLooks, BootFails, GenesisCreated,
                  StartRequested, StopRequested, clockAndBoot, allVars, vars
    <3>2. QED
      BY <2>1, <3>1
  <2>4. QED
    BY <2>2, <2>3
<1>3. DutyOfASlot'
  <2>1. ASSUME NEW l \in Loop, SelectDuty(l)
        PROVE  DutyOfASlot'
    <3>3. CurrentSlot \in 0..MaxTime
      BY <2>1, SelectedSlot
    <3>4. \A k \in Loop : duty'[k] \in {duty[k], Duty(CurrentSlot)}
      BY <2>1 DEF SelectDuty, DutyInv
    <3>5. QED
      BY <3>3, <3>4 DEF DutyInv, DutyOfASlot
  <2>2. ASSUME NEW l \in Loop, DutyDone(l)
        PROVE  DutyOfASlot'
    BY <2>2 DEF DutyDone, DutyInv, DutyOfASlot
  <2>3. CASE UNCHANGED duty
    BY <2>3 DEF DutyInv, DutyOfASlot
  <2>4. QED
    BY <2>1, <2>2, <2>3
       DEF ConsensusNext, OtherStep, Attest, consensusVars, allVars
<1>4. DOMAIN duty' = Loop
    BY DEF DutyInv, ConsensusNext, OtherStep, SelectDuty, Attest, DutyDone,
           consensusVars, allVars
<1>5. QED
    BY <1>1, <1>2, <1>3, <1>4 DEF DutyInv

\* In every slot, for every list of validators, every seed and every parameter
\* of the generator, a committee consists of as many different validators as it
\* should.
THEOREM CommitteesAreAlwaysSound == ConsensusSpec => []CommitteesAreSound
<1>1. ASSUME DutyInv, NEW l \in Loop, duty[l] # NoDuty
      PROVE  DistinctMembers(duty[l].committee) /\ RightSize(duty[l].committee)
  <2>1. PICK slot \in 0..MaxTime : duty[l] = Duty(slot)
    BY <1>1 DEF DutyInv, DutyOfASlot
  <2>2. duty[l].committee = SelectCommittee(slot)
    BY <2>1 DEF Duty
  <2>3. QED
    BY <2>2, CommitteeIsSound
<1>2. DutyInv => CommitteesAreSound
    BY <1>1 DEF CommitteesAreSound, DistinctMembers, RightSize
<1>3. QED
    BY <1>2, DutyInit, DutyStep, PTL DEF ConsensusSpec

-----------------------------------------------------------------------------
(* Supermajorities *)

\* Two supermajorities of one committee, of whatever size, have a member in
\* common: two blocks cannot both be attested by two thirds unless somebody
\* attests both.
THEOREM SupermajoritiesMeet ==
    ASSUME NEW Committee, IsFiniteSet(Committee), Committee # {},
           NEW A \in SUBSET Committee, NEW B \in SUBSET Committee,
           HasSupermajority(Cardinality(A), Cardinality(Committee)),
           HasSupermajority(Cardinality(B), Cardinality(Committee))
    PROVE  A \cap B # {}
<1> DEFINE n == Cardinality(Committee)
           a == Cardinality(A)
           b == Cardinality(B)
           u == Cardinality(A \cup B)
<1>1. IsFiniteSet(A) /\ IsFiniteSet(B) /\ IsFiniteSet(A \cup B)
    BY FS_Subset, FS_Union
<1>2. n \in Nat /\ a \in Nat /\ b \in Nat /\ u \in Nat
    BY <1>1, FS_CardinalityType
<1>3. n # 0
    BY FS_EmptySet
<1>4. u <= n
    BY FS_Subset
<1>5. SUFFICES ASSUME A \cap B = {}
               PROVE  FALSE
    OBVIOUS
<1>6. u = a + b
  <2>1. u = a + b - Cardinality(A \cap B)
    BY <1>1, FS_Union
  <2>2. Cardinality(A \cap B) = 0
    BY <1>5, FS_EmptySet
  <2>3. a + b - 0 = a + b
    BY <1>2
  <2>4. QED
    BY <2>1, <2>2, <2>3
<1>7. a >= (2 * n + 2) \div 3 /\ b >= (2 * n + 2) \div 3
    BY DEF HasSupermajority, Required
<1> HIDE DEF n, a, b, u
<1>8. 3 * ((2 * n + 2) \div 3) >= 2 * n
    BY <1>2, SMT
<1>9. QED
    BY <1>2, <1>3, <1>4, <1>6, <1>7, <1>8, SMT

\* ceil(2n / 3): for the 128 of the constants 86 are required, not the 85 that
\* the comment on hasSupermajority names (consensus.service.ts:103).
THEOREM RequiredOf128 == Required(128) = 86
    BY SMT DEF Required

-----------------------------------------------------------------------------
(* Rewards *)

\* distributeRewards never pays more than the proposer's reward and the pool of
\* the committee, and keeps back less than one Wei for each attester.
THEOREM RewardsAreBounded ==
    ASSUME NEW count \in Nat
    PROVE  /\ RewardsOf(count) <= PROPOSER_REWARD + COMMITTEE_REWARD_POOL
           /\ count > 0 => RewardsOf(count) >
                  PROPOSER_REWARD + COMMITTEE_REWARD_POOL - count
<1>1. PROPOSER_REWARD \in Nat /\ COMMITTEE_REWARD_POOL \in Nat
    BY ConsensusAssumption
<1>2. CASE count = 0
    BY <1>1, <1>2, SMT DEF RewardsOf
<1>3. CASE count > 0
  <2> DEFINE share == COMMITTEE_REWARD_POOL \div count
  <2>1. /\ share \in Nat
        /\ share * count <= COMMITTEE_REWARD_POOL
        /\ COMMITTEE_REWARD_POOL < (share + 1) * count
    BY <1>1, <1>3, SMT
  <2>2. RewardsOf(count) = PROPOSER_REWARD + count * share
    BY <1>3 DEF RewardsOf, RewardPerAttester
  <2> HIDE DEF share
  <2>3. /\ count * share \in Nat /\ count * share <= COMMITTEE_REWARD_POOL
        /\ COMMITTEE_REWARD_POOL < count * share + count
    BY <2>1, SMT
  <2>4. QED
    BY <1>1, <2>2, <2>3, SMT
<1>4. QED
    BY <1>2, <1>3, SMT
=============================================================================
