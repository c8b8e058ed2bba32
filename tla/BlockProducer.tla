--------------------------- MODULE BlockProducer ---------------------------
(***************************************************************************)
(* When blocks are made: src/src/block/producer/block.producer.ts.         *)
(*                                                                         *)
(* start() arms a timer for the next slot; the timer's callback makes a    *)
(* block and arms the next timer.  That chain is a Loop here.  start() and *)
(* stop() are also requests (POST block/mining/start, block/mining/stop)   *)
(* that arrive while a block is being made.  All the chains make their     *)
(* blocks on the one StateManager, whose journal stack is known here only  *)
(* by the chain whose startBlock it goes back to.                          *)
(***************************************************************************)
EXTENDS Integers

CONSTANTS
    Loop,          \* chains of timer callbacks
    SlotLength,    \* BLOCK_TIME
    MaxAttempts,   \* maxAttempts of onApplicationBootstrap
    MaxTime,       \* bound on the clock
    None           \* null

ASSUME BlockProducerAssumption ==
    /\ SlotLength \in Nat \ {0}
    /\ {MaxAttempts, MaxTime} \subseteq Nat
    /\ None \notin Loop \cup Nat

VARIABLES
    now,             \* Date.now()
    genesisBlock,    \* timestamp of the stored genesis block, None without
    boot,            \* onApplicationBootstrap: "waiting", "done", "failed"
    attempts,
    genesisTime,
    isRunning,
    currentTimeout,  \* the chain that armed the timer last
    loop,            \* where each chain is
    journalOf,       \* whose block the journal stack holds
    lastSlot,        \* history: the slot of the block begun last
    wasStopped       \* history: stop() has been requested

vars == <<now, genesisBlock, boot, attempts, genesisTime, isRunning,
          currentTimeout, loop, journalOf, lastSlot, wasStopped>>

clockAndBoot == <<now, genesisBlock, boot, attempts, genesisTime>>

NoLoop == [step |-> "free", due |-> 0]

Producing == {"selecting", "executing", "committing"}

\* A restarted node has a genesis block, a new one has not.
Init ==
    /\ now = 0
    /\ genesisBlock \in {None, 0}
    /\ boot = "waiting" /\ attempts = 0
    /\ genesisTime = None
    /\ isRunning = FALSE
    /\ currentTimeout = None
    /\ loop = [l \in Loop |-> NoLoop]
    /\ journalOf = None
    /\ lastSlot = -1
    /\ wasStopped = FALSE

CurrentSlot == (now - genesisTime) \div SlotLength

-----------------------------------------------------------------------------
(* start, stop and scheduleNextBlock *)

\* Mutation: the slot that has begun is taken for the next.
ScheduledNow(genesis) ==
    LET slot == (now - genesis) \div SlotLength
    IN  [step |-> "waiting", due |-> genesis + slot * SlotLength]

\* scheduleNextBlock, given the genesis time that is known by then.
Scheduled(genesis) ==
    LET slot == (now - genesis) \div SlotLength
    IN  [step |-> "waiting", due |-> genesis + (slot + 1) * SlotLength]

\* Mutation: isRunning is not looked at.
StartAgain(genesis) ==
    IF genesis = None
    THEN UNCHANGED <<isRunning, currentTimeout, loop>>
    ELSE \E l \in Loop :
            /\ loop[l].step = "free"
            /\ isRunning' = TRUE
            /\ loop' = [loop EXCEPT ![l] = Scheduled(genesis)]
            /\ currentTimeout' = l

\* start(): nothing when it runs already, an error without a genesis time.
Start(genesis) ==
    IF isRunning \/ genesis = None
    THEN UNCHANGED <<isRunning, currentTimeout, loop>>
    ELSE \E l \in Loop :
            /\ loop[l].step = "free"
            /\ isRunning' = TRUE
            /\ loop' = [loop EXCEPT ![l] = Scheduled(genesis)]
            /\ currentTimeout' = l

\* stop(): the timer armed last is cleared, if it has not gone off yet.
Stop ==
    /\ isRunning
    /\ isRunning' = FALSE
    /\ currentTimeout' = None
    /\ loop' = [l \in Loop |->
                   IF l = currentTimeout /\ loop[l].step = "waiting"
                   THEN NoLoop ELSE loop[l]]

StartRequested ==
    /\ Start(genesisTime)
    /\ UNCHANGED <<clockAndBoot, journalOf, lastSlot, wasStopped>>

StopRequested ==
    /\ Stop
    /\ wasStopped' = TRUE
    /\ UNCHANGED <<clockAndBoot, journalOf, lastSlot>>

-----------------------------------------------------------------------------
(* onApplicationBootstrap *)

\* BlockService.onApplicationBootstrap stores the genesis block.
GenesisCreated ==
    /\ genesisBlock = None
    /\ genesisBlock' = now
    /\ UNCHANGED <<now, boot, attempts, genesisTime, isRunning,
                   currentTimeout, loop, journalOf, lastSlot, wasStopped>>

\* Mutation: the attempts are not counted off.
BootLooksOn ==
    /\ boot = "waiting"
    /\ IF genesisBlock = None
       THEN /\ attempts' = attempts + 1
            /\ UNCHANGED <<boot, genesisTime, isRunning, currentTimeout, loop>>
       ELSE /\ boot' = "done"
            /\ genesisTime' = genesisBlock
            /\ Start(genesisBlock)
            /\ UNCHANGED attempts
    /\ UNCHANGED <<now, genesisBlock, journalOf, lastSlot, wasStopped>>

BootLooks ==
    /\ boot = "waiting"
    /\ attempts < MaxAttempts
    /\ IF genesisBlock = None
       THEN /\ attempts' = attempts + 1
            /\ UNCHANGED <<boot, genesisTime, isRunning, currentTimeout, loop>>
       ELSE /\ boot' = "done"
            /\ genesisTime' = genesisBlock
            /\ Start(genesisBlock)
            /\ UNCHANGED attempts
    /\ UNCHANGED <<now, genesisBlock, journalOf, lastSlot, wasStopped>>

BootFails ==
    /\ boot = "waiting"
    /\ attempts = MaxAttempts
    /\ boot' = "failed"
    /\ UNCHANGED <<now, genesisBlock, attempts, genesisTime, isRunning,
                   currentTimeout, loop, journalOf, lastSlot, wasStopped>>

-----------------------------------------------------------------------------
(* The timer and produceBlock *)

Tick ==
    /\ now < MaxTime
    /\ now' = now + 1
    /\ UNCHANGED <<genesisBlock, boot, attempts, genesisTime, isRunning,
                   currentTimeout, loop, journalOf, lastSlot, wasStopped>>

\* The timer goes off, not before it is due; proposer and committee are
\* selected for the slot it is by now.
Fire(l) ==
    /\ loop[l].step = "waiting"
    /\ now >= loop[l].due
    /\ loop' = [loop EXCEPT ![l].step = "selecting"]
    /\ lastSlot' = CurrentSlot
    /\ UNCHANGED <<clockAndBoot, isRunning, currentTimeout, journalOf,
                   wasStopped>>

\* startBlock empties the journal stack; createBlock begins.
BeginBlock(l) ==
    /\ loop[l].step = "selecting"
    /\ loop' = [loop EXCEPT ![l].step = "executing"]
    /\ journalOf' = l
    /\ UNCHANGED <<clockAndBoot, isRunning, currentTimeout, lastSlot,
                   wasStopped>>

\* createBlock returns and the committee attests; commitBlock begins.
BeginCommit(l) ==
    /\ loop[l].step = "executing"
    /\ loop' = [loop EXCEPT ![l].step = "committing"]
    /\ UNCHANGED <<clockAndBoot, isRunning, currentTimeout, journalOf,
                   lastSlot, wasStopped>>

\* produceBlock returns, nobody's block is open, and scheduleNextBlock runs.
EndBlock(l) ==
    /\ loop' = [loop EXCEPT ![l] = Scheduled(genesisTime)]
    /\ currentTimeout' = l
    /\ journalOf' = None
    /\ UNCHANGED <<clockAndBoot, isRunning, lastSlot, wasStopped>>

\* Mutation: no timer follows the block.
EndChain(l) ==
    /\ loop[l].step \in Producing
    /\ loop' = [loop EXCEPT ![l] = NoLoop]
    /\ journalOf' = None
    /\ UNCHANGED <<clockAndBoot, isRunning, currentTimeout, lastSlot,
                   wasStopped>>

\* commitBlock is done, the block is saved and the rewards are paid.
BlockDone(l) ==
    /\ loop[l].step = "committing"
    /\ EndBlock(l)

\* A step throws, or the attestations are too few: rollbackBlock.
BlockFails(l) ==
    /\ loop[l].step \in Producing
    /\ EndBlock(l)

Produce(l) == BeginBlock(l) \/ BeginCommit(l) \/ BlockDone(l)

Next ==
    \/ Tick
    \/ GenesisCreated
    \/ BootLooks
    \/ BootFails
    \/ StartRequested
    \/ StopRequested
    \/ \E l \in Loop : Fire(l) \/ Produce(l) \/ BlockFails(l)

Spec == Init /\ [][Next]_vars

\* Every awaited step of produceBlock is answered.
FairSpec == Spec /\ \A l \in Loop : WF_vars(Produce(l))

-----------------------------------------------------------------------------
(* Properties *)

Times == Nat \cup {None}

TypeOK ==
    /\ now \in Nat
    /\ {genesisBlock, genesisTime} \subseteq Times
    /\ boot \in {"waiting", "done", "failed"}
    /\ attempts \in 0..MaxAttempts
    /\ isRunning \in BOOLEAN
    /\ {currentTimeout, journalOf} \subseteq Loop \cup {None}
    /\ loop \in [Loop -> [step : Producing \cup {"free", "waiting"},
                          due : Nat]]
    /\ lastSlot \in Nat \cup {-1}
    /\ wasStopped \in BOOLEAN

\* While a block is executed and committed the journal stack holds its
\* changes and nobody else's: no other block was started on top of it or
\* rolled back under it.
ContextIsItsOwn ==
    \A l \in Loop :
        loop[l].step \in {"executing", "committing"} => journalOf = l

\* So it is until the producer is first stopped, however long blocks take,
\* however often they fail and however often start() is requested again.
ContextIsItsOwnUntilStopped == ~wasStopped => ContextIsItsOwn

\* A slot has one proposer, who makes one block: until the producer is first
\* stopped every block is begun in a later slot than the one before.
SlotsAdvance ==
    [][\A l \in Loop :
          Fire(l) /\ ~wasStopped => CurrentSlot > lastSlot]_vars

\* A producer that says it runs has a chain that will make another block,
\* through failing blocks and through stops and starts while one is made.
RunningIsAlive ==
    isRunning => \E l \in Loop : loop[l].step # "free"

\* A block that was begun, kept or failed, is followed by another timer.
BlocksEnd ==
    \A l \in Loop : (loop[l].step \in Producing) ~> (loop[l].step = "waiting")
=============================================================================
