------------------------------ MODULE Consensus ------------------------------
(***************************************************************************)
(* Who makes a block and who attests it: src/src/validator/                *)
(* validator.service.ts and src/src/consensus/consensus.service.ts, as     *)
(* produceBlock calls them between the steps of BlockProducer.             *)
(*                                                                         *)
(* Proposer and committee are selected for the slot in which the timer     *)
(* goes off; the attestations name the slot it is when the block has been  *)
(* created.  validateBlock answers true to everything, so every member of  *)
(* the committee attests.  No validator is activated or deactivated while  *)
(* the node runs.  A signature is a hash of the other fields.              *)
(***************************************************************************)
EXTENDS BlockProducer, Sequences

CONSTANTS
    Validators,            \* the active ones, in the order of the file
    COMMITTEE_SIZE,
    GenerateSeed(_, _),    \* of a slot and a purpose: a hash as a number
    Multiplier, Modulus,   \* of shuffle: 48271 and 2147483647
    PROPOSER_REWARD, COMMITTEE_REWARD_POOL   \* in Wei

ASSUME ConsensusAssumption ==
    /\ Validators \in Seq(STRING)
    /\ \A i, j \in DOMAIN Validators : Validators[i] = Validators[j] => i = j
    /\ {COMMITTEE_SIZE, Multiplier, Modulus} \subseteq Nat \ {0}
    /\ {PROPOSER_REWARD, COMMITTEE_REWARD_POOL} \subseteq Nat

ASSUME SeedAssumption ==
    \A slot \in 0..MaxTime : \A purpose \in {"proposer", "committee"} :
        GenerateSeed(slot, purpose) \in Nat

VARIABLES
    duty,          \* produceBlock's proposer and committee in each chain
    blocks,        \* history: blocks that createBlock has returned
    attestations   \* history: the attestations that name the latest slot

consensusVars == <<duty, blocks, attestations>>
allVars == <<vars, consensusVars>>

-----------------------------------------------------------------------------
(* Selection *)

SelectProposer(slot) ==
    Validators[(GenerateSeed(slot, "proposer") % Len(Validators)) + 1]

\* Mutation: one half of the swap.
SwappedHalf(array, i, j) == [array EXCEPT ![i] = array[j]]

Swapped(array, i, j) == [array EXCEPT ![i] = array[j], ![j] = array[i]]

\* One turn of the loop: the next number of a linear congruential generator,
\* and a swap of the i-th from the left, the last that has not been swapped.
Turn(last, i) ==
    LET next == (last.seed * Multiplier) % Modulus
    IN  [seed |-> next, array |-> Swapped(last.array, i, (next % i) + 1)]

\* Fisher-Yates from the end, after each number of turns.
Turns(array, seed) ==
    LET turn[k \in 0..Len(array)] ==
            IF k = 0 THEN [seed |-> seed, array |-> array]
                     ELSE Turn(turn[k - 1], Len(array) - k + 1)
    IN  turn

Shuffle(array, seed) ==
    LET n == Len(array)
    IN  Turns(array, seed)[IF n = 0 THEN 0 ELSE n - 1].array

\* All of them when they are too few to choose from.
SelectCommittee(slot) ==
    IF Len(Validators) < COMMITTEE_SIZE THEN Validators
    ELSE SubSeq(Shuffle(Validators, GenerateSeed(slot, "committee")),
                1, COMMITTEE_SIZE)

Elements(seq) == {seq[i] : i \in DOMAIN seq}

-----------------------------------------------------------------------------
(* Attestations and rewards *)

Attestation(slot, block, validator) ==
    [slot |-> slot, block |-> block, validator |-> validator]

CollectAttestations(block, committee) ==
    [i \in DOMAIN committee |-> Attestation(CurrentSlot, block, committee[i])]

\* ceil(2n / 3)
Required(committeeSize) == (2 * committeeSize + 2) \div 3

HasSupermajority(count, committeeSize) == count >= Required(committeeSize)

RewardPerAttester(count) == COMMITTEE_REWARD_POOL \div count

\* What distributeRewards pays in all.
RewardsOf(count) ==
    PROPOSER_REWARD + IF count > 0 THEN count * RewardPerAttester(count) ELSE 0

-----------------------------------------------------------------------------
(* produceBlock *)

NoDuty == [proposer |-> None, committee |-> <<>>]

Duty(slot) == [proposer |-> SelectProposer(slot),
               committee |-> SelectCommittee(slot)]

ConsensusInit ==
    /\ Init
    /\ duty = [l \in Loop |-> NoDuty]
    /\ blocks = 0
    /\ attestations = {}

\* Proposer and committee of the slot in which the timer goes off are kept for
\* the rest of produceBlock.
SelectDuty(l) ==
    /\ Fire(l)
    /\ duty' = [duty EXCEPT ![l] = Duty(CurrentSlot)]
    /\ UNCHANGED <<blocks, attestations>>

\* createBlock has returned and the committee of the slot attests; commitBlock
\* begins if they are enough.
Attest(l) ==
    LET committee == duty[l].committee
        collected == CollectAttestations(blocks + 1, committee)
    IN  /\ BeginCommit(l)
        /\ HasSupermajority(Len(collected), Len(committee))
        /\ blocks' = blocks + 1
        /\ attestations' = {a \in attestations : a.slot = CurrentSlot}
                               \cup Elements(collected)
        /\ UNCHANGED duty

\* produceBlock returns.
DutyDone(l) ==
    /\ BlockDone(l) \/ BlockFails(l)
    /\ duty' = [duty EXCEPT ![l] = NoDuty]
    /\ UNCHANGED <<blocks, attestations>>

OtherStep ==
    /\ \/ Tick \/ GenesisCreated \/ BootLooks \/ BootFails
       \/ StartRequested \/ StopRequested
       \/ \E l \in Loop : BeginBlock(l)
    /\ UNCHANGED consensusVars

ConsensusNext ==
    \/ OtherStep
    \/ \E l \in Loop : SelectDuty(l) \/ Attest(l) \/ DutyDone(l)

ConsensusSpec == ConsensusInit /\ [][ConsensusNext]_allVars

\* Every awaited step of produceBlock is answered.
FairConsensusSpec ==
    /\ ConsensusSpec
    /\ \A l \in Loop :
          WF_allVars(\/ BeginBlock(l) /\ UNCHANGED consensusVars
                     \/ Attest(l)
                     \/ BlockDone(l) /\ DutyDone(l))

-----------------------------------------------------------------------------
(* Properties *)

\* Through the shuffle of every slot a committee consists of as many different
\* active validators as it should, so that its supermajority is one of
\* validators and not of repeated names.
CommitteesAreSound ==
    \A l \in Loop :
        duty[l] # NoDuty =>
            LET committee == duty[l].committee
            IN  /\ \A i, j \in DOMAIN committee :
                      committee[i] = committee[j] => i = j
                /\ Len(committee) = IF Len(Validators) < COMMITTEE_SIZE
                                    THEN Len(Validators) ELSE COMMITTEE_SIZE

\* Until the producer is first stopped all attestations that name a slot are
\* for one block, also where a block took so long that they name a later slot
\* than the one whose committee they come from: nobody attests two blocks.
\* (Slots do not decrease, so those that name the latest slot are enough.)
OneBlockPerSlot ==
    ~wasStopped =>
        \A a, b \in attestations : a.slot = b.slot => a.block = b.block
=============================================================================
