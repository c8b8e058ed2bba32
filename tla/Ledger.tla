------------------------------- MODULE Ledger -------------------------------
(***************************************************************************)
(* What BlockService (src/src/block/block.service.ts) and its producer     *)
(* promise whoever reads blocks and accounts: a chain that only grows, at  *)
(* its end, and the accounts that its blocks leave behind.  A block and    *)
(* its effect come in one instant.  There is no disk here, no cache, no    *)
(* journal and no restart; all that is left of those is that a block can   *)
(* be lost with a part of its effect done.                                 *)
(***************************************************************************)
EXTENDS Naturals, Sequences

CONSTANTS
    Acct,               \* the accounts' addresses
    None,               \* no account
    Batches,            \* lists of transactions that a block may have
    NoParent,           \* the parent of the first block
    Endowed(_),         \* what the first block makes of the accounts
    AfterBlock(_, _)    \* what one with these transactions makes of them

VARIABLES
    chain,              \* the blocks, the first one first
    state               \* the accounts

ledgerVars == <<chain, state>>

LedgerInit ==
    /\ chain = <<>>
    /\ state = [a \in Acct |-> None]

\* The transactions that the next block may have, and what it does with them.
Bodies == IF chain = <<>> THEN {<<>>} ELSE Batches
Effect(txs) == IF chain = <<>> THEN Endowed(state) ELSE AfterBlock(state, txs)

\* It has the next number, names the last block, and has a hash of its own.
Follows(block) ==
    /\ block.number = Len(chain)
    /\ block.parentHash = IF chain = <<>> THEN NoParent
                                          ELSE chain[Len(chain)].block.hash
    /\ \A i \in DOMAIN chain : chain[i].block.hash # block.hash

Grow ==
    LET added == chain'[Len(chain')]
    IN  /\ Len(chain') = Len(chain) + 1
        /\ chain' = Append(chain, added)
        /\ Follows(added.block)
        /\ added.transactions \in Bodies
        /\ state' = Effect(added.transactions)

\* A block is lost.  No account is left with anything but what it was or what
\* the block made of it.
Lose ==
    /\ UNCHANGED chain
    /\ DOMAIN state' = Acct
    /\ \E txs \in Bodies :
          LET effect == Effect(txs)
          IN  \A a \in Acct : state'[a] \in {state[a], effect[a]}

LedgerNext == Grow \/ Lose

LedgerSpec == LedgerInit /\ [][LedgerNext]_ledgerVars
=============================================================================
