------------------------------ MODULE MCAbiCache ------------------------------
(* AbiCache on short chains of small blocks.                                 *)
EXTENDS AbiCache

CONSTANTS a, b

\* In transaction t of the block.
Act(t) == [kind |-> "act", tx |-> t, rest |-> 0]
Set(t, abi) == [kind |-> "setabi", tx |-> t, abi |-> abi, rest |-> 0]

\* A first deployment and its use in one block, an upgrade between two
\* actions, the same upgrade in two transactions and within one, a clear alone
\* and a repeated one, bytes that do not parse.
MCBlocks ==
    { <<>>,
      <<Set(1, a), Act(1)>>,
      <<Act(1), Set(2, b), Act(3)>>,
      <<Set(1, b), Set(2, a), Set(3, b)>>,
      <<Set(1, b), Set(1, a), Set(1, b), Act(1)>>,
      <<Set(1, Cleared), Act(2)>>,
      <<Set(1, Cleared), Set(1, a), Set(1, Cleared)>>,
      <<Set(1, Broken)>> }
=============================================================================
