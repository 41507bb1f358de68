------------------------------- MODULE MCWatch -------------------------------
(* One watch of a wallet's incoming transfers, for TLC. *)
EXTENDS Watch

To(wallet, value) ==
    [contract |-> "usdc", from |-> "other", to |-> wallet, value |-> value]

MCSelectors ==
    {[contract |-> "usdc", wallet |-> "w", direction |-> "incoming", minAmount |-> 2]}

\* Nothing, or two hits among transfers that are too small or another's.
MCContents ==
    {<<>>, <<To("w", 1), To("w", 2), To("other", 5), To("w", 3)>>}
==============================================================================
