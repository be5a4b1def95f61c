------------------------ MODULE MCTransactionHistory ------------------------
(***************************************************************************)
(* Ether, a token with 6 decimals, one with none, and one nobody knows.    *)
(***************************************************************************)
EXTENDS TransactionHistory

CONSTANTS usdc, ticket, obscure

MCContracts == {usdc, ticket, obscure}
MCMetadata == [c \in MCContracts |-> CASE c = usdc -> 6 [] c = ticket -> 0 [] OTHER -> None]

Ether(w) == [way |-> w, category |-> "external", contract |-> None, decimal |-> None]
Token(w, c, d) == [way |-> w, category |-> "erc20", contract |-> c, decimal |-> d]

\* A payment, a swap whose proceeds come second or first, a transfer to oneself,
\* and tokens with and without decimals of their own.
MCShapes ==
    { <<Ether("out")>>, <<Ether("self")>>,
      <<Token("in", usdc, 6)>>, <<Token("in", usdc, None)>>, <<Token("in", obscure, None)>>,
      <<Token("in", ticket, 0)>>, <<Token("in", ticket, None)>>,
      <<Ether("out"), Token("in", usdc, None)>>,
      <<Token("in", usdc, 6), Token("out", obscure, None)>> }
=============================================================================
