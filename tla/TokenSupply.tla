---------------------------- MODULE TokenSupply ----------------------------
(***************************************************************************)
(* The supply of the token as the coins themselves define it, and the      *)
(* promise of SupplyViews that TokenLedger keeps.                          *)
(***************************************************************************)
EXTENDS TokenLedger, FiniteSetsExt

ValueOf(coins) == MapThenSumSet(LAMBDA c : c.value, coins)

OfColor(coins, color) == {c \in coins : c.color = color}

\* What some wallet can spend.
Circulating ==
  ValueOf({c \in OfColor(pool, TokenColor) : c.owner \in Clients})

\* Value is neither created nor lost outside mint and a protocol burn: the
\* unspent coins of the token add up to what the public deltas say, those of
\* every other color to what there was at deployment.
Conservation ==
  /\ ValueOf(OfColor(pool, TokenColor)) = published
  /\ \A color \in Colors \ {TokenColor} :
       ValueOf(OfColor(pool, color)) = ValueOf(OfColor(InitialCoins, color))

\* burn destroys this token only.  Before the first mint _color holds 32 zero
\* bytes, so a coin of that color passes the color assertion; what stops it is
\* that _totalSupply is still 0, which leaves amount 0 and hands all of it back.
OnlyTheTokenIsDestroyed ==
  ValueOf({c \in pool : c.color # TokenColor /\ c.owner = ZeroKey}) = 0

\* The supply views of the running system, and the promise they refine: each
\* transaction that lands is one atomic supply operation or none, so both
\* public counters stay upper bounds on what circulates.
Views == INSTANCE SupplyViews
           WITH total <- ledger.totalSupply,
                fold  <- published,
                circ  <- Circulating

KeepsSupplyViews == Views!Spec

\* README, "Supply auditability": the fold and _totalSupply are each an upper
\* bound on the circulating supply, and miss different burns.
BothViewsBoundCirculation == Views!BothBoundCirculation
=============================================================================
