--------------------------- MODULE MCTokenLedger ---------------------------
EXTENDS TokenSupply, TLC

CONSTANTS alice, bob

MCClients == {alice, bob}
MCInitNonce == <<0>>
MCOtherColors == {}

\* recipientForCoinPublicKey and its contract counterpart, zero key included.
CanonicalRecipients == {Left(k) : k \in MCClients \cup {ZeroKey}} \cup {Right(Self)}
AliceOnly == {Left(alice)}
\* The zero key, with another value than zero in the branch that means nothing.
ZeroKeyBesideSelf == {[Left(ZeroKey) EXCEPT !.right = Self]}

NoCoins == {}
\* A coin of the zero color, which is what _color holds before any mint.
ZeroColorCoin == {Coin(<<-9>>, ZeroColor, 1, alice)}
=============================================================================
