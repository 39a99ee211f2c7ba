-------------------------- MODULE MCNoSupplyToken --------------------------
EXTENDS NoSupplyToken, TLC

CONSTANTS alice, bob

MCClients == {alice, bob}
MCInitNonce == <<0>>
MCOtherColors == {}

\* recipientForCoinPublicKey gives left branches only; the zero key passes here.
MCRecipients == {Left(k) : k \in MCClients \cup {ZeroKey}}

\* A coin of the zero color, which is what _color holds before any mint.
ZeroColorCoin == {Coin(<<-9>>, ZeroColor, 1, alice)}
=============================================================================
