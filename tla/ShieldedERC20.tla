--------------------------- MODULE ShieldedERC20 ---------------------------
(***************************************************************************)
(* contracts/ShieldedERC20.compact, with the standard-library circuits it  *)
(* calls (as compiled into contract/index.js).                             *)
(*                                                                         *)
(* A circuit does not run on the chain: the caller runs it on a snapshot   *)
(* of the contract's cells and submits a transcript.  Every cell it read   *)
(* is recorded as a popeq, which the node compares with the cell's value   *)
(* when the transaction lands; every cell it wrote is recorded with the    *)
(* value to store.  A circuit is therefore an operator from a snapshot and *)
(* its arguments to a transcript:                                          *)
(*                                                                         *)
(*   reads, writes   cells the transcript asserts, and stores              *)
(*   transients      coins created for the contract and spent by it in the *)
(*                   same transaction                                      *)
(*   outputs         coins it creates that outlive the transaction         *)
(*   mints           the value of its shieldedMints effect                 *)
(*                                                                         *)
(* A coin is its public description (nonce, color, value) and its owner:   *)
(* together they are what both its commitment and its nullifier hash.      *)
(***************************************************************************)
EXTENDS Integers, Sequences, Utils

CONSTANTS
  ZeroColor,    \* the 32 zero bytes: an unset _color, and a color of its own
  TokenColor,   \* tokenType(_domain, self)
  OtherColors,  \* colors of coins of other contracts
  MaxUint64,    \* bound of mint's amount
  MaxUint128    \* bound of the _totalSupply cell

ASSUME ColorAssumption ==
  /\ TokenColor # ZeroColor
  /\ {TokenColor, ZeroColor} \cap OtherColors = {}

ASSUME WidthAssumption ==
  /\ MaxUint64 \in Nat
  /\ MaxUint128 \in Nat
  /\ MaxUint64 <= MaxUint128

Colors == {ZeroColor, TokenColor} \cup OtherColors

(***************************************************************************)
(* Nonces.  The hashes that derive one nonce from another are modelled as  *)
(* free constructors on sequences: a positive element is a mint index, a   *)
(* negative one the tag that separates the other derivations.              *)
(***************************************************************************)
Nonces == Seq(Int)

SentTag == -1

ChangeTag == -2

\* Mutant: the index is not hashed in.
EvolveNonceStuck(index, nonce) == nonce

EvolveNonce(index, nonce) == Append(nonce, index)

SentNonce(nonce) == Append(nonce, SentTag)

ChangeNonce(nonce) == Append(nonce, ChangeTag)

Coins == [nonce : Nonces, color : Colors, value : Nat, owner : Owners]

Coin(nonce, color, value, owner) ==
  [nonce |-> nonce, color |-> color, value |-> value, owner |-> owner]

\* mintShieldedToken: the coin the shieldedMints effect pays for.
MintedCoin(amount, nonce, recipient) ==
  Coin(nonce, TokenColor, amount, OwnerOf(recipient))

\* receiveShielded: a coin of the same description, owned by the contract.
Received(coin) == [coin EXCEPT !.owner = Self]

\* The cells some circuit writes; the sealed ones never change.
Ledgers == [ counter     : Nat,
             nonce       : Nonces,
             color       : {ZeroColor, TokenColor},
             totalSupply : 0 .. MaxUint128 ]

\* The contract as its constructor leaves it.
InitialLedger(initNonce) ==
  [counter |-> 0, nonce |-> initNonce, color |-> ZeroColor, totalSupply |-> 0]

(***************************************************************************)
(* mint                                                                    *)
(***************************************************************************)
\* Mutant: neither width is checked.
MintSucceedsUnchecked(s, recipient, amount) == ~IsKeyOrAddressZero(recipient)

MintSucceeds(s, recipient, amount) ==
  /\ amount \in 0 .. MaxUint64
  /\ ~IsKeyOrAddressZero(recipient)
  /\ s.totalSupply + amount <= MaxUint128

\* Mutant: the counter is used and not advanced.
MintWithoutIncrement(s, recipient, amount) ==
  LET newNonce == EvolveNonce(s.counter + 1, s.nonce)
  IN  [ reads      |-> [counter |-> s.counter, totalSupply |-> s.totalSupply],
        writes     |-> [color |-> TokenColor, totalSupply |-> s.totalSupply + amount],
        transients |-> {},
        outputs    |-> {MintedCoin(amount, newNonce, recipient)},
        mints      |-> amount ]

Mint(s, recipient, amount) ==
  LET index    == s.counter + 1
      newNonce == EvolveNonce(index, s.nonce)
  IN  [ reads      |-> s,
        writes     |-> [ counter     |-> index,
                         nonce       |-> newNonce,
                         color       |-> IF s.color = ZeroColor
                                           THEN TokenColor ELSE s.color,
                         totalSupply |-> s.totalSupply + amount ],
        transients |-> {},
        outputs    |-> {MintedCoin(amount, newNonce, recipient)},
        mints      |-> amount ]

(***************************************************************************)
(* burn                                                                    *)
(***************************************************************************)
\* Mutant: the change repeats the whole value of the coin.
SendShieldedFullChange(coin, target, value) ==
  [ spent  |-> Received(coin),
    sent   |-> Coin(SentNonce(coin.nonce), coin.color, value, target),
    change |-> IF coin.value = value THEN {}
               ELSE {Coin(ChangeNonce(coin.nonce), coin.color, coin.value, Self)} ]

\* sendShielded: the contract spends a coin it has just received, sends
\* value to target and returns what is left to itself.
SendShielded(coin, target, value) ==
  LET rest == coin.value - value
  IN  [ spent  |-> Received(coin),
        sent   |-> Coin(SentNonce(coin.nonce), coin.color, value, target),
        change |-> IF rest = 0 THEN {}
                   ELSE {Coin(ChangeNonce(coin.nonce), coin.color, rest, Self)} ]

\* Mutant: a coin of any color is accepted.
BurnSucceedsAnyColor(s, coin, amount) ==
  coin.value >= amount /\ s.totalSupply >= amount

BurnSucceeds(s, coin, amount) ==
  /\ coin.color = s.color
  /\ coin.value >= amount
  /\ s.totalSupply >= amount

\* Mutant: _totalSupply is stored without being asserted.
BurnBlind(s, caller, coin, amount) ==
  LET burned   == SendShielded(coin, ZeroKey, amount)
      returned == {SendShielded(c, caller, c.value) : c \in burned.change}
  IN  [ reads      |-> [color |-> s.color],
        writes     |-> [totalSupply |-> s.totalSupply - amount],
        transients |-> {burned.spent} \cup {r.spent : r \in returned},
        outputs    |-> {burned.sent} \cup {r.sent : r \in returned},
        mints      |-> 0 ]

\* Mutant: the value of the coin is taken off, not the amount.
BurnWholeCoin(s, caller, coin, amount) ==
  [ BurnBlind(s, caller, coin, amount) EXCEPT
      !.reads  = [color |-> s.color, totalSupply |-> s.totalSupply],
      !.writes = [totalSupply |-> s.totalSupply - coin.value] ]

\* Mutant: the change stays with the contract.
BurnKeepsChange(s, caller, coin, amount) ==
  LET burned == SendShielded(coin, ZeroKey, amount)
  IN  [ reads      |-> [color |-> s.color, totalSupply |-> s.totalSupply],
        writes     |-> [totalSupply |-> s.totalSupply - amount],
        transients |-> {burned.spent},
        outputs    |-> {burned.sent} \cup burned.change,
        mints      |-> 0 ]

\* Mutant: receiveShielded is missing, so nothing is spent in the contract.
BurnWithoutReceive(s, caller, coin, amount) ==
  [ BurnBlind(s, caller, coin, amount) EXCEPT
      !.reads      = [color |-> s.color, totalSupply |-> s.totalSupply],
      !.transients = {} ]

\* caller is ownPublicKey(): the key of the wallet that runs the circuit.
Burn(s, caller, coin, amount) ==
  LET burned   == SendShielded(coin, ZeroKey, amount)
      returned == {SendShielded(c, caller, c.value) : c \in burned.change}
  IN  [ reads      |-> [color |-> s.color, totalSupply |-> s.totalSupply],
        writes     |-> [totalSupply |-> s.totalSupply - amount],
        transients |-> {burned.spent} \cup {r.spent : r \in returned},
        outputs    |-> {burned.sent} \cup {r.sent : r \in returned},
        mints      |-> 0 ]
=============================================================================
