------------------------------- MODULE Utils -------------------------------
(***************************************************************************)
(* contracts/Utils.compact: the Either<ZswapCoinPublicKey,                 *)
(* ContractAddress> a coin can be sent to, and the zero test mint applies  *)
(* to it.  A struct of the circuit language always carries both branches;  *)
(* is_left only says which one is meant.                                   *)
(***************************************************************************)
CONSTANTS
  Clients,      \* coin public keys some wallet holds the secret of
  Self,         \* the address of the token contract
  ZeroKey,      \* the all-zero coin public key: nobody holds its secret
  ZeroAddress   \* the all-zero contract address

ASSUME PartiesAssumption ==
  /\ ZeroKey \notin Clients
  /\ Self \notin Clients
  /\ ZeroAddress \notin Clients
  /\ Self # ZeroKey
  /\ Self # ZeroAddress

\* What a coin commitment can name as the owner of the coin.
Owners == Clients \cup {Self, ZeroKey, ZeroAddress}

Either == [ is_left : BOOLEAN,
            left    : Clients \cup {ZeroKey},
            right   : {Self, ZeroAddress} ]

Left(key) == [is_left |-> TRUE, left |-> key, right |-> ZeroAddress]

Right(address) == [is_left |-> FALSE, left |-> ZeroKey, right |-> address]

\* Mutant: only the contract branch is tested.
IsContractAddressZero(keyOrAddress) == keyOrAddress = Right(ZeroAddress)

\* == on a struct compares every field, the inactive branch included.
IsKeyOrAddressZero(keyOrAddress) ==
  IF keyOrAddress.is_left
    THEN keyOrAddress = Left(ZeroKey)
    ELSE keyOrAddress = Right(ZeroAddress)

\* A coin commitment hashes the active branch only.
OwnerOf(recipient) ==
  IF recipient.is_left THEN recipient.left ELSE recipient.right
=============================================================================
