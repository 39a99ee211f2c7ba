----------------------------- MODULE DeltaFold -----------------------------
(***************************************************************************)
(* src/supply.ts: the supply as a public indexer recomputes it, minus the  *)
(* sum of the deltas of one color over every offer since genesis, and next *)
(* to it the sum of the shieldedMints effects of one minted type.          *)
(***************************************************************************)
EXTENDS Decoder, Functions

CONSTANT NoType  \* a type argument that was not given, or ""

\* BigInt(s), or 0n when it throws.
ToBig(value) == IF value = NotANumber THEN 0 ELSE value

\* The entries of other types are filtered out.
SumOf(entries, types) ==
  SumFunction([ i \in DOMAIN entries |->
                  IF entries[i].type \in types THEN ToBig(entries[i].value) ELSE 0 ])

\* Mutant: the fallible segments are forgotten.
OffersOfGuaranteed(tx) == tx.guaranteed

OffersOf(tx) == tx.guaranteed \o tx.fallible

TypesOf(entries) == {entries[i].type : i \in DOMAIN entries}

\* Mutant: every color counts.
DeltaForAnyType(tx, color) ==
  SumFunction([ i \in DOMAIN OffersOf(tx) |->
                  SumOf(OffersOf(tx)[i].deltas, TypesOf(OffersOf(tx)[i].deltas)) ])

DeltaForType(tx, color) ==
  SumFunction([i \in DOMAIN OffersOf(tx) |-> SumOf(OffersOf(tx)[i].deltas, {color})])

\* Without a type, the mints of all types.
MintsOfTranscript(transcript, mintType) ==
  SumOf(transcript.mints,
        IF mintType = NoType THEN TypesOf(transcript.mints) ELSE {mintType})

\* A deploy is passed over.
MintsOfAction(action, mintType) ==
  IF action.call
    THEN SumFunction([ t \in DOMAIN action.transcripts |->
                         MintsOfTranscript(action.transcripts[t], mintType) ])
    ELSE 0

MintsOfIntent(intent, mintType) ==
  SumFunction([ a \in DOMAIN intent.actions |->
                  MintsOfAction(intent.actions[a], mintType) ])

ShieldedMintsForType(tx, mintType) ==
  SumFunction([i \in DOMAIN tx.intents |-> MintsOfIntent(tx.intents[i], mintType)])

DeltasOf(txs, color) == [n \in DOMAIN txs |-> DeltaForType(txs[n], color)]

MintsOf(txs, mintType) == [n \in DOMAIN txs |-> ShieldedMintsForType(txs[n], mintType)]

\* Row n is the running sum over the first n transactions.
FoldRows(txs, color, mintType) ==
  [ n \in DOMAIN txs |->
      [ delta         |-> DeltasOf(txs, color)[n],
        mints         |-> MintsOf(txs, mintType)[n],
        runningSupply |-> 0 - SumFunctionOnSet(DeltasOf(txs, color), 1 .. n),
        runningMints  |-> SumFunctionOnSet(MintsOf(txs, mintType), 1 .. n) ] ]

FoldSupply(txs, color, mintType) ==
  [ rows        |-> FoldRows(txs, color, mintType),
    supply      |-> 0 - SumFunction(DeltasOf(txs, color)),
    totalMinted |-> SumFunction(MintsOf(txs, mintType)) ]
=============================================================================
