---------------------------- MODULE SupplyReport ----------------------------
(***************************************************************************)
(* How src/verify-supply.ts turns captured bytes into the numbers of its   *)
(* report: five transactions are captured one after another, the color and *)
(* the minted type become known on the way, every checkpoint decodes and   *)
(* folds the whole log again, and at the end the report shows the rows of  *)
(* the checkpoints next to the table of the last fold.  Afterwards the     *)
(* command line of src/supply.ts folds the files the run has written.      *)
(*                                                                         *)
(* What the transactions do is SupplyAudit's subject; here they all do     *)
(* what the scenario says, and the question is what survives the reading.  *)
(***************************************************************************)
EXTENDS DeltaFold

CONSTANTS
  Token,       \* the color of the coins
  MintType,    \* the type the mint effect is keyed by: another value
  OtherToken, OtherMintType,  \* of another deployment
  M, P,        \* amounts minted and burned by the protocol burn
  MaxMintFlaws \* bound on how many parts of the mint cannot be read

ASSUME TypesAssumption ==
  /\ NoType \notin {Token, MintType, OtherToken, OtherMintType}
  /\ Token # OtherToken /\ MintType # OtherMintType
  /\ M \in Nat /\ P \in Nat /\ MaxMintFlaws \in Nat
  /\ NotANumber \notin Int

VARIABLES
  step,      \* of the scenario: deploy, mint, burn, hidden burn, protocol burn
  phase,     \* "submit", "learn", "row", "report", "written" or "failed"
  captured,  \* submittedTxs
  color,     \* colorHex
  mintType,  \* mintTypeHex
  rows,      \* what the checkpoints have measured
  table,     \* the fold of the report, as a sequence of at most one
  offline    \* the folds of the command line: at most one

vars == <<step, phase, captured, color, mintType, rows, table, offline>>

-----------------------------------------------------------------------------
(* The transactions                                                        *)

Entry(type, value) == [type |-> type, value |-> value, numeric |-> TRUE]

Transcript(mints) == [readable |-> TRUE, mints |-> mints]

Call(guaranteed, fallible) ==
  [call |-> TRUE, transcripts |-> <<Transcript(guaranteed), Transcript(fallible)>>]

Intent(actions) == [readable |-> TRUE, actions |-> actions]

\* What balancing adds to a call to pay its fees.
FeeIntent == Intent(<<>>)

Offer(deltas) == [readable |-> TRUE, deltas |-> deltas]

Raw(intents, guaranteed, fallible) ==
  [readable |-> TRUE, intents |-> intents, guaranteed |-> guaranteed,
   fallible |-> fallible]

\* A mint executes in the guaranteed or in a fallible segment, and the coin it
\* pays for is in the offer of that segment.
MintTxs(token, type, value) ==
  LET effect == <<Entry(type, value)>>
      offer  == <<Offer(<<Entry(token, 0 - value)>>)>>
  IN  UNION { { Raw(fees \o <<Intent(<<Call(effect, <<>>)>>)>>, offer, <<>>),
                Raw(fees \o <<Intent(<<Call(<<>>, effect)>>)>>, <<>>, offer) } :
              fees \in {<<>>, <<FeeIntent>>} }

Submitted(n) ==
  CASE n = 1 -> {Raw(<<Intent(<<[call |-> FALSE, transcripts |-> <<>>]>>)>>, <<>>, <<>>)}
    [] n = 2 -> MintTxs(Token, MintType, M)
    [] n = 3 -> {Raw(<<Intent(<<Call(<<>>, <<>>)>>)>>, <<Offer(<<>>)>>, <<>>)}
    [] n = 4 -> {Raw(<<>>, <<Offer(<<>>)>>, <<>>)}
    [] n = 5 -> {Raw(<<>>, <<Offer(<<Entry(Token, P)>>)>>, <<>>)}

\* One part goes wrong when it is read: a number, a map of an effect that says
\* anything, an offer, an intent, or the whole transaction.
EntriesDamaged(entries) ==
  {[entries EXCEPT ![e] = [@ EXCEPT !.numeric = FALSE]] : e \in DOMAIN entries}

TranscriptsDamaged(transcripts) ==
  UNION { {[transcripts EXCEPT ![t] = [@ EXCEPT !.readable = FALSE]]} \cup
          { [transcripts EXCEPT ![t] = [@ EXCEPT !.mints = mints]] :
              mints \in EntriesDamaged(transcripts[t].mints) } :
          t \in {u \in DOMAIN transcripts : transcripts[u].mints # <<>>} }

ActionsDamaged(actions) ==
  UNION { { [actions EXCEPT ![a] = [@ EXCEPT !.transcripts = transcripts]] :
              transcripts \in TranscriptsDamaged(actions[a].transcripts) } :
          a \in DOMAIN actions }

IntentsDamaged(intents) ==
  UNION { {[intents EXCEPT ![i] = [@ EXCEPT !.readable = FALSE]]} \cup
          { [intents EXCEPT ![i] = [@ EXCEPT !.actions = actions]] :
              actions \in ActionsDamaged(intents[i].actions) } :
          i \in DOMAIN intents }

OffersDamaged(offers) ==
  UNION { {[offers EXCEPT ![o] = [@ EXCEPT !.readable = FALSE]]} \cup
          { [offers EXCEPT ![o] = [@ EXCEPT !.deltas = deltas]] :
              deltas \in EntriesDamaged(offers[o].deltas) } :
          o \in DOMAIN offers }

Damaged(tx) ==
  {[tx EXCEPT !.readable = FALSE]}
    \cup {[tx EXCEPT !.intents = intents] : intents \in IntentsDamaged(tx.intents)}
    \cup {[tx EXCEPT !.guaranteed = offers] : offers \in OffersDamaged(tx.guaranteed)}
    \cup {[tx EXCEPT !.fallible = offers] : offers \in OffersDamaged(tx.fallible)}

Flawed(txs) == txs \cup UNION {Damaged(tx) : tx \in txs}

\* The mint with at most so many flaws.
MintReadings[flaws \in 0 .. MaxMintFlaws] ==
  IF flaws = 0 THEN Submitted(2) ELSE Flawed(MintReadings[flaws - 1])

\* Every other transaction with at most one.
Readings(n) == IF n = 2 THEN MintReadings[MaxMintFlaws] ELSE Flawed(Submitted(n))

-----------------------------------------------------------------------------
(* The script                                                              *)

Init ==
  /\ step = 1
  /\ phase = "submit"
  /\ captured = <<>>
  /\ color = NoType
  /\ mintType = NoType
  /\ rows = <<>>
  /\ table = <<>>
  /\ offline = <<>>

\* The step's transaction is captured, or captureTx has caught an error.
Submit ==
  /\ phase = "submit"
  /\ \/ \E tx \in Readings(step) : captured' = Append(captured, tx)
     \/ captured' = captured
  /\ phase' = IF step = 2 THEN "learn" ELSE "row"
  /\ UNCHANGED <<step, color, mintType, rows, table, offline>>

CapturedDecodes == \A i \in DOMAIN captured : Decodes(captured[i])

DecodeCaptured == [i \in DOMAIN captured |-> DecodeTx(captured[i])]

ActionMints(action) ==
  action.call /\ \E t \in DOMAIN action.transcripts : action.transcripts[t].mints # <<>>

IntentMints(intent) == \E a \in DOMAIN intent.actions : ActionMints(intent.actions[a])

TxMints(tx) == \E i \in DOMAIN tx.intents : IntentMints(tx.intents[i])

\* The key of the first transcript that mints.
ObservedMintType(txs) ==
  IF \E n \in DOMAIN txs : TxMints(txs[n])
    THEN LET tx         == txs[SelectInSeq(txs, TxMints)]
             intent     == tx.intents[SelectInSeq(tx.intents, IntentMints)]
             action     == intent.actions[SelectInSeq(intent.actions, ActionMints)]
             transcript == action.transcripts[SelectInSeq(action.transcripts,
                                                          LAMBDA t : t.mints # <<>>)]
         IN  transcript.mints[1].type
    ELSE NoType

\* The mint returns the coin, and with it the color; the type is read from what
\* was captured.
Learn ==
  /\ phase = "learn"
  /\ CapturedDecodes
  /\ color' = Token
  /\ mintType' = ObservedMintType(DecodeCaptured)
  /\ phase' = "row"
  /\ UNCHANGED <<step, captured, rows, table, offline>>

\* The fold of the log as it is, by what is known; no delta has no type.
Fold == FoldSupply(DecodeCaptured, color, mintType)

MeasuredDelta ==
  IF captured = <<>> THEN 0
  ELSE DeltaForType(DecodeTx(captured[Len(captured)]), color)

\* Mutant: the last delta is taken off the row before.
CheckpointIncremental ==
  /\ phase = "row"
  /\ CapturedDecodes
  /\ rows' = Append(rows,
       [ seen  |-> Len(captured),
         delta |-> MeasuredDelta,
         fold  |-> (IF rows = <<>> THEN 0 ELSE rows[Len(rows)].fold) - MeasuredDelta,
         mints |-> Fold.totalMinted ])
  /\ step' = step + 1
  /\ phase' = IF step = 5 THEN "report" ELSE "submit"
  /\ UNCHANGED <<captured, color, mintType, table, offline>>

Checkpoint ==
  /\ phase = "row"
  /\ CapturedDecodes
  /\ rows' = Append(rows, [ seen  |-> Len(captured),
                            delta |-> MeasuredDelta,
                            fold  |-> Fold.supply,
                            mints |-> Fold.totalMinted ])
  /\ step' = step + 1
  /\ phase' = IF step = 5 THEN "report" ELSE "submit"
  /\ UNCHANGED <<captured, color, mintType, table, offline>>

Report ==
  /\ phase = "report"
  /\ CapturedDecodes
  /\ table' = <<Fold>>
  /\ phase' = "written"
  /\ UNCHANGED <<step, captured, color, mintType, rows, offline>>

\* decodeTx throws, here or in any later checkpoint.
DecodeThrows ==
  /\ phase \in {"learn", "row", "report"}
  /\ ~CapturedDecodes
  /\ phase' = "failed"
  /\ UNCHANGED <<step, captured, color, mintType, rows, table, offline>>

\* The files of out/, in the order of the command line, with one that the mint of
\* another deployment has left there (ns-2-mint.hex).
Folders ==
  {captured} \cup UNION { {captured \o <<stale>>, <<stale>> \o Reverse(captured)} :
                          stale \in MintTxs(OtherToken, OtherMintType, M) }

\* The command line of supply.ts: a color, the files, and no minted type.
FoldFiles ==
  /\ phase = "written"
  /\ offline = <<>>
  /\ \E files \in Folders :
       offline' = <<FoldSupply([i \in DOMAIN files |-> DecodeTx(files[i])], color, NoType)>>
  /\ UNCHANGED <<step, phase, captured, color, mintType, rows, table>>

Next ==
  \/ Submit
  \/ Learn
  \/ Checkpoint
  \/ Report
  \/ DecodeThrows
  \/ FoldFiles

Spec == Init /\ [][Next]_vars

-----------------------------------------------------------------------------
(* The truth, from the raw transactions and not from what is read of them  *)

ValueOf(entries, type) ==
  SumFunction([ e \in DOMAIN entries |->
                  IF entries[e].type = type THEN entries[e].value ELSE 0 ])

TrueDelta(tx) ==
  LET offers == tx.guaranteed \o tx.fallible
  IN  SumFunction([o \in DOMAIN offers |-> ValueOf(offers[o].deltas, Token)])

MintedByAction(action, type) ==
  SumFunction([ t \in DOMAIN action.transcripts |->
                  ValueOf(action.transcripts[t].mints, type) ])

MintedByIntent(intent, type) ==
  SumFunction([ a \in DOMAIN intent.actions |->
                  MintedByAction(intent.actions[a], type) ])

MintedByTx(tx, type) ==
  SumFunction([i \in DOMAIN tx.intents |-> MintedByIntent(tx.intents[i], type)])

TrueMints(tx) == MintedByTx(tx, MintType)

TrueDeltas == [i \in DOMAIN captured |-> TrueDelta(captured[i])]

TrueMintings == [i \in DOMAIN captured |-> TrueMints(captured[i])]

NotNumeric(entries) == \E e \in DOMAIN entries : ~entries[e].numeric

TranscriptLost(transcript) == ~transcript.readable \/ NotNumeric(transcript.mints)

ActionLost(action) ==
  \E t \in DOMAIN action.transcripts : TranscriptLost(action.transcripts[t])

IntentLost(intent) ==
  ~intent.readable \/ \E a \in DOMAIN intent.actions : ActionLost(intent.actions[a])

\* A delta is lost in a fallible offer that cannot be read, or as no number.
DeltaLost(tx) ==
  \/ \E o \in DOMAIN tx.guaranteed : NotNumeric(tx.guaranteed[o].deltas)
  \/ \E o \in DOMAIN tx.fallible :
       ~tx.fallible[o].readable \/ NotNumeric(tx.fallible[o].deltas)

\* A mint effect is lost with its own intent or one before it, with its map, or
\* as no number.
MintsLost(tx) == \E i \in DOMAIN tx.intents : IntentLost(tx.intents[i])

-----------------------------------------------------------------------------
(* Safety                                                                  *)

\* The fold of every row is minus the sum of the true deltas of what had been
\* captured, whichever segments they are in, as long as none of them was lost;
\* in particular a damaged mint effect or intent never disturbs the fold.
FoldIsExact ==
  \A r \in Range(rows) :
    (\A i \in 1 .. r.seen : ~DeltaLost(captured[i])) =>
      r.fold = 0 - SumFunctionOnSet(TrueDeltas, 1 .. r.seen)

\* The mints column never says more than was minted, even when the minted type
\* could not be observed and the mints of all types are summed; and it says no
\* less unless an effect was lost.
MintsAreNeverOvercounted ==
  \A r \in Range(rows) :
    /\ r.mints <= SumFunctionOnSet(TrueMintings, 1 .. r.seen)
    /\ (\A i \in 1 .. r.seen : ~MintsLost(captured[i])) =>
         r.mints = SumFunctionOnSet(TrueMintings, 1 .. r.seen)

\* The two columns of the table check each other: where they agree on a mint,
\* either both are right or both halves of that very transaction were lost.
LossesShow ==
  \A fold \in Range(table) : \A i \in DOMAIN captured :
    TrueMints(captured[i]) # 0 /\ fold.rows[i].delta = 0 - fold.rows[i].mints =>
      \/ /\ fold.rows[i].delta = TrueDelta(captured[i])
         /\ fold.rows[i].mints = TrueMints(captured[i])
      \/ DeltaLost(captured[i]) /\ MintsLost(captured[i])

\* The matrix and the table of one report agree, although the rows were measured
\* from shorter logs, one of them before color and type were known, and a step
\* whose transaction was not captured measures the one before it again.
MatrixAgreesWithTable ==
  \A fold \in Range(table) : \A r \in Range(rows) :
    r.seen > 0 => /\ r.fold = fold.rows[r.seen].runningSupply
                  /\ r.mints = fold.rows[r.seen].runningMints

\* The offline fold finds the supply of the report: from the files alone, with one
\* of another deployment after them, or with that one first and the others in
\* reverse.  Its mints sum all types and are an upper bound only.
OfflineFoldAgrees ==
  \A fold \in Range(offline) :
    /\ fold.supply = table[1].supply
    /\ fold.totalMinted >= table[1].totalMinted
=============================================================================
