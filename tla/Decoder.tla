------------------------------ MODULE Decoder ------------------------------
(***************************************************************************)
(* src/decode.ts: from the bytes of a transaction to what the supply       *)
(* accounting reads of it.                                                 *)
(*                                                                         *)
(* A raw transaction is what Transaction.deserialize returns, with marks   *)
(* where reading it may go wrong: a part that is not readable throws when  *)
(* it is read, and a value that is not numeric prints as no number.  The   *)
(* three try blocks of the decoder turn a throw into a shorter result; a   *)
(* throw outside of them ends decodeTx.  Hashes, gas, programs and claimed *)
(* spends are carried through unchanged and left out.                      *)
(*                                                                         *)
(*   transaction  [readable, intents, guaranteed, fallible]                *)
(*   intent       [readable, actions]                                      *)
(*   action       [call, transcripts]   a deploy is no call; of a call the *)
(*                guaranteed transcript and the fallible one               *)
(*   transcript   [readable, mints]     its shieldedMints effect           *)
(*   offer        [readable, deltas]    guaranteed: at most one            *)
(*   mints, deltas: sequences of entries [type, value, numeric]            *)
(***************************************************************************)
EXTENDS Integers, SequencesExt

CONSTANT NotANumber  \* what String() makes of a value that is no bigint

\* delta: typeof v === "bigint" ? v.toString() : String(v)
Printed(entries) ==
  [ i \in DOMAIN entries |->
      [ type  |-> entries[i].type,
        value |-> IF entries[i].numeric THEN entries[i].value ELSE NotANumber ] ]

\* Mutant: the fallible transcript is read from the guaranteed one.
ReadTranscriptsTwice(transcripts) ==
  [ i \in DOMAIN transcripts |->
      [mints |-> IF transcripts[1].readable THEN Printed(transcripts[1].mints) ELSE <<>>] ]

\* mapToObj swallows its own errors: a map that cannot be read is an empty one.
ReadTranscripts(transcripts) ==
  [ i \in DOMAIN transcripts |->
      [mints |-> IF transcripts[i].readable THEN Printed(transcripts[i].mints) ELSE <<>>] ]

ReadActions(actions) ==
  [ i \in DOMAIN actions |->
      [call |-> actions[i].call, transcripts |-> ReadTranscripts(actions[i].transcripts)] ]

ReadOffer(offer) == [deltas |-> Printed(offer.deltas)]

\* The loop over the segments ends at the first part that throws, and keeps
\* what it has pushed.
BeforeThrow(parts) ==
  LET thrown == SelectInSeq(parts, LAMBDA part : ~part.readable)
  IN  IF thrown = 0 THEN parts ELSE SubSeq(parts, 1, thrown - 1)

\* Deserialization, the hashes and the guaranteed offer are read outside of
\* every try block.
Decodes(tx) ==
  tx.readable /\ \A i \in DOMAIN tx.guaranteed : tx.guaranteed[i].readable

\* Mutant: one try block around both loops.
DecodeTxInOneTry(tx) ==
  [ intents    |-> [ i \in DOMAIN BeforeThrow(tx.intents) |->
                       [actions |-> ReadActions(tx.intents[i].actions)] ],
    guaranteed |-> [ i \in DOMAIN tx.guaranteed |-> ReadOffer(tx.guaranteed[i]) ],
    fallible   |-> IF \E i \in DOMAIN tx.intents : ~tx.intents[i].readable
                     THEN <<>>
                     ELSE [ i \in DOMAIN BeforeThrow(tx.fallible) |->
                              ReadOffer(tx.fallible[i]) ] ]

DecodeTx(tx) ==
  [ intents    |-> [ i \in DOMAIN BeforeThrow(tx.intents) |->
                       [actions |-> ReadActions(tx.intents[i].actions)] ],
    guaranteed |-> [ i \in DOMAIN tx.guaranteed |-> ReadOffer(tx.guaranteed[i]) ],
    fallible   |-> [ i \in DOMAIN BeforeThrow(tx.fallible) |->
                       ReadOffer(tx.fallible[i]) ] ]
=============================================================================
