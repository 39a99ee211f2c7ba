------------------------ MODULE SupplyReport_proofs ------------------------
(***************************************************************************)
(* That the numbers of the report follow from what was captured, for every *)
(* way the captured bytes may fail to be read.                             *)
(***************************************************************************)
EXTENDS SupplyReport, Sums_proofs

-----------------------------------------------------------------------------
(* Sums over functions                                                     *)

\* Smaller naturals at fewer places have a smaller sum.
LEMMA SumsBelow ==
  ASSUME NEW f, NEW g, IsFiniteSet(DOMAIN g), DOMAIN f \subseteq DOMAIN g,
         \A x \in DOMAIN f : f[x] \in Nat /\ f[x] <= g[x],
         \A x \in DOMAIN g : g[x] \in Nat
  PROVE  /\ SumFunction(f) \in Nat /\ SumFunction(g) \in Nat
         /\ SumFunction(f) <= SumFunction(g)
         /\ DOMAIN f = DOMAIN g /\ (\A x \in DOMAIN g : f[x] = g[x]) =>
              SumFunction(f) = SumFunction(g)
<1>1. IsFiniteSet(DOMAIN f)
  BY FS_Subset
<1>2. SumFunction(f) = Total(DOMAIN f, f) /\ SumFunction(g) = Total(DOMAIN g, g)
  BY <1>1, SumOnSetIsTotal DEF SumFunction
<1>3. Total(DOMAIN f, f) \in Nat /\ Total(DOMAIN g, g) \in Nat
  BY <1>1, TotalNat
<1>4. Total(DOMAIN f, g) \in Nat
  BY <1>1, TotalNat
<1>5. Total(DOMAIN f, f) <= Total(DOMAIN f, g)
  BY <1>1, TotalBelow
<1>6. Total(DOMAIN f, g) <= Total(DOMAIN g, g)
  BY TotalPart
<1>7. DOMAIN f = DOMAIN g /\ (\A x \in DOMAIN g : f[x] = g[x]) =>
        Total(DOMAIN f, f) = Total(DOMAIN g, g)
  BY TotalSame
<1> QED BY <1>2, <1>3, <1>4, <1>5, <1>6, <1>7

\* A sum of integers is an integer.
LEMMA SumsInt ==
  ASSUME NEW f, IsFiniteSet(DOMAIN f), \A x \in DOMAIN f : f[x] \in Int
  PROVE  SumFunction(f) \in Int
BY SumOnSetIsTotal, TotalInt DEF SumFunction

\* A sum of zeros is zero.
LEMMA SumsZero ==
  ASSUME NEW f, IsFiniteSet(DOMAIN f), \A x \in DOMAIN f : f[x] = 0
  PROVE  SumFunction(f) = 0
BY SumOnSetIsTotal, TotalZero DEF SumFunction

\* A sum with one summand.
LEMMA SumsOne ==
  ASSUME NEW f, NEW x, DOMAIN f = {x}, f[x] \in Int
  PROVE  SumFunction(f) = f[x]
<1>1. IsFiniteSet({x})
  BY FS_Singleton
<1>2. SumFunction(f) = Total({x}, f)
  BY <1>1, SumOnSetIsTotal DEF SumFunction
<1> QED BY <1>2, TotalOne

\* A sum with two summands.
LEMMA SumsTwo ==
  ASSUME NEW f, DOMAIN f = 1 .. 2, f[1] \in Int, f[2] \in Int
  PROVE  SumFunction(f) = f[1] + f[2]
<1>1. IsFiniteSet({1})
  BY FS_Singleton
<1>2. IsFiniteSet({1} \cup {2}) /\ {1} \cup {2} = 1 .. 2
  <2>1. IsFiniteSet({1} \cup {2})
    BY <1>1, FS_AddElement
  <2> QED BY <2>1
<1>3. SumFunction(f) = Total({1} \cup {2}, f)
  BY <1>2, SumOnSetIsTotal DEF SumFunction
<1>4. \A y \in {1} \cup {2} : f[y] \in Int
  OBVIOUS
<1>5. Total({1} \cup {2}, f) = Total({1}, f) + f[2]
  BY <1>1, <1>4, TotalAdd
<1>6. Total({1}, f) = f[1]
  BY TotalOne
<1> QED BY <1>3, <1>5, <1>6

-----------------------------------------------------------------------------
(* Sequences                                                               *)

\* The positions of a sequence are finitely many.
LEMMA SeqFinite ==
  ASSUME NEW X, NEW s \in Seq(X)
  PROVE  /\ IsFiniteSet(DOMAIN s) /\ DOMAIN s = 1 .. Len(s) /\ Len(s) \in Nat
         /\ \A i \in DOMAIN s : s[i] \in X
BY FS_Interval

\* A set of numbers has a least one.
LEMMA MinIn ==
  ASSUME NEW I, I \subseteq Nat, I # {}
  PROVE  Min(I) \in I /\ \A j \in I : Min(I) <= j
<1>1. PICK k \in I : TRUE
  OBVIOUS
<1> DEFINE Below == {0 .. i : i \in {j \in I : j <= k}}
           S == 0 .. k
<1>2. IsFiniteSet(0 .. k)
  BY FS_Interval
<1>3. Below \subseteq SUBSET (0 .. k) /\ Below # {}
  <2>1. 0 .. k \in Below
    OBVIOUS
  <2> QED BY <2>1
<1> HIDE DEF Below, S
<1>4. PICK m \in Below : \A t \in Below : t \subseteq m => t = m
  <2>1. IsFiniteSet(S) /\ Below \subseteq SUBSET S /\ Below # {}
    BY <1>2, <1>3 DEF S
  <2> QED BY <2>1, MinimalSubset
<1>5. PICK i \in I : i <= k /\ m = 0 .. i
  BY DEF Below
<1>6. ASSUME NEW j \in I, j < i PROVE FALSE
  <2>1. 0 .. j \in Below /\ 0 .. j \subseteq m
    BY <1>5, <1>6 DEF Below
  <2>2. 0 .. j = 0 .. i
    BY <1>4, <1>5, <2>1
  <2>3. i \in 0 .. i /\ i \notin 0 .. j
    BY <1>6
  <2> QED BY <2>2, <2>3
<1>7. \A j \in I : i <= j
  BY <1>6
<1> QED BY <1>7 DEF Min

\* The loop keeps a part of the sequence, and all of it when nothing throws.
LEMMA BeforeThrowIs ==
  ASSUME NEW X, NEW parts \in Seq(X)
  PROVE  /\ BeforeThrow(parts) \in Seq(X)
         /\ DOMAIN BeforeThrow(parts) \subseteq DOMAIN parts
         /\ \A i \in DOMAIN BeforeThrow(parts) : BeforeThrow(parts)[i] = parts[i]
         /\ (\A i \in DOMAIN parts : parts[i].readable) => BeforeThrow(parts) = parts
<1> DEFINE I == {i \in 1 .. Len(parts) : ~parts[i].readable}
<1>1. CASE I = {}
  BY <1>1 DEF BeforeThrow, SelectInSeq
<1>2. CASE I # {}
  <2>1. I \subseteq Nat
    OBVIOUS
  <2>2. Min(I) \in I
    BY <1>2, <2>1, MinIn
  <2> DEFINE m == Min(I)
  <2>3. m # 0 /\ SelectInSeq(parts, LAMBDA part : ~part.readable) = m
    BY <1>2, <2>2 DEF SelectInSeq
  <2>4. m \in 1 .. Len(parts) /\ m \in DOMAIN parts /\ ~parts[m].readable
    BY <2>2
  <2> HIDE DEF m, I
  <2>5. BeforeThrow(parts) = SubSeq(parts, 1, m - 1)
    BY <2>3 DEF BeforeThrow
  <2>6. /\ SubSeq(parts, 1, m - 1) \in Seq(X)
        /\ DOMAIN SubSeq(parts, 1, m - 1) = 1 .. m - 1
        /\ \A i \in 1 .. m - 1 : SubSeq(parts, 1, m - 1)[i] = parts[i]
    BY <2>4
  <2>7. 1 .. m - 1 \subseteq DOMAIN parts
    BY <2>4
  <2> QED BY <2>4, <2>5, <2>6, <2>7
<1> QED BY <1>1, <1>2

-----------------------------------------------------------------------------
(* The raw transactions of a deployment                                    *)

EntrySet(type, values) == [type : {type}, value : values, numeric : BOOLEAN]

TranscriptSet(type) == [readable : BOOLEAN, mints : Seq(EntrySet(type, Nat))]

ActionSet(type) ==
  { action \in [call : BOOLEAN, transcripts : Seq(TranscriptSet(type))] :
      action.call \/ action.transcripts = <<>> }

IntentSet(type) == [readable : BOOLEAN, actions : Seq(ActionSet(type))]

OfferSet(token) == [readable : BOOLEAN, deltas : Seq(EntrySet(token, Int))]

TxSet(token, type) ==
  [readable : BOOLEAN, intents : Seq(IntentSet(type)),
   guaranteed : Seq(OfferSet(token)), fallible : Seq(OfferSet(token))]

\* The fields of an entry.
LEMMA EntryTyped ==
  ASSUME NEW type, NEW values, NEW e \in EntrySet(type, values)
  PROVE  e.type = type /\ e.value \in values /\ e.numeric \in BOOLEAN
BY DEF EntrySet

\* A transcript has a readable mark and mints.
LEMMA TranscriptTyped ==
  ASSUME NEW type, NEW t \in TranscriptSet(type)
  PROVE  t.readable \in BOOLEAN /\ t.mints \in Seq(EntrySet(type, Nat))
BY DEF TranscriptSet

\* An action has transcripts only when it is a call.
LEMMA ActionTyped ==
  ASSUME NEW type, NEW a \in ActionSet(type)
  PROVE  /\ a.call \in BOOLEAN /\ a.transcripts \in Seq(TranscriptSet(type))
         /\ a.call \/ a.transcripts = <<>>
BY DEF ActionSet

\* An intent has a readable mark and actions.
LEMMA IntentTyped ==
  ASSUME NEW type, NEW i \in IntentSet(type)
  PROVE  i.readable \in BOOLEAN /\ i.actions \in Seq(ActionSet(type))
BY DEF IntentSet

\* An offer has a readable mark and deltas.
LEMMA OfferTyped ==
  ASSUME NEW token, NEW o \in OfferSet(token)
  PROVE  o.readable \in BOOLEAN /\ o.deltas \in Seq(EntrySet(token, Int))
BY DEF OfferSet

\* A transaction has intents, and offers of both kinds of segment.
LEMMA TxTyped ==
  ASSUME NEW token, NEW type, NEW tx \in TxSet(token, type)
  PROVE  /\ tx.intents \in Seq(IntentSet(type))
         /\ tx.guaranteed \in Seq(OfferSet(token))
         /\ tx.fallible \in Seq(OfferSet(token))
BY DEF TxSet

-----------------------------------------------------------------------------
(* Entries                                                                 *)

\* A sum of printed entries is the sum of their values when all are numbers and
\* the type counts, nothing when it does not, and never too large.
LEMMA EntriesRead ==
  ASSUME NEW type, NEW values, values \subseteq Int,
         NEW entries \in Seq(EntrySet(type, values)), NEW types
  PROVE  /\ SumOf(Printed(entries), types) \in Int
         /\ ValueOf(entries, type) \in Int
         /\ type \notin types => SumOf(Printed(entries), types) = 0
         /\ type \in types /\ ~NotNumeric(entries) =>
              SumOf(Printed(entries), types) = ValueOf(entries, type)
         /\ values \subseteq Nat =>
              /\ SumOf(Printed(entries), types) \in Nat
              /\ ValueOf(entries, type) \in Nat
              /\ SumOf(Printed(entries), types) <= ValueOf(entries, type)
<1> DEFINE p == Printed(entries)
           f == [ i \in DOMAIN p |->
                    IF p[i].type \in types THEN ToBig(p[i].value) ELSE 0 ]
           g == [ i \in DOMAIN entries |->
                    IF entries[i].type = type THEN entries[i].value ELSE 0 ]
<1>1. SumOf(Printed(entries), types) = SumFunction(f)
  BY DEF SumOf
<1>2. ValueOf(entries, type) = SumFunction(g)
  BY DEF ValueOf
<1>3. DOMAIN f = DOMAIN entries /\ DOMAIN g = DOMAIN entries
  BY DEF Printed
<1>4. IsFiniteSet(DOMAIN entries)
  BY SeqFinite
<1>5. ASSUME NEW i \in DOMAIN entries
      PROVE  /\ g[i] = entries[i].value /\ g[i] \in values
             /\ f[i] = IF type \in types
                         THEN IF entries[i].numeric THEN entries[i].value ELSE 0
                         ELSE 0
  <2>0. entries[i] \in EntrySet(type, values)
    OBVIOUS
  <2>1. entries[i].type = type /\ entries[i].value \in values /\ entries[i].value \in Int
    BY <2>0, EntryTyped
  <2>2. /\ p[i].type = type
        /\ p[i].value = IF entries[i].numeric THEN entries[i].value ELSE NotANumber
    BY <2>1 DEF Printed
  <2>3. DOMAIN p = DOMAIN entries
    BY <1>3
  <2> HIDE DEF p
  <2>4. ToBig(p[i].value) = IF entries[i].numeric THEN entries[i].value ELSE 0
    BY <2>1, <2>2, TypesAssumption DEF ToBig, TypesAssumption
  <2> QED BY <2>1, <2>2, <2>3, <2>4
<1>6. f = [i \in DOMAIN entries |-> f[i]] /\ g = [i \in DOMAIN entries |-> g[i]]
  BY <1>3
<1> HIDE DEF f, g, p
<1>7. ASSUME NEW i \in DOMAIN entries PROVE f[i] \in Int /\ g[i] \in Int
  <2>1. g[i] \in Int /\ g[i] = entries[i].value /\ (f[i] = g[i] \/ f[i] = 0)
    BY <1>5
  <2> QED BY <2>1
<1>8. SumFunction(f) \in Int /\ SumFunction(g) \in Int
  BY <1>3, <1>4, <1>7, SumsInt
<1>9. type \notin types => SumFunction(f) = 0
  <2>1. SUFFICES ASSUME type \notin types PROVE SumFunction(f) = 0
    OBVIOUS
  <2>2. \A i \in DOMAIN f : f[i] = 0
    BY <1>3, <1>5, <2>1
  <2> QED BY <1>3, <1>4, <2>2, SumsZero
<1>10. type \in types /\ ~NotNumeric(entries) => SumFunction(f) = SumFunction(g)
  <2>1. SUFFICES ASSUME type \in types, ~NotNumeric(entries) PROVE f = g
    OBVIOUS
  <2>2. \A i \in DOMAIN entries : entries[i].numeric
    BY <2>1 DEF NotNumeric
  <2>3. \A i \in DOMAIN entries : f[i] = g[i]
    BY <1>5, <2>1, <2>2
  <2> QED BY <1>6, <2>3
<1>11. ASSUME values \subseteq Nat
       PROVE  /\ SumFunction(f) \in Nat /\ SumFunction(g) \in Nat
              /\ SumFunction(f) <= SumFunction(g)
  <2>1. ASSUME NEW i \in DOMAIN entries
        PROVE  g[i] \in Nat /\ f[i] \in Nat /\ f[i] <= g[i]
    <3>1. g[i] \in Nat /\ g[i] = entries[i].value /\ (f[i] = g[i] \/ f[i] = 0)
      BY <1>5, <1>11
    <3> QED BY <3>1
  <2> QED BY <1>3, <1>4, <2>1, SumsBelow
<1> QED BY <1>1, <1>2, <1>8, <1>9, <1>10, <1>11

-----------------------------------------------------------------------------
(* What is read of the mints                                               *)

\* Of a transcript.
LEMMA TranscriptRead ==
  ASSUME NEW type, type # NoType, NEW mt \in {NoType, type},
         NEW ts \in Seq(TranscriptSet(type)), NEW t \in DOMAIN ts
  PROVE  LET m == MintsOfTranscript(ReadTranscripts(ts)[t], mt)
             v == ValueOf(ts[t].mints, type)
         IN  /\ m \in Nat /\ v \in Nat /\ m <= v
             /\ ~TranscriptLost(ts[t]) => m = v
<1> DEFINE entries == ts[t].mints
           p == Printed(entries)
<1>1. ts[t].readable \in BOOLEAN /\ entries \in Seq(EntrySet(type, Nat))
  BY TranscriptTyped
<1>2. ReadTranscripts(ts)[t].mints = IF ts[t].readable THEN p ELSE <<>>
  BY DEF ReadTranscripts
<1>3. /\ SumOf(p, {type}) \in Nat /\ ValueOf(entries, type) \in Nat
      /\ SumOf(p, {type}) <= ValueOf(entries, type)
      /\ ~NotNumeric(entries) => SumOf(p, {type}) = ValueOf(entries, type)
  <2> HIDE DEF entries
  <2>1. Nat \subseteq Int /\ type \in {type}
    OBVIOUS
  <2> QED BY <1>1, <2>1, EntriesRead
<1>4. \A i \in DOMAIN p : p[i].type = type
  <2>1. ASSUME NEW i \in DOMAIN entries PROVE entries[i].type = type
    <3>1. entries[i] \in EntrySet(type, Nat)
      BY <1>1
    <3> QED BY <3>1, EntryTyped
  <2> HIDE DEF entries
  <2> QED BY <2>1 DEF Printed
<1> HIDE DEF p
<1>5. SumOf(p, TypesOf(p)) = SumOf(p, {type})
  <2>1. \A i \in DOMAIN p : p[i].type \in TypesOf(p) /\ p[i].type \in {type}
    BY <1>4 DEF TypesOf
  <2> QED BY <2>1 DEF SumOf
<1>6. ASSUME NEW types PROVE SumOf(<<>>, types) = 0
  <2> DEFINE f == [ i \in DOMAIN <<>> |->
                      IF (<<>>)[i].type \in types THEN ToBig((<<>>)[i].value) ELSE 0 ]
  <2>1. DOMAIN f = {}
    OBVIOUS
  <2>2. SumOf(<<>>, types) = SumFunction(f)
    BY DEF SumOf
  <2> HIDE DEF f
  <2> QED BY <2>1, <2>2, FS_EmptySet, SumsZero
<1> DEFINE m == MintsOfTranscript(ReadTranscripts(ts)[t], mt)
           v == ValueOf(entries, type)
           lost == TranscriptLost(ts[t])
<1>7. lost = (~ts[t].readable \/ NotNumeric(entries))
  BY DEF TranscriptLost
<1>8. CASE ts[t].readable
  <2>1. m = SumOf(p, {type})
    BY <1>2, <1>5, <1>8 DEF MintsOfTranscript
  <2>2. v \in Nat /\ m \in Nat /\ m <= v /\ (~lost => m = v)
    <3> HIDE DEF m, lost
    <3> QED BY <1>3, <1>7, <1>8, <2>1
  <2> QED BY <2>2
<1>9. CASE ~ts[t].readable
  <2>1. m = 0
    BY <1>2, <1>6, <1>9 DEF MintsOfTranscript
  <2>2. lost
    BY <1>7, <1>9
  <2>3. v \in Nat
    BY <1>3
  <2>4. v \in Nat /\ m \in Nat /\ m <= v
    <3> HIDE DEF m, v
    <3> QED BY <2>1, <2>3
  <2> QED BY <2>2, <2>4
<1> QED BY <1>8, <1>9

\* Of an action: nothing is minted by a deploy.
LEMMA ActionRead ==
  ASSUME NEW type, type # NoType, NEW mt \in {NoType, type},
         NEW as \in Seq(ActionSet(type)), NEW a \in DOMAIN as
  PROVE  LET m == MintsOfAction(ReadActions(as)[a], mt)
             v == MintedByAction(as[a], type)
         IN  /\ m \in Nat /\ v \in Nat /\ m <= v
             /\ ~ActionLost(as[a]) => m = v
<1> DEFINE ts == as[a].transcripts
           f == [ t \in DOMAIN ReadTranscripts(ts) |->
                    MintsOfTranscript(ReadTranscripts(ts)[t], mt) ]
           g == [t \in DOMAIN ts |-> ValueOf(ts[t].mints, type)]
           m == MintsOfAction(ReadActions(as)[a], mt)
           v == MintedByAction(as[a], type)
           lost == ActionLost(as[a])
<1>1. ts \in Seq(TranscriptSet(type)) /\ (as[a].call \/ ts = <<>>)
  <2>1. as[a] \in ActionSet(type)
    BY SeqFinite
  <2> QED BY <2>1, ActionTyped
<1>2. DOMAIN f = DOMAIN ts /\ DOMAIN g = DOMAIN ts
  BY DEF ReadTranscripts
<1>3. ASSUME NEW t \in DOMAIN ts
      PROVE  /\ f[t] \in Nat /\ g[t] \in Nat /\ f[t] <= g[t]
             /\ ~TranscriptLost(ts[t]) => f[t] = g[t]
  <2> DEFINE n == MintsOfTranscript(ReadTranscripts(ts)[t], mt)
             w == ValueOf(ts[t].mints, type)
  <2>1. f[t] = n /\ g[t] = w
    BY <1>2
  <2>2. n \in Nat /\ w \in Nat /\ n <= w /\ (~TranscriptLost(ts[t]) => n = w)
    <3> HIDE DEF ts
    <3> QED BY <1>1, TranscriptRead
  <2> HIDE DEF f, g, n, w
  <2> QED BY <2>1, <2>2
<1>4. IsFiniteSet(DOMAIN ts)
  BY <1>1, SeqFinite
<1>5. v = SumFunction(g)
  BY DEF MintedByAction
<1>6. ReadActions(as)[a] = [call |-> as[a].call, transcripts |-> ReadTranscripts(ts)]
  BY DEF ReadActions
<1>7. m = IF as[a].call THEN SumFunction(f) ELSE 0
  BY <1>6 DEF MintsOfAction
<1>8. ~lost => \A t \in DOMAIN ts : ~TranscriptLost(ts[t])
  BY DEF ActionLost
<1> HIDE DEF f, g
<1>9. /\ SumFunction(f) \in Nat /\ SumFunction(g) \in Nat
      /\ SumFunction(f) <= SumFunction(g)
      /\ (\A t \in DOMAIN ts : f[t] = g[t]) => SumFunction(f) = SumFunction(g)
  BY <1>2, <1>3, <1>4, SumsBelow
<1>10. ~lost => SumFunction(f) = SumFunction(g)
  BY <1>3, <1>8, <1>9
<1>11. ASSUME ~as[a].call PROVE SumFunction(g) = 0
  <2>1. ts = <<>>
    BY <1>1, <1>11
  <2> HIDE DEF ts
  <2>2. DOMAIN g = {}
    BY <1>2, <2>1
  <2> QED BY <2>2, FS_EmptySet, SumsZero
<1> HIDE DEF m, v, lost
<1>12. CASE as[a].call
  <2>1. m = SumFunction(f)
    BY <1>7, <1>12
  <2>2. m \in Nat /\ v \in Nat /\ m <= v
    BY <1>5, <1>9, <2>1
  <2>3. ~lost => m = v
    BY <1>5, <1>10, <2>1
  <2> QED BY <2>2, <2>3 DEF m, v, lost
<1>13. CASE ~as[a].call
  <2>1. m = 0 /\ v = 0
    BY <1>5, <1>7, <1>11, <1>13
  <2>2. m \in Nat /\ v \in Nat /\ m <= v /\ m = v
    BY <2>1
  <2> QED BY <2>2 DEF m, v, lost
<1> QED BY <1>12, <1>13

\* Of an intent.
LEMMA IntentRead ==
  ASSUME NEW type, type # NoType, NEW mt \in {NoType, type},
         NEW is \in Seq(IntentSet(type)), NEW i \in DOMAIN is
  PROVE  LET m == MintsOfIntent([actions |-> ReadActions(is[i].actions)], mt)
             v == MintedByIntent(is[i], type)
         IN  /\ m \in Nat /\ v \in Nat /\ m <= v
             /\ ~IntentLost(is[i]) => m = v
<1> DEFINE as == is[i].actions
           f == [ a \in DOMAIN ReadActions(as) |->
                    MintsOfAction(ReadActions(as)[a], mt) ]
           g == [a \in DOMAIN as |-> MintedByAction(as[a], type)]
           m == MintsOfIntent([actions |-> ReadActions(is[i].actions)], mt)
           v == MintedByIntent(is[i], type)
           lost == IntentLost(is[i])
<1>1. as \in Seq(ActionSet(type))
  <2>1. is[i] \in IntentSet(type)
    BY SeqFinite
  <2> QED BY <2>1, IntentTyped
<1>2. DOMAIN f = DOMAIN as /\ DOMAIN g = DOMAIN as
  BY DEF ReadActions
<1>3. ASSUME NEW a \in DOMAIN as
      PROVE  /\ f[a] \in Nat /\ g[a] \in Nat /\ f[a] <= g[a]
             /\ ~ActionLost(as[a]) => f[a] = g[a]
  <2> DEFINE n == MintsOfAction(ReadActions(as)[a], mt)
             w == MintedByAction(as[a], type)
  <2>1. f[a] = n /\ g[a] = w
    BY <1>2
  <2>2. n \in Nat /\ w \in Nat /\ n <= w /\ (~ActionLost(as[a]) => n = w)
    <3> HIDE DEF as
    <3> QED BY <1>1, ActionRead
  <2> HIDE DEF f, g, n, w
  <2> QED BY <2>1, <2>2
<1>4. IsFiniteSet(DOMAIN as)
  BY <1>1, SeqFinite
<1>5. v = SumFunction(g) /\ m = SumFunction(f)
  BY DEF MintedByIntent, MintsOfIntent
<1>6. ~lost => \A a \in DOMAIN as : ~ActionLost(as[a])
  BY DEF IntentLost
<1> HIDE DEF f, g
<1>7. /\ SumFunction(f) \in Nat /\ SumFunction(g) \in Nat
      /\ SumFunction(f) <= SumFunction(g)
      /\ (\A a \in DOMAIN as : f[a] = g[a]) => SumFunction(f) = SumFunction(g)
  BY <1>2, <1>3, <1>4, SumsBelow
<1>8. ~lost => SumFunction(f) = SumFunction(g)
  BY <1>3, <1>6, <1>7
<1> HIDE DEF m, v, lost
<1>9. m \in Nat /\ v \in Nat /\ m <= v
  BY <1>5, <1>7
<1>10. ~lost => m = v
  BY <1>5, <1>8
<1> QED BY <1>9, <1>10 DEF m, v, lost

\* Of a transaction: never too much, and all of it unless an effect is lost.
LEMMA MintsRead ==
  ASSUME NEW token, NEW type, type # NoType, NEW mt \in {NoType, type},
         NEW tx \in TxSet(token, type)
  PROVE  LET m == ShieldedMintsForType(DecodeTx(tx), mt)
             v == MintedByTx(tx, type)
         IN  /\ m \in Nat /\ v \in Nat /\ m <= v
             /\ ~MintsLost(tx) => m = v
<1> DEFINE is == tx.intents
           kept == BeforeThrow(is)
           r(i) == MintsOfIntent([actions |-> ReadActions(is[i].actions)], mt)
           f == [i \in DOMAIN kept |-> r(i)]
           g == [i \in DOMAIN is |-> MintedByIntent(is[i], type)]
           m == ShieldedMintsForType(DecodeTx(tx), mt)
           v == MintedByTx(tx, type)
           lost == MintsLost(tx)
<1>1. is \in Seq(IntentSet(type))
  BY TxTyped
<1>2. /\ DOMAIN kept \subseteq DOMAIN is
      /\ (\A i \in DOMAIN is : is[i].readable) => kept = is
  <2> HIDE DEF is
  <2> QED BY <1>1, BeforeThrowIs
<1>3. DOMAIN f = DOMAIN kept /\ DOMAIN g = DOMAIN is
  OBVIOUS
<1>4. ASSUME NEW i \in DOMAIN is
      PROVE  /\ r(i) \in Nat /\ g[i] \in Nat /\ r(i) <= g[i]
             /\ ~IntentLost(is[i]) => r(i) = g[i]
  <2> DEFINE n == r(i)
             w == MintedByIntent(is[i], type)
  <2>1. g[i] = w
    BY <1>3
  <2>2. n \in Nat /\ w \in Nat /\ n <= w /\ (~IntentLost(is[i]) => n = w)
    <3> HIDE DEF is
    <3> QED BY <1>1, IntentRead
  <2> HIDE DEF g, w, r
  <2> QED BY <2>1, <2>2
<1>5. IsFiniteSet(DOMAIN is)
  BY <1>1, SeqFinite
<1>6. v = SumFunction(g)
  BY DEF MintedByTx
<1>7. m = SumFunction(f)
  <2> DEFINE d == DecodeTx(tx)
  <2>1. d.intents = [i \in DOMAIN kept |-> [actions |-> ReadActions(is[i].actions)]]
    BY DEF DecodeTx
  <2> HIDE DEF kept, d
  <2>2. f = [i \in DOMAIN d.intents |-> MintsOfIntent(d.intents[i], mt)]
    BY <2>1
  <2> HIDE DEF f
  <2> QED BY <2>2 DEF ShieldedMintsForType, d
<1>8. ASSUME ~lost
      PROVE  (\A i \in DOMAIN is : ~IntentLost(is[i])) /\ kept = is
  <2>1. \A i \in DOMAIN is : ~IntentLost(is[i])
    BY <1>8 DEF MintsLost
  <2>2. \A i \in DOMAIN is : is[i].readable
    BY <2>1 DEF IntentLost
  <2> QED BY <1>2, <2>1, <2>2
<1>9. \A i \in DOMAIN kept : f[i] = r(i)
  OBVIOUS
<1> HIDE DEF f, g, r, kept
<1>10. \A i \in DOMAIN f : f[i] \in Nat /\ f[i] <= g[i]
  BY <1>2, <1>3, <1>4, <1>9
<1>11. /\ SumFunction(f) \in Nat /\ SumFunction(g) \in Nat
       /\ SumFunction(f) <= SumFunction(g)
       /\ DOMAIN f = DOMAIN g /\ (\A i \in DOMAIN g : f[i] = g[i]) =>
            SumFunction(f) = SumFunction(g)
  BY <1>2, <1>3, <1>4, <1>5, <1>10, SumsBelow
<1>12. ~lost => SumFunction(f) = SumFunction(g)
  <2>1. ASSUME ~lost PROVE SumFunction(f) = SumFunction(g)
    <3>1. \A i \in DOMAIN g : f[i] = g[i]
      BY <1>3, <1>4, <1>8, <1>9, <2>1
    <3> QED BY <1>3, <1>8, <1>11, <2>1, <3>1
  <2> QED BY <2>1
<1> HIDE DEF m, v, lost
<1>13. m \in Nat /\ v \in Nat /\ m <= v
  BY <1>6, <1>7, <1>11
<1>14. ~lost => m = v
  BY <1>6, <1>7, <1>12
<1> QED BY <1>13, <1>14 DEF m, v, lost

-----------------------------------------------------------------------------
(* What is read of the deltas                                              *)

\* Of an offer.
LEMMA OfferRead ==
  ASSUME NEW token, NEW c, NEW o \in OfferSet(token)
  PROVE  LET d == SumOf(ReadOffer(o).deltas, {c})
             w == ValueOf(o.deltas, token)
         IN  /\ d \in Int /\ w \in Int
             /\ c # token => d = 0
             /\ c = token /\ ~NotNumeric(o.deltas) => d = w
<1> DEFINE entries == o.deltas
           d == SumOf(ReadOffer(o).deltas, {c})
           w == ValueOf(entries, token)
<1>1. entries \in Seq(EntrySet(token, Int))
  BY OfferTyped
<1>2. d = SumOf(Printed(entries), {c})
  BY DEF ReadOffer
<1>3. /\ SumOf(Printed(entries), {c}) \in Int /\ w \in Int
      /\ token \notin {c} => SumOf(Printed(entries), {c}) = 0
      /\ token \in {c} /\ ~NotNumeric(entries) => SumOf(Printed(entries), {c}) = w
  <2> HIDE DEF entries
  <2>1. Int \subseteq Int
    OBVIOUS
  <2> QED BY <1>1, <2>1, EntriesRead
<1> QED BY <1>2, <1>3

\* Of a transaction: all of it unless a delta is lost, and nothing of another color.
LEMMA DeltaRead ==
  ASSUME NEW token, NEW type, NEW c, NEW tx \in TxSet(token, type)
  PROVE  LET d == DeltaForType(DecodeTx(tx), c)
         IN  /\ d \in Int
             /\ c # token => d = 0
             /\ token = Token => /\ TrueDelta(tx) \in Int
                                 /\ c = token /\ ~DeltaLost(tx) => d = TrueDelta(tx)
<1> DEFINE G == tx.guaranteed
           F == tx.fallible
           K == BeforeThrow(F)
           R == {ReadOffer(o) : o \in OfferSet(token)}
           rg == [i \in DOMAIN G |-> ReadOffer(G[i])]
           rf == [i \in DOMAIN K |-> ReadOffer(F[i])]
           r == OffersOf(DecodeTx(tx))
           f == [i \in DOMAIN r |-> SumOf(r[i].deltas, {c})]
           d == DeltaForType(DecodeTx(tx), c)
           raw == G \o F
           g == [o \in DOMAIN raw |-> ValueOf(raw[o].deltas, token)]
<1>1. G \in Seq(OfferSet(token)) /\ F \in Seq(OfferSet(token))
  BY TxTyped
<1>2. /\ K \in Seq(OfferSet(token))
      /\ DOMAIN K \subseteq DOMAIN F
      /\ (\A i \in DOMAIN F : F[i].readable) => K = F
  <2> HIDE DEF F
  <2> QED BY <1>1, BeforeThrowIs
<1>3. r = rg \o rf
  BY DEF OffersOf, DecodeTx
<1>4. d = SumFunction(f)
  BY DEF DeltaForType
<1>5. token = Token => TrueDelta(tx) = SumFunction(g)
  BY DEF TrueDelta
<1>6. rg \in Seq(R) /\ rf \in Seq(R)
  <2> HIDE DEF G, F, K
  <2>1. /\ \A i \in DOMAIN G : G[i] \in OfferSet(token)
        /\ \A i \in DOMAIN F : F[i] \in OfferSet(token)
    BY <1>1
  <2>2. DOMAIN G = 1 .. Len(G) /\ DOMAIN K = 1 .. Len(K) /\ Len(G) \in Nat /\ Len(K) \in Nat
    BY <1>1, <1>2, SeqFinite
  <2>3. \A i \in DOMAIN G : ReadOffer(G[i]) \in R
    BY <2>1
  <2>4. \A i \in DOMAIN K : ReadOffer(F[i]) \in R
    BY <1>2, <2>1
  <2> HIDE DEF R
  <2> QED BY <2>2, <2>3, <2>4
<1> HIDE DEF K, rg, rf, r
<1>7. r \in Seq(R)
  BY <1>3, <1>6
<1>8. IsFiniteSet(DOMAIN r)
  BY <1>7, SeqFinite
<1>9. ASSUME NEW i \in DOMAIN r PROVE f[i] \in Int /\ (c # token => f[i] = 0)
  <2>1. r[i] \in R
    BY <1>7
  <2>2. PICK o \in OfferSet(token) : r[i] = ReadOffer(o)
    BY <2>1
  <2> DEFINE e == SumOf(ReadOffer(o).deltas, {c})
  <2>3. e \in Int /\ (c # token => e = 0)
    BY OfferRead
  <2>4. f[i] = e
    BY <2>2
  <2> HIDE DEF e, f
  <2> QED BY <2>3, <2>4
<1>10. DOMAIN f = DOMAIN r
  OBVIOUS
<1> HIDE DEF f
<1>11. SumFunction(f) \in Int
  BY <1>8, <1>9, <1>10, SumsInt
<1>12. c # token => SumFunction(f) = 0
  BY <1>8, <1>9, <1>10, SumsZero
<1>13. SumFunction(g) \in Int
  <2> HIDE DEF G, F
  <2>1. raw \in Seq(OfferSet(token))
    BY <1>1
  <2> HIDE DEF raw
  <2>2. ASSUME NEW i \in DOMAIN raw PROVE g[i] \in Int
    <3> DEFINE o == raw[i]
               w == ValueOf(o.deltas, token)
    <3>1. o \in OfferSet(token)
      BY <2>1, SeqFinite
    <3>2. w \in Int
      <4> HIDE DEF o
      <4> QED BY <3>1, OfferRead
    <3> QED BY <3>2
  <2>3. DOMAIN g = DOMAIN raw /\ IsFiniteSet(DOMAIN raw)
    BY <2>1, SeqFinite
  <2> HIDE DEF g
  <2> QED BY <2>2, <2>3, SumsInt
<1>14. ASSUME c = token, ~DeltaLost(tx) PROVE f = g
  <2>1. /\ \A o \in DOMAIN G : ~NotNumeric(G[o].deltas)
        /\ \A o \in DOMAIN F : F[o].readable /\ ~NotNumeric(F[o].deltas)
    BY <1>14 DEF DeltaLost
  <2>2. K = F
    BY <1>2, <2>1
  <2> HIDE DEF G, F
  <2>3. DOMAIN rg = DOMAIN G /\ DOMAIN rf = DOMAIN F
    BY <2>2 DEF rg, rf
  <2>4. Len(rg) = Len(G) /\ Len(rf) = Len(F)
    BY <1>1, <1>6, <2>3
  <2>5. DOMAIN r = DOMAIN raw /\ DOMAIN raw = 1 .. Len(G) + Len(F)
    <3>1. DOMAIN raw = 1 .. Len(G) + Len(F)
      BY <1>1
    <3>2. DOMAIN r = 1 .. Len(rg) + Len(rf)
      BY <1>3, <1>6
    <3> QED BY <2>4, <3>1, <3>2
  <2>6. ASSUME NEW i \in DOMAIN raw
        PROVE  /\ r[i] = ReadOffer(raw[i]) /\ raw[i] \in OfferSet(token)
               /\ ~NotNumeric(raw[i].deltas)
    <3>1. CASE i <= Len(G)
      <4>1. i \in DOMAIN G /\ raw[i] = G[i] /\ r[i] = rg[i]
        BY <1>1, <1>3, <1>6, <2>4, <2>5, <3>1
      <4> QED BY <1>1, <2>1, <4>1 DEF rg
    <3>2. CASE ~(i <= Len(G))
      <4>1. /\ i - Len(G) \in DOMAIN F /\ raw[i] = F[i - Len(G)]
            /\ r[i] = rf[i - Len(G)]
        BY <1>1, <1>3, <1>6, <2>4, <2>5, <3>2
      <4> DEFINE k == i - Len(G)
      <4> HIDE DEF k
      <4>2. k \in DOMAIN F /\ raw[i] = F[k] /\ r[i] = rf[k]
        BY <4>1 DEF k
      <4> QED BY <1>1, <2>1, <2>2, <4>2 DEF rf
    <3> QED BY <3>1, <3>2
  <2> HIDE DEF raw
  <2>7. ASSUME NEW i \in DOMAIN raw PROVE f[i] = g[i]
    <3> DEFINE o == raw[i]
               e == SumOf(ReadOffer(o).deltas, {c})
               w == ValueOf(o.deltas, token)
    <3>1. o \in OfferSet(token) /\ ~NotNumeric(o.deltas)
      BY <2>6
    <3>2. e = w
      <4> HIDE DEF o
      <4> QED BY <1>14, <3>1, OfferRead
    <3>3. f[i] = e /\ g[i] = w
      BY <2>5, <2>6 DEF f
    <3> QED BY <3>2, <3>3
  <2>8. f = [i \in DOMAIN raw |-> f[i]] /\ g = [i \in DOMAIN raw |-> g[i]]
    BY <2>5 DEF f
  <2> HIDE DEF g
  <2> QED BY <2>7, <2>8
<1> HIDE DEF d, g
<1>15. /\ d \in Int
       /\ c # token => d = 0
       /\ token = Token => /\ TrueDelta(tx) \in Int
                           /\ c = token /\ ~DeltaLost(tx) => d = TrueDelta(tx)
  BY <1>4, <1>5, <1>11, <1>12, <1>13, <1>14
<1> QED BY <1>15 DEF d

-----------------------------------------------------------------------------
(* What goes wrong in reading leaves what there is to read                 *)

\* One element of a sequence is replaced.
LEMMA Replaced ==
  ASSUME NEW X, NEW s \in Seq(X), NEW k \in DOMAIN s, NEW e \in X
  PROVE  /\ [s EXCEPT ![k] = e] \in Seq(X)
         /\ DOMAIN [s EXCEPT ![k] = e] = DOMAIN s
         /\ \A j \in DOMAIN s : [s EXCEPT ![k] = e][j] = IF j = k THEN e ELSE s[j]
OBVIOUS

\* A number.
LEMMA EntriesKept ==
  ASSUME NEW type, NEW values, NEW entries \in Seq(EntrySet(type, values)),
         NEW damaged \in EntriesDamaged(entries)
  PROVE  /\ damaged \in Seq(EntrySet(type, values))
         /\ ValueOf(damaged, type) = ValueOf(entries, type)
<1>1. PICK k \in DOMAIN entries :
        damaged = [entries EXCEPT ![k] = [entries[k] EXCEPT !.numeric = FALSE]]
  BY DEF EntriesDamaged
<1> DEFINE e == [entries[k] EXCEPT !.numeric = FALSE]
<1>2. e \in EntrySet(type, values) /\ e.type = entries[k].type /\ e.value = entries[k].value
  <2>1. entries[k] \in EntrySet(type, values)
    OBVIOUS
  <2> QED BY <2>1 DEF EntrySet
<1> HIDE DEF e
<1>3. damaged = [entries EXCEPT ![k] = e]
  BY <1>1 DEF e
<1>4. /\ damaged \in Seq(EntrySet(type, values)) /\ DOMAIN damaged = DOMAIN entries
      /\ \A j \in DOMAIN entries : damaged[j] = IF j = k THEN e ELSE entries[j]
  BY <1>2, <1>3, Replaced
<1>5. \A j \in DOMAIN entries :
        damaged[j].type = entries[j].type /\ damaged[j].value = entries[j].value
  BY <1>2, <1>4
<1> QED BY <1>4, <1>5 DEF ValueOf

\* The mints of transcripts.
MintedIn(transcripts, type) ==
  [t \in DOMAIN transcripts |-> ValueOf(transcripts[t].mints, type)]

\* A map of mints, or a number in one.
LEMMA TranscriptsKept ==
  ASSUME NEW type, NEW ts \in Seq(TranscriptSet(type)),
         NEW damaged \in TranscriptsDamaged(ts)
  PROVE  /\ damaged \in Seq(TranscriptSet(type)) /\ ts # <<>>
         /\ MintedIn(damaged, type) = MintedIn(ts, type)
<1>1. PICK k \in DOMAIN ts :
        \/ damaged = [ts EXCEPT ![k] = [ts[k] EXCEPT !.readable = FALSE]]
        \/ \E mints \in EntriesDamaged(ts[k].mints) :
             damaged = [ts EXCEPT ![k] = [ts[k] EXCEPT !.mints = mints]]
  BY DEF TranscriptsDamaged
<1>2. ts[k] \in TranscriptSet(type) /\ ts # <<>>
  <2>1. ts[k] \in TranscriptSet(type)
    BY SeqFinite
  <2>2. ts # <<>>
    <3>1. SUFFICES ASSUME ts = <<>> PROVE FALSE
      OBVIOUS
    <3>2. DOMAIN <<>> = {}
      OBVIOUS
    <3> QED BY <3>1, <3>2
  <2> QED BY <2>1, <2>2
<1>3. ts[k].readable \in BOOLEAN /\ ts[k].mints \in Seq(EntrySet(type, Nat))
  BY <1>2, TranscriptTyped
<1>4. PICK e : /\ damaged = [ts EXCEPT ![k] = e] /\ e \in TranscriptSet(type)
               /\ ValueOf(e.mints, type) = ValueOf(ts[k].mints, type)
  <2>1. CASE damaged = [ts EXCEPT ![k] = [ts[k] EXCEPT !.readable = FALSE]]
    <3> DEFINE e == [ts[k] EXCEPT !.readable = FALSE]
    <3>1. e \in TranscriptSet(type) /\ e.mints = ts[k].mints
      BY <1>2 DEF TranscriptSet
    <3> HIDE DEF e
    <3>2. damaged = [ts EXCEPT ![k] = e]
      BY <2>1 DEF e
    <3> QED BY <3>1, <3>2
  <2>2. ASSUME NEW mints \in EntriesDamaged(ts[k].mints),
               damaged = [ts EXCEPT ![k] = [ts[k] EXCEPT !.mints = mints]]
        PROVE  \E e : /\ damaged = [ts EXCEPT ![k] = e] /\ e \in TranscriptSet(type)
                      /\ ValueOf(e.mints, type) = ValueOf(ts[k].mints, type)
    <3>1. /\ mints \in Seq(EntrySet(type, Nat))
          /\ ValueOf(mints, type) = ValueOf(ts[k].mints, type)
      BY <1>3, EntriesKept
    <3> DEFINE e == [ts[k] EXCEPT !.mints = mints]
    <3>2. e \in TranscriptSet(type) /\ e.mints = mints
      BY <1>2, <3>1 DEF TranscriptSet
    <3> HIDE DEF e
    <3>3. damaged = [ts EXCEPT ![k] = e]
      BY <2>2 DEF e
    <3> QED BY <3>1, <3>2, <3>3
  <2> QED BY <1>1, <2>1, <2>2
<1>5. /\ damaged \in Seq(TranscriptSet(type)) /\ DOMAIN damaged = DOMAIN ts
      /\ \A j \in DOMAIN ts : damaged[j] = IF j = k THEN e ELSE ts[j]
  BY <1>4, Replaced
<1>6. \A j \in DOMAIN ts : ValueOf(damaged[j].mints, type) = ValueOf(ts[j].mints, type)
  BY <1>4, <1>5
<1> QED BY <1>2, <1>5, <1>6 DEF MintedIn

\* Part of an action.
LEMMA ActionsKept ==
  ASSUME NEW type, NEW as \in Seq(ActionSet(type)), NEW damaged \in ActionsDamaged(as)
  PROVE  /\ damaged \in Seq(ActionSet(type)) /\ DOMAIN damaged = DOMAIN as
         /\ \A a \in DOMAIN as : MintedByAction(damaged[a], type) = MintedByAction(as[a], type)
         /\ \E a \in DOMAIN as : as[a].transcripts # <<>>
<1>1. PICK k \in DOMAIN as : \E ts \in TranscriptsDamaged(as[k].transcripts) :
        damaged = [as EXCEPT ![k] = [as[k] EXCEPT !.transcripts = ts]]
  BY DEF ActionsDamaged
<1>2. PICK ts \in TranscriptsDamaged(as[k].transcripts) :
        damaged = [as EXCEPT ![k] = [as[k] EXCEPT !.transcripts = ts]]
  BY <1>1
<1>3. as[k] \in ActionSet(type)
  BY SeqFinite
<1>4. /\ as[k].call \in BOOLEAN /\ as[k].transcripts \in Seq(TranscriptSet(type))
      /\ as[k].call \/ as[k].transcripts = <<>>
  BY <1>3, ActionTyped
<1>5. /\ ts \in Seq(TranscriptSet(type)) /\ as[k].transcripts # <<>>
      /\ MintedIn(ts, type) = MintedIn(as[k].transcripts, type)
  BY <1>4, TranscriptsKept
<1> DEFINE e == [as[k] EXCEPT !.transcripts = ts]
<1>6. e.transcripts = ts /\ e \in ActionSet(type)
  BY <1>3, <1>4, <1>5 DEF ActionSet
<1> HIDE DEF e
<1>7. MintedByAction(e, type) = MintedByAction(as[k], type)
  BY <1>5, <1>6 DEF MintedByAction, MintedIn
<1>8. damaged = [as EXCEPT ![k] = e]
  BY <1>2 DEF e
<1>9. /\ damaged \in Seq(ActionSet(type)) /\ DOMAIN damaged = DOMAIN as
      /\ \A j \in DOMAIN as : damaged[j] = IF j = k THEN e ELSE as[j]
  BY <1>6, <1>8, Replaced
<1> QED BY <1>5, <1>7, <1>9

\* Part of an intent.
LEMMA IntentsKept ==
  ASSUME NEW type, NEW is \in Seq(IntentSet(type)), NEW damaged \in IntentsDamaged(is)
  PROVE  /\ damaged \in Seq(IntentSet(type)) /\ DOMAIN damaged = DOMAIN is
         /\ \A i \in DOMAIN is : MintedByIntent(damaged[i], type) = MintedByIntent(is[i], type)
<1>1. PICK k \in DOMAIN is :
        \/ damaged = [is EXCEPT ![k] = [is[k] EXCEPT !.readable = FALSE]]
        \/ \E as \in ActionsDamaged(is[k].actions) :
             damaged = [is EXCEPT ![k] = [is[k] EXCEPT !.actions = as]]
  BY DEF IntentsDamaged
<1>2. is[k] \in IntentSet(type)
  OBVIOUS
<1>3. is[k].readable \in BOOLEAN /\ is[k].actions \in Seq(ActionSet(type))
  BY <1>2, IntentTyped
<1>4. PICK e : /\ damaged = [is EXCEPT ![k] = e] /\ e \in IntentSet(type)
               /\ MintedByIntent(e, type) = MintedByIntent(is[k], type)
  <2>1. CASE damaged = [is EXCEPT ![k] = [is[k] EXCEPT !.readable = FALSE]]
    <3> DEFINE e == [is[k] EXCEPT !.readable = FALSE]
    <3>1. e \in IntentSet(type) /\ e.actions = is[k].actions
      BY <1>2 DEF IntentSet
    <3> HIDE DEF e
    <3>2. damaged = [is EXCEPT ![k] = e]
      BY <2>1 DEF e
    <3>3. MintedByIntent(e, type) = MintedByIntent(is[k], type)
      BY <3>1 DEF MintedByIntent
    <3> QED BY <3>1, <3>2, <3>3
  <2>2. ASSUME NEW as \in ActionsDamaged(is[k].actions),
               damaged = [is EXCEPT ![k] = [is[k] EXCEPT !.actions = as]]
        PROVE  \E e : /\ damaged = [is EXCEPT ![k] = e] /\ e \in IntentSet(type)
                      /\ MintedByIntent(e, type) = MintedByIntent(is[k], type)
    <3>1. /\ as \in Seq(ActionSet(type)) /\ DOMAIN as = DOMAIN is[k].actions
          /\ \A a \in DOMAIN is[k].actions :
               MintedByAction(as[a], type) = MintedByAction(is[k].actions[a], type)
      BY <1>3, ActionsKept
    <3> DEFINE e == [is[k] EXCEPT !.actions = as]
    <3>2. e \in IntentSet(type) /\ e.actions = as
      BY <1>2, <3>1 DEF IntentSet
    <3> HIDE DEF e
    <3>3. damaged = [is EXCEPT ![k] = e]
      BY <2>2 DEF e
    <3>4. MintedByIntent(e, type) = MintedByIntent(is[k], type)
      BY <3>1, <3>2 DEF MintedByIntent
    <3> QED BY <3>2, <3>3, <3>4
  <2> QED BY <1>1, <2>1, <2>2
<1>5. /\ damaged \in Seq(IntentSet(type)) /\ DOMAIN damaged = DOMAIN is
      /\ \A j \in DOMAIN is : damaged[j] = IF j = k THEN e ELSE is[j]
  BY <1>4, Replaced
<1> QED BY <1>4, <1>5

\* An offer, or a number in one.
LEMMA OffersKept ==
  ASSUME NEW token, NEW os \in Seq(OfferSet(token)), NEW damaged \in OffersDamaged(os)
  PROVE  /\ damaged \in Seq(OfferSet(token)) /\ DOMAIN damaged = DOMAIN os
         /\ \A o \in DOMAIN os : ValueOf(damaged[o].deltas, token) = ValueOf(os[o].deltas, token)
<1>1. PICK k \in DOMAIN os :
        \/ damaged = [os EXCEPT ![k] = [os[k] EXCEPT !.readable = FALSE]]
        \/ \E deltas \in EntriesDamaged(os[k].deltas) :
             damaged = [os EXCEPT ![k] = [os[k] EXCEPT !.deltas = deltas]]
  BY DEF OffersDamaged
<1>2. os[k] \in OfferSet(token)
  OBVIOUS
<1>3. os[k].readable \in BOOLEAN /\ os[k].deltas \in Seq(EntrySet(token, Int))
  BY <1>2, OfferTyped
<1>4. PICK e : /\ damaged = [os EXCEPT ![k] = e] /\ e \in OfferSet(token)
               /\ ValueOf(e.deltas, token) = ValueOf(os[k].deltas, token)
  <2>1. CASE damaged = [os EXCEPT ![k] = [os[k] EXCEPT !.readable = FALSE]]
    <3> DEFINE e == [os[k] EXCEPT !.readable = FALSE]
    <3>1. e \in OfferSet(token) /\ e.deltas = os[k].deltas
      BY <1>2 DEF OfferSet
    <3> HIDE DEF e
    <3>2. damaged = [os EXCEPT ![k] = e]
      BY <2>1 DEF e
    <3> QED BY <3>1, <3>2
  <2>2. ASSUME NEW deltas \in EntriesDamaged(os[k].deltas),
               damaged = [os EXCEPT ![k] = [os[k] EXCEPT !.deltas = deltas]]
        PROVE  \E e : /\ damaged = [os EXCEPT ![k] = e] /\ e \in OfferSet(token)
                      /\ ValueOf(e.deltas, token) = ValueOf(os[k].deltas, token)
    <3>1. /\ deltas \in Seq(EntrySet(token, Int))
          /\ ValueOf(deltas, token) = ValueOf(os[k].deltas, token)
      BY <1>3, EntriesKept
    <3> DEFINE e == [os[k] EXCEPT !.deltas = deltas]
    <3>2. e \in OfferSet(token) /\ e.deltas = deltas
      BY <1>2, <3>1 DEF OfferSet
    <3> HIDE DEF e
    <3>3. damaged = [os EXCEPT ![k] = e]
      BY <2>2 DEF e
    <3> QED BY <3>1, <3>2, <3>3
  <2> QED BY <1>1, <2>1, <2>2
<1>5. /\ damaged \in Seq(OfferSet(token)) /\ DOMAIN damaged = DOMAIN os
      /\ \A j \in DOMAIN os : damaged[j] = IF j = k THEN e ELSE os[j]
  BY <1>4, Replaced
<1> QED BY <1>4, <1>5

\* The deltas of a transaction by offer.
ValuesOf(offers, token) == [o \in DOMAIN offers |-> ValueOf(offers[o].deltas, token)]

\* Two sequences with the same values in front, or at the end, of a third.
LEMMA ValuesBeside ==
  ASSUME NEW token, NEW a \in Seq(OfferSet(token)), NEW b \in Seq(OfferSet(token)),
         NEW c \in Seq(OfferSet(token)), DOMAIN a = DOMAIN b,
         \A o \in DOMAIN b : ValueOf(a[o].deltas, token) = ValueOf(b[o].deltas, token)
  PROVE  /\ ValuesOf(a \o c, token) = ValuesOf(b \o c, token)
         /\ ValuesOf(c \o a, token) = ValuesOf(c \o b, token)
<1>1. Len(a) = Len(b) /\ Len(b) \in Nat /\ Len(c) \in Nat
  OBVIOUS
<1>2. /\ DOMAIN (a \o c) = 1 .. Len(b) + Len(c) /\ DOMAIN (b \o c) = 1 .. Len(b) + Len(c)
      /\ DOMAIN (c \o a) = 1 .. Len(c) + Len(b) /\ DOMAIN (c \o b) = 1 .. Len(c) + Len(b)
  <2>1. /\ DOMAIN (a \o c) = 1 .. Len(a) + Len(c)
        /\ DOMAIN (c \o a) = 1 .. Len(c) + Len(a)
    OBVIOUS
  <2>2. DOMAIN (b \o c) = 1 .. Len(b) + Len(c) /\ DOMAIN (c \o b) = 1 .. Len(c) + Len(b)
    OBVIOUS
  <2> QED BY <1>1, <2>1, <2>2
<1>3. ASSUME NEW i \in 1 .. Len(b) + Len(c)
      PROVE  ValueOf((a \o c)[i].deltas, token) = ValueOf((b \o c)[i].deltas, token)
  <2>1. CASE i <= Len(b)
    <3>1. (a \o c)[i] = a[i] /\ (b \o c)[i] = b[i] /\ i \in DOMAIN b
      BY <1>1, <2>1
    <3> QED BY <3>1
  <2>2. CASE ~(i <= Len(b))
    <3>1. (a \o c)[i] = c[i - Len(b)] /\ (b \o c)[i] = c[i - Len(b)]
      BY <1>1, <2>2
    <3> QED BY <3>1
  <2> QED BY <2>1, <2>2
<1>4. ASSUME NEW i \in 1 .. Len(c) + Len(b)
      PROVE  ValueOf((c \o a)[i].deltas, token) = ValueOf((c \o b)[i].deltas, token)
  <2>1. CASE i <= Len(c)
    <3>1. (c \o a)[i] = c[i] /\ (c \o b)[i] = c[i]
      BY <1>1, <2>1
    <3> QED BY <3>1
  <2>2. CASE ~(i <= Len(c))
    <3> DEFINE k == i - Len(c)
    <3>1. (c \o a)[i] = a[k] /\ (c \o b)[i] = b[k] /\ k \in DOMAIN b
      BY <1>1, <2>2
    <3> HIDE DEF k
    <3> QED BY <3>1
  <2> QED BY <2>1, <2>2
<1> QED BY <1>2, <1>3, <1>4 DEF ValuesOf

\* What the truth of a transaction depends on.
LEMMA TruthDependsOn ==
  ASSUME NEW tx
  PROVE  TrueDelta(tx) = SumFunction(ValuesOf(tx.guaranteed \o tx.fallible, Token))
BY DEF TrueDelta, ValuesOf

\* Damage to a transaction changes neither its kind nor its truth.
LEMMA TxKept ==
  ASSUME NEW type, NEW tx \in TxSet(Token, type), NEW damaged \in Damaged(tx)
  PROVE  /\ damaged \in TxSet(Token, type)
         /\ TrueDelta(damaged) = TrueDelta(tx)
         /\ MintedByTx(damaged, type) = MintedByTx(tx, type)
<1>1. /\ tx.intents \in Seq(IntentSet(type)) /\ tx.guaranteed \in Seq(OfferSet(Token))
      /\ tx.fallible \in Seq(OfferSet(Token))
  BY TxTyped
<1>2. CASE damaged = [tx EXCEPT !.readable = FALSE]
  <2>1. /\ damaged \in TxSet(Token, type) /\ damaged.intents = tx.intents
        /\ damaged.guaranteed = tx.guaranteed /\ damaged.fallible = tx.fallible
    BY <1>2 DEF TxSet
  <2> QED BY <2>1 DEF TrueDelta, MintedByTx
<1>3. ASSUME NEW intents \in IntentsDamaged(tx.intents),
             damaged = [tx EXCEPT !.intents = intents]
      PROVE  /\ damaged \in TxSet(Token, type)
             /\ TrueDelta(damaged) = TrueDelta(tx)
             /\ MintedByTx(damaged, type) = MintedByTx(tx, type)
  <2>1. /\ intents \in Seq(IntentSet(type)) /\ DOMAIN intents = DOMAIN tx.intents
        /\ \A i \in DOMAIN tx.intents :
             MintedByIntent(intents[i], type) = MintedByIntent(tx.intents[i], type)
    BY <1>1, IntentsKept
  <2>2. /\ damaged \in TxSet(Token, type) /\ damaged.intents = intents
        /\ damaged.guaranteed = tx.guaranteed /\ damaged.fallible = tx.fallible
    BY <1>3, <2>1 DEF TxSet
  <2>3. TrueDelta(damaged) = TrueDelta(tx)
    BY <2>2 DEF TrueDelta
  <2>4. MintedByTx(damaged, type) = MintedByTx(tx, type)
    BY <2>1, <2>2 DEF MintedByTx
  <2> QED BY <2>2, <2>3, <2>4
<1>4. ASSUME NEW offers \in OffersDamaged(tx.guaranteed),
             damaged = [tx EXCEPT !.guaranteed = offers]
      PROVE  /\ damaged \in TxSet(Token, type)
             /\ TrueDelta(damaged) = TrueDelta(tx)
             /\ MintedByTx(damaged, type) = MintedByTx(tx, type)
  <2>1. /\ offers \in Seq(OfferSet(Token)) /\ DOMAIN offers = DOMAIN tx.guaranteed
        /\ \A o \in DOMAIN tx.guaranteed :
             ValueOf(offers[o].deltas, Token) = ValueOf(tx.guaranteed[o].deltas, Token)
    BY <1>1, OffersKept
  <2>2. /\ damaged \in TxSet(Token, type) /\ damaged.intents = tx.intents
        /\ damaged.guaranteed = offers /\ damaged.fallible = tx.fallible
    BY <1>4, <2>1 DEF TxSet
  <2>3. ValuesOf(offers \o tx.fallible, Token) = ValuesOf(tx.guaranteed \o tx.fallible, Token)
    BY <1>1, <2>1, ValuesBeside
  <2>4. TrueDelta(damaged) = TrueDelta(tx)
    BY <2>2, <2>3, TruthDependsOn
  <2>5. MintedByTx(damaged, type) = MintedByTx(tx, type)
    BY <2>2 DEF MintedByTx
  <2> QED BY <2>2, <2>4, <2>5
<1>5. ASSUME NEW offers \in OffersDamaged(tx.fallible),
             damaged = [tx EXCEPT !.fallible = offers]
      PROVE  /\ damaged \in TxSet(Token, type)
             /\ TrueDelta(damaged) = TrueDelta(tx)
             /\ MintedByTx(damaged, type) = MintedByTx(tx, type)
  <2>1. /\ offers \in Seq(OfferSet(Token)) /\ DOMAIN offers = DOMAIN tx.fallible
        /\ \A o \in DOMAIN tx.fallible :
             ValueOf(offers[o].deltas, Token) = ValueOf(tx.fallible[o].deltas, Token)
    BY <1>1, OffersKept
  <2>2. /\ damaged \in TxSet(Token, type) /\ damaged.intents = tx.intents
        /\ damaged.guaranteed = tx.guaranteed /\ damaged.fallible = offers
    BY <1>5, <2>1 DEF TxSet
  <2>3. ValuesOf(tx.guaranteed \o offers, Token) = ValuesOf(tx.guaranteed \o tx.fallible, Token)
    BY <1>1, <2>1, ValuesBeside
  <2>4. TrueDelta(damaged) = TrueDelta(tx)
    BY <2>2, <2>3, TruthDependsOn
  <2>5. MintedByTx(damaged, type) = MintedByTx(tx, type)
    BY <2>2 DEF MintedByTx
  <2> QED BY <2>2, <2>4, <2>5
<1> QED BY <1>2, <1>3, <1>4, <1>5 DEF Damaged

-----------------------------------------------------------------------------
(* The transactions of the scenario                                        *)

\* What the run captures: what a transaction mints, its offers pay for.
GoodTx ==
  { tx \in TxSet(Token, MintType) :
      TrueMints(tx) = 0 \/ TrueDelta(tx) = 0 - TrueMints(tx) }

\* A deploy, whatever is read of it.
BareTx ==
  { tx \in TxSet(Token, MintType) :
      /\ tx.guaranteed = <<>> /\ tx.fallible = <<>>
      /\ \A i \in DOMAIN tx.intents : \A a \in DOMAIN tx.intents[i].actions :
           tx.intents[i].actions[a].transcripts = <<>> }

\* A sequence of one.
LEMMA OneIsSeq ==
  ASSUME NEW X, NEW x \in X
  PROVE  <<x>> \in Seq(X) /\ DOMAIN <<x>> = {1} /\ <<x>>[1] = x
OBVIOUS

\* The empty sequence.
LEMMA NoneIsSeq ==
  ASSUME NEW X
  PROVE  <<>> \in Seq(X) /\ DOMAIN <<>> = {}
OBVIOUS

\* What nothing is minted by.
LEMMA NothingMinted ==
  ASSUME NEW type, NEW intent \in IntentSet(type),
         \A a \in DOMAIN intent.actions : \A t \in DOMAIN intent.actions[a].transcripts :
           intent.actions[a].transcripts[t].mints = <<>>
  PROVE  MintedByIntent(intent, type) = 0
<1>1. intent.actions \in Seq(ActionSet(type))
  BY IntentTyped
<1>2. ValueOf(<<>>, type) = 0
  <2> DEFINE f == [e \in DOMAIN <<>> |-> IF (<<>>)[e].type = type THEN (<<>>)[e].value ELSE 0]
  <2>1. DOMAIN f = {}
    OBVIOUS
  <2>2. ValueOf(<<>>, type) = SumFunction(f)
    BY DEF ValueOf
  <2> HIDE DEF f
  <2> QED BY <2>1, <2>2, FS_EmptySet, SumsZero
<1>3. ASSUME NEW a \in DOMAIN intent.actions
      PROVE  MintedByAction(intent.actions[a], type) = 0
  <2> DEFINE ts == intent.actions[a].transcripts
             f == [t \in DOMAIN ts |-> ValueOf(ts[t].mints, type)]
  <2>1. ts \in Seq(TranscriptSet(type))
    <3>1. intent.actions[a] \in ActionSet(type)
      BY <1>1, SeqFinite
    <3> QED BY <3>1, ActionTyped
  <2>2. DOMAIN f = DOMAIN ts /\ IsFiniteSet(DOMAIN ts)
    BY <2>1, SeqFinite
  <2>3. \A t \in DOMAIN ts : f[t] = 0
    BY <1>2
  <2>4. MintedByAction(intent.actions[a], type) = SumFunction(f)
    BY DEF MintedByAction
  <2> HIDE DEF f
  <2> QED BY <2>2, <2>3, <2>4, SumsZero
<1> DEFINE f == [a \in DOMAIN intent.actions |-> MintedByAction(intent.actions[a], type)]
<1>4. DOMAIN f = DOMAIN intent.actions /\ IsFiniteSet(DOMAIN intent.actions)
  BY <1>1, SeqFinite
<1>5. \A a \in DOMAIN intent.actions : f[a] = 0
  BY <1>3
<1>6. MintedByIntent(intent, type) = SumFunction(f)
  BY DEF MintedByIntent
<1> HIDE DEF f
<1> QED BY <1>4, <1>5, <1>6, SumsZero

\* Nor by a transaction of such intents.
LEMMA NothingMintedByTx ==
  ASSUME NEW token, NEW type, NEW tx \in TxSet(token, type),
         \A i \in DOMAIN tx.intents : MintedByIntent(tx.intents[i], type) = 0
  PROVE  MintedByTx(tx, type) = 0
<1> DEFINE f == [i \in DOMAIN tx.intents |-> MintedByIntent(tx.intents[i], type)]
<1>1. tx.intents \in Seq(IntentSet(type))
  BY TxTyped
<1>2. DOMAIN f = DOMAIN tx.intents /\ IsFiniteSet(DOMAIN tx.intents)
  BY <1>1, SeqFinite
<1>3. \A i \in DOMAIN tx.intents : f[i] = 0
  OBVIOUS
<1>4. MintedByTx(tx, type) = SumFunction(f)
  BY DEF MintedByTx
<1> HIDE DEF f
<1> QED BY <1>2, <1>3, <1>4, SumsZero

\* A deploy has no truth to tell, and damage adds none.
LEMMA BareIsNothing ==
  ASSUME NEW tx \in BareTx
  PROVE  /\ tx \in GoodTx /\ TrueDelta(tx) = 0 /\ TrueMints(tx) = 0
         /\ ~DeltaLost(tx)
<1>1. /\ tx \in TxSet(Token, MintType) /\ tx.guaranteed = <<>> /\ tx.fallible = <<>>
      /\ \A i \in DOMAIN tx.intents : \A a \in DOMAIN tx.intents[i].actions :
           tx.intents[i].actions[a].transcripts = <<>>
  BY DEF BareTx
<1>2. TrueMints(tx) = 0
  <2>1. tx.intents \in Seq(IntentSet(MintType))
    BY <1>1, TxTyped
  <2>2. ASSUME NEW i \in DOMAIN tx.intents
        PROVE  MintedByIntent(tx.intents[i], MintType) = 0
    <3>1. tx.intents[i] \in IntentSet(MintType)
      BY <2>1, SeqFinite
    <3>2. \A a \in DOMAIN tx.intents[i].actions :
            tx.intents[i].actions[a].transcripts = <<>>
      BY <1>1
    <3>3. DOMAIN <<>> = {}
      OBVIOUS
    <3>4. \A a \in DOMAIN tx.intents[i].actions :
            \A t \in DOMAIN tx.intents[i].actions[a].transcripts :
              tx.intents[i].actions[a].transcripts[t].mints = <<>>
      BY <3>2, <3>3
    <3> QED BY <3>1, <3>4, NothingMinted
  <2> QED BY <1>1, <2>2, NothingMintedByTx DEF TrueMints
<1>3. TrueDelta(tx) = 0
  <2> DEFINE f == ValuesOf(tx.guaranteed \o tx.fallible, Token)
  <2>1. tx.guaranteed \o tx.fallible = <<>>
    BY <1>1
  <2>2. DOMAIN f = {}
    <3> DEFINE both == tx.guaranteed \o tx.fallible
    <3>1. both = <<>>
      BY <2>1
    <3> HIDE DEF both
    <3>2. DOMAIN ValuesOf(both, Token) = {}
      BY <3>1 DEF ValuesOf
    <3> QED BY <3>2 DEF both
  <2> HIDE DEF f
  <2>3. SumFunction(f) = 0
    BY <2>2, FS_EmptySet, SumsZero
  <2> QED BY <2>3, TruthDependsOn DEF f
<1>4. ~DeltaLost(tx)
  BY <1>1 DEF DeltaLost
<1> QED BY <1>1, <1>2, <1>3, <1>4 DEF GoodTx

\* A deploy that is damaged stays a deploy.
LEMMA BareKept ==
  ASSUME NEW tx \in BareTx, NEW damaged \in Damaged(tx)
  PROVE  damaged \in BareTx
<1>1. /\ tx \in TxSet(Token, MintType) /\ tx.guaranteed = <<>> /\ tx.fallible = <<>>
      /\ \A i \in DOMAIN tx.intents : \A a \in DOMAIN tx.intents[i].actions :
           tx.intents[i].actions[a].transcripts = <<>>
  BY DEF BareTx
<1>2. damaged \in TxSet(Token, MintType)
  BY <1>1, TxKept
<1>3. tx.intents \in Seq(IntentSet(MintType))
  BY <1>1, TxTyped
<1>4. OffersDamaged(<<>>) = {}
  BY NoneIsSeq DEF OffersDamaged
<1>5. CASE damaged = [tx EXCEPT !.readable = FALSE]
  <2>1. /\ damaged.intents = tx.intents /\ damaged.guaranteed = tx.guaranteed
        /\ damaged.fallible = tx.fallible
    BY <1>1, <1>5 DEF TxSet
  <2> QED BY <1>1, <1>2, <2>1 DEF BareTx
<1>6. ASSUME NEW intents \in IntentsDamaged(tx.intents),
             damaged = [tx EXCEPT !.intents = intents]
      PROVE  damaged \in BareTx
  <2>1. /\ damaged.intents = intents /\ damaged.guaranteed = <<>>
        /\ damaged.fallible = <<>>
    BY <1>1, <1>6 DEF TxSet
  <2>2. PICK k \in DOMAIN tx.intents :
          \/ intents = [tx.intents EXCEPT ![k] = [tx.intents[k] EXCEPT !.readable = FALSE]]
          \/ \E as \in ActionsDamaged(tx.intents[k].actions) :
               intents = [tx.intents EXCEPT ![k] = [tx.intents[k] EXCEPT !.actions = as]]
    BY DEF IntentsDamaged
  <2>3. tx.intents[k] \in IntentSet(MintType)
    BY <1>3, SeqFinite
  <2>4. ActionsDamaged(tx.intents[k].actions) = {}
    <3>1. tx.intents[k].actions \in Seq(ActionSet(MintType))
      BY <2>3, IntentTyped
    <3>2. ASSUME NEW as \in ActionsDamaged(tx.intents[k].actions) PROVE FALSE
      BY <1>1, <3>1, <3>2, ActionsKept
    <3> QED BY <3>2
  <2> DEFINE e == [tx.intents[k] EXCEPT !.readable = FALSE]
  <2>5. e \in IntentSet(MintType) /\ e.actions = tx.intents[k].actions
    BY <2>3 DEF IntentSet
  <2> HIDE DEF e
  <2>6. intents = [tx.intents EXCEPT ![k] = e]
    BY <2>2, <2>4 DEF e
  <2>7. /\ DOMAIN intents = DOMAIN tx.intents
        /\ \A j \in DOMAIN tx.intents : intents[j] = IF j = k THEN e ELSE tx.intents[j]
    BY <1>3, <2>5, <2>6, Replaced
  <2>8. \A i \in DOMAIN intents : intents[i].actions = tx.intents[i].actions
    BY <2>5, <2>7
  <2> QED BY <1>1, <1>2, <2>1, <2>7, <2>8 DEF BareTx
<1> QED BY <1>1, <1>4, <1>5, <1>6 DEF Damaged

\* Reading errors leave good transactions good.
LEMMA FlawedIsGood ==
  ASSUME NEW txs, txs \subseteq GoodTx
  PROVE  Flawed(txs) \subseteq GoodTx
<1>1. ASSUME NEW tx \in txs, NEW damaged \in Damaged(tx) PROVE damaged \in GoodTx
  <2>1. tx \in TxSet(Token, MintType) /\ (TrueMints(tx) = 0 \/ TrueDelta(tx) = 0 - TrueMints(tx))
    BY DEF GoodTx
  <2>2. /\ damaged \in TxSet(Token, MintType) /\ TrueDelta(damaged) = TrueDelta(tx)
        /\ TrueMints(damaged) = TrueMints(tx)
    BY <2>1, TxKept DEF TrueMints
  <2> QED BY <2>1, <2>2 DEF GoodTx
<1> QED BY <1>1 DEF Flawed

\* And deploys deploys.
LEMMA FlawedIsBare ==
  ASSUME NEW txs, txs \subseteq BareTx
  PROVE  Flawed(txs) \subseteq BareTx
BY BareKept DEF Flawed

\* A map with one entry, and one with none.
LEMMA EntryIn ==
  ASSUME NEW type, NEW values, values \subseteq Int, NEW value \in values
  PROVE  /\ <<Entry(type, value)>> \in Seq(EntrySet(type, values))
         /\ ValueOf(<<Entry(type, value)>>, type) = value
<1> DEFINE e == Entry(type, value)
           f == [k \in DOMAIN <<e>> |-> IF (<<e>>)[k].type = type THEN (<<e>>)[k].value ELSE 0]
<1>1. e \in EntrySet(type, values) /\ e.type = type /\ e.value = value
  BY DEF Entry, EntrySet
<1> HIDE DEF e
<1>2. DOMAIN f = {1} /\ f[1] = value
  BY <1>1, OneIsSeq
<1>3. ValueOf(<<e>>, type) = SumFunction(f)
  BY DEF ValueOf
<1>4. value \in Int
  OBVIOUS
<1> HIDE DEF f
<1>5. SumFunction(f) = f[1]
  BY <1>2, <1>4, SumsOne
<1>6. <<e>> \in Seq(EntrySet(type, values))
  BY <1>1
<1> QED BY <1>2, <1>3, <1>5, <1>6 DEF e

\* No entries have no value.
LEMMA NoValue ==
  ASSUME NEW type
  PROVE  ValueOf(<<>>, type) = 0
<1> DEFINE f == [e \in DOMAIN <<>> |-> IF (<<>>)[e].type = type THEN (<<>>)[e].value ELSE 0]
<1>1. DOMAIN f = {}
  OBVIOUS
<1>2. ValueOf(<<>>, type) = SumFunction(f)
  BY DEF ValueOf
<1> HIDE DEF f
<1> QED BY <1>1, <1>2, FS_EmptySet, SumsZero

\* A call mints what its two transcripts say.
LEMMA CallIn ==
  ASSUME NEW type, NEW g \in Seq(EntrySet(type, Nat)), NEW f \in Seq(EntrySet(type, Nat)),
         ValueOf(g, type) \in Int, ValueOf(f, type) \in Int
  PROVE  /\ <<Call(g, f)>> \in Seq(ActionSet(type))
         /\ Intent(<<Call(g, f)>>) \in IntentSet(type)
         /\ MintedByIntent(Intent(<<Call(g, f)>>), type)
              = ValueOf(g, type) + ValueOf(f, type)
<1> DEFINE ts == <<Transcript(g), Transcript(f)>>
           a == Call(g, f)
           h == [t \in DOMAIN ts |-> ValueOf(ts[t].mints, type)]
<1>1. Transcript(g) \in TranscriptSet(type) /\ Transcript(f) \in TranscriptSet(type)
  BY DEF Transcript, TranscriptSet
<1>2. Transcript(g).mints = g /\ Transcript(f).mints = f
  BY DEF Transcript
<1>3. ts \in Seq(TranscriptSet(type)) /\ DOMAIN ts = 1 .. 2
  BY <1>1
<1>4. a.call = TRUE /\ a.transcripts = ts /\ a = [call |-> TRUE, transcripts |-> ts]
  BY DEF Call
<1>5. h[1] = ValueOf(g, type) /\ h[2] = ValueOf(f, type) /\ DOMAIN h = 1 .. 2
  BY <1>2, <1>3
<1>6. MintedByAction(a, type) = SumFunction(h)
  BY <1>4 DEF MintedByAction
<1> HIDE DEF h
<1>7. SumFunction(h) = ValueOf(g, type) + ValueOf(f, type)
  BY <1>5, SumsTwo
<1>8. a \in ActionSet(type)
  <2> HIDE DEF a, ts
  <2> QED BY <1>3, <1>4 DEF ActionSet
<1> HIDE DEF a, ts
<1>9. <<a>> \in Seq(ActionSet(type))
  BY <1>8
<1>10. Intent(<<a>>) \in IntentSet(type) /\ Intent(<<a>>).actions = <<a>>
  BY <1>9 DEF Intent, IntentSet
<1> DEFINE i == Intent(<<a>>)
           k == [b \in DOMAIN i.actions |-> MintedByAction(i.actions[b], type)]
<1>11. DOMAIN k = {1} /\ k[1] = MintedByAction(a, type)
  BY <1>10, OneIsSeq
<1>12. MintedByIntent(i, type) = SumFunction(k)
  BY DEF MintedByIntent
<1> HIDE DEF k, i
<1>13. k[1] \in Int
  BY <1>6, <1>7, <1>11
<1>14. SumFunction(k) = k[1]
  BY <1>11, <1>13, SumsOne
<1> QED BY <1>6, <1>7, <1>9, <1>10, <1>11, <1>12, <1>14 DEF a, i

\* Paying fees mints nothing.
LEMMA FeeIn ==
  ASSUME NEW type
  PROVE  FeeIntent \in IntentSet(type) /\ MintedByIntent(FeeIntent, type) = 0
<1>1. FeeIntent \in IntentSet(type) /\ FeeIntent.actions = <<>>
  BY NoneIsSeq DEF FeeIntent, Intent, IntentSet
<1>2. \A a \in DOMAIN FeeIntent.actions : FALSE
  BY <1>1, NoneIsSeq
<1> QED BY <1>1, <1>2, NothingMinted

\* An offer with one delta.
LEMMA OfferIn ==
  ASSUME NEW token, NEW deltas \in Seq(EntrySet(token, Int))
  PROVE  /\ <<Offer(deltas)>> \in Seq(OfferSet(token))
         /\ DOMAIN <<Offer(deltas)>> = {1}
         /\ <<Offer(deltas)>>[1].deltas = deltas
<1>1. Offer(deltas) \in OfferSet(token) /\ Offer(deltas).deltas = deltas
  BY DEF Offer, OfferSet
<1> DEFINE o == Offer(deltas)
<1> HIDE DEF o
<1>2. o \in OfferSet(token) /\ o.deltas = deltas
  BY <1>1 DEF o
<1>3. <<o>> \in Seq(OfferSet(token)) /\ DOMAIN <<o>> = {1} /\ <<o>>[1] = o
  BY <1>2
<1> QED BY <1>2, <1>3 DEF o

\* A transaction with one offer has the delta of that offer.
LEMMA OneOffer ==
  ASSUME NEW deltas \in Seq(EntrySet(Token, Int)), ValueOf(deltas, Token) \in Int,
         NEW both, both = <<Offer(deltas)>>
  PROVE  SumFunction(ValuesOf(both, Token)) = ValueOf(deltas, Token)
<1> DEFINE f == ValuesOf(both, Token)
<1>1. DOMAIN both = {1} /\ both[1].deltas = deltas
  BY OfferIn
<1>2. DOMAIN f = {1} /\ f[1] = ValueOf(deltas, Token)
  BY <1>1 DEF ValuesOf
<1> HIDE DEF f
<1>3. SumFunction(f) = f[1]
  BY <1>2, SumsOne
<1> QED BY <1>2, <1>3 DEF f

\* The transaction is of the parts it is made of.
LEMMA RawIn ==
  ASSUME NEW token, NEW type, NEW is \in Seq(IntentSet(type)),
         NEW g \in Seq(OfferSet(token)), NEW f \in Seq(OfferSet(token)),
         NEW tx, tx = Raw(is, g, f)
  PROVE  /\ tx \in TxSet(token, type) /\ tx.intents = is
         /\ tx.guaranteed = g /\ tx.fallible = f
BY DEF Raw, TxSet

\* A mint of its deployment has one offer, with or without an intent for its fees.
LEMMA MintIn ==
  ASSUME NEW token, NEW type, NEW value \in Nat, NEW tx \in MintTxs(token, type, value)
  PROVE  /\ tx \in TxSet(token, type)
         /\ MintedByTx(tx, type) = value
         /\ token = Token => TrueDelta(tx) = 0 - value
<1> DEFINE none == <<>>
           effect == <<Entry(type, value)>>
           deltas == <<Entry(token, 0 - value)>>
           offer == <<Offer(deltas)>>
           first == Call(effect, none)
           second == Call(none, effect)
<1>1. PICK fees \in {<<>>, <<FeeIntent>>} :
        \/ tx = Raw(fees \o <<Intent(<<first>>)>>, offer, none)
        \/ tx = Raw(fees \o <<Intent(<<second>>)>>, none, offer)
  BY DEF MintTxs
<1>2. effect \in Seq(EntrySet(type, Nat)) /\ ValueOf(effect, type) = value
  <2>1. Nat \subseteq Int
    OBVIOUS
  <2> QED BY <2>1, EntryIn
<1>3. deltas \in Seq(EntrySet(token, Int)) /\ ValueOf(deltas, token) = 0 - value
  <2> DEFINE minus == 0 - value
  <2>1. minus \in Int /\ Int \subseteq Int
    OBVIOUS
  <2> HIDE DEF minus
  <2>2. /\ <<Entry(token, minus)>> \in Seq(EntrySet(token, Int))
        /\ ValueOf(<<Entry(token, minus)>>, token) = minus
    BY <2>1, EntryIn
  <2> QED BY <2>2 DEF minus
<1>4. none \in Seq(EntrySet(type, Nat)) /\ ValueOf(none, type) = 0
  BY NoneIsSeq, NoValue
<1> HIDE DEF effect, deltas, none
<1>5. /\ Intent(<<first>>) \in IntentSet(type)
      /\ MintedByIntent(Intent(<<first>>), type) = value + 0
  BY <1>2, <1>4, CallIn
<1>6. /\ Intent(<<second>>) \in IntentSet(type)
      /\ MintedByIntent(Intent(<<second>>), type) = 0 + value
  BY <1>2, <1>4, CallIn
<1>7. PICK intent \in IntentSet(type) :
        /\ MintedByIntent(intent, type) = value
        /\ \/ tx = Raw(fees \o <<intent>>, offer, none)
           \/ tx = Raw(fees \o <<intent>>, none, offer)
  <2> HIDE DEF first, second, offer
  <2>1. value + 0 = value /\ 0 + value = value
    OBVIOUS
  <2> QED BY <1>1, <1>5, <1>6, <2>1
<1> DEFINE is == fees \o <<intent>>
           k == [i \in DOMAIN is |-> MintedByIntent(is[i], type)]
<1>8. offer \in Seq(OfferSet(token)) /\ none \in Seq(OfferSet(token))
  BY <1>3, OfferIn, NoneIsSeq DEF none
<1>9. FeeIntent \in IntentSet(type) /\ MintedByIntent(FeeIntent, type) = 0
  BY FeeIn
<1>10. is \in Seq(IntentSet(type)) /\ SumFunction(k) = value
  <2>1. CASE fees = <<>>
    <3>1. is = <<intent>>
      BY <2>1
    <3>2. is \in Seq(IntentSet(type)) /\ DOMAIN is = {1} /\ is[1] = intent
      BY <3>1, OneIsSeq
    <3> HIDE DEF is
    <3>3. DOMAIN k = {1} /\ k[1] = value
      BY <1>7, <3>2
    <3> HIDE DEF k
    <3>4. k[1] \in Int
      BY <3>3
    <3>5. SumFunction(k) = k[1]
      BY <3>3, <3>4, SumsOne
    <3> QED BY <3>2, <3>3, <3>5
  <2>2. CASE fees = <<FeeIntent>>
    <3>1. /\ is \in Seq(IntentSet(type)) /\ DOMAIN is = 1 .. 2
          /\ is[1] = FeeIntent /\ is[2] = intent
      BY <1>9, <2>2
    <3> HIDE DEF is
    <3>2. DOMAIN k = 1 .. 2 /\ k[1] = 0 /\ k[2] = value
      BY <1>7, <1>9, <3>1
    <3> HIDE DEF k
    <3>3. k[1] \in Int /\ k[2] \in Int
      BY <3>2
    <3>4. SumFunction(k) = k[1] + k[2]
      BY <3>2, <3>3, SumsTwo
    <3> QED BY <3>1, <3>2, <3>4
  <2> QED BY <2>1, <2>2
<1> HIDE DEF is, offer
<1>11. /\ tx \in TxSet(token, type) /\ tx.intents = is
       /\ tx.guaranteed \o tx.fallible = offer
  <2>1. offer \o none = offer /\ none \o offer = offer
    BY <1>8 DEF none
  <2>2. CASE tx = Raw(is, offer, none)
    <3>1. /\ tx \in TxSet(token, type) /\ tx.intents = is
          /\ tx.guaranteed = offer /\ tx.fallible = none
      BY <1>8, <1>10, <2>2, RawIn
    <3> QED BY <2>1, <3>1
  <2>3. CASE tx = Raw(is, none, offer)
    <3>1. /\ tx \in TxSet(token, type) /\ tx.intents = is
          /\ tx.guaranteed = none /\ tx.fallible = offer
      BY <1>8, <1>10, <2>3, RawIn
    <3> QED BY <2>1, <3>1
  <2> QED BY <1>7, <2>2, <2>3 DEF is
<1>12. MintedByTx(tx, type) = value
  BY <1>10, <1>11 DEF MintedByTx
<1>13. ASSUME token = Token PROVE TrueDelta(tx) = 0 - value
  <2> DEFINE both == tx.guaranteed \o tx.fallible
  <2>1. both = <<Offer(deltas)>>
    BY <1>11 DEF offer
  <2> HIDE DEF both
  <2>2. deltas \in Seq(EntrySet(Token, Int)) /\ ValueOf(deltas, Token) = 0 - value
    BY <1>3, <1>13
  <2>3. ValueOf(deltas, Token) \in Int
    BY <2>2
  <2>4. SumFunction(ValuesOf(both, Token)) = ValueOf(deltas, Token)
    BY <2>1, <2>2, <2>3, OneOffer
  <2> QED BY <2>2, <2>4, TruthDependsOn DEF both
<1> QED BY <1>11, <1>12, <1>13

\* Every transaction of the scenario pays for what it mints, and the first is a
\* deploy.
LEMMA SubmittedIsGood ==
  ASSUME NEW n \in 1 .. 5
  PROVE  Submitted(n) \subseteq GoodTx /\ (n = 1 => Submitted(n) \subseteq BareTx)
<1> DEFINE none == <<>>
           deploy == [call |-> FALSE, transcripts |-> <<>>]
<1>1. /\ none \in Seq(OfferSet(Token)) /\ none \in Seq(IntentSet(MintType))
      /\ none \in Seq(EntrySet(MintType, Nat)) /\ none \in Seq(EntrySet(Token, Int))
      /\ ValueOf(none, MintType) = 0 /\ DOMAIN none = {}
  BY NoneIsSeq, NoValue
<1>2. Raw(<<Intent(<<deploy>>)>>, none, none) \in BareTx
  <2>1. deploy \in ActionSet(MintType) /\ deploy.transcripts = <<>>
    <3>1. <<>> \in Seq(TranscriptSet(MintType))
      BY NoneIsSeq
    <3> QED BY <3>1 DEF ActionSet
  <2> HIDE DEF deploy
  <2>2. /\ <<deploy>> \in Seq(ActionSet(MintType)) /\ DOMAIN <<deploy>> = {1}
        /\ <<deploy>>[1] = deploy
    BY <2>1, OneIsSeq
  <2> DEFINE intent == Intent(<<deploy>>)
  <2>3. intent \in IntentSet(MintType) /\ intent.actions = <<deploy>>
    BY <2>2 DEF Intent, IntentSet
  <2> HIDE DEF intent
  <2>4. /\ <<intent>> \in Seq(IntentSet(MintType)) /\ DOMAIN <<intent>> = {1}
        /\ <<intent>>[1] = intent
    BY <2>3, OneIsSeq
  <2> DEFINE is == <<intent>>
             tx == Raw(is, none, none)
  <2>0. tx = Raw(is, none, none)
    OBVIOUS
  <2> HIDE DEF is, none, tx
  <2>5. /\ tx \in TxSet(Token, MintType) /\ tx.intents = is
        /\ tx.guaranteed = none /\ tx.fallible = none
    <3>1. /\ is \in Seq(IntentSet(MintType)) /\ none \in Seq(OfferSet(Token))
      BY <1>1, <2>4 DEF is
    <3> QED BY <2>0, <3>1, RawIn
  <2>6. tx \in BareTx
    BY <2>1, <2>2, <2>3, <2>4, <2>5 DEF BareTx, is, none
  <2> QED BY <2>6 DEF tx, is, intent
<1>3. ASSUME NEW tx \in TxSet(Token, MintType),
             \A i \in DOMAIN tx.intents : MintedByIntent(tx.intents[i], MintType) = 0
      PROVE  tx \in GoodTx
  BY <1>3, NothingMintedByTx DEF GoodTx, TrueMints
<1>4. CASE n = 1
  BY <1>2, <1>4, BareIsNothing DEF Submitted
<1>5. CASE n = 2
  <2>1. ASSUME NEW tx \in MintTxs(Token, MintType, M) PROVE tx \in GoodTx
    <3>1. M \in Nat
      BY TypesAssumption DEF TypesAssumption
    <3>2. tx \in TxSet(Token, MintType) /\ TrueMints(tx) = M /\ TrueDelta(tx) = 0 - M
      BY <3>1, MintIn DEF TrueMints
    <3> QED BY <3>2 DEF GoodTx
  <2> QED BY <1>5, <2>1 DEF Submitted
<1>6. CASE n = 3
  <2> DEFINE intent == Intent(<<Call(none, none)>>)
  <2> HIDE DEF none
  <2>2. /\ Intent(<<Call(none, none)>>) \in IntentSet(MintType)
        /\ MintedByIntent(Intent(<<Call(none, none)>>), MintType)
             = ValueOf(none, MintType) + ValueOf(none, MintType)
    <3>1. ValueOf(none, MintType) \in Int
      BY <1>1
    <3> QED BY <1>1, <3>1, CallIn
  <2> HIDE DEF intent
  <2>3. intent \in IntentSet(MintType) /\ MintedByIntent(intent, MintType) = 0
    BY <1>1, <2>2 DEF intent
  <2>4. /\ <<intent>> \in Seq(IntentSet(MintType)) /\ DOMAIN <<intent>> = {1}
        /\ <<intent>>[1] = intent
    BY <2>3, OneIsSeq
  <2>5. <<Offer(none)>> \in Seq(OfferSet(Token))
    BY <1>1, OfferIn
  <2> DEFINE is == <<intent>>
             offer == <<Offer(none)>>
             tx == Raw(is, offer, none)
  <2>0. tx = Raw(is, offer, none)
    OBVIOUS
  <2> HIDE DEF is, offer, tx
  <2>6. tx \in TxSet(Token, MintType) /\ tx.intents = is
    <3>1. /\ is \in Seq(IntentSet(MintType)) /\ none \in Seq(OfferSet(Token))
          /\ offer \in Seq(OfferSet(Token))
      BY <1>1, <2>4, <2>5 DEF is, offer
    <3> QED BY <2>0, <3>1, RawIn
  <2>7. tx \in GoodTx
    BY <1>3, <2>3, <2>4, <2>6 DEF is
  <2>8. Submitted(n) = {tx}
    BY <1>6 DEF Submitted, tx, is, offer, intent, none
  <2> QED BY <1>6, <2>7, <2>8
<1>7. CASE n = 4
  <2> DEFINE offer == <<Offer(none)>>
             tx == Raw(none, offer, none)
  <2> HIDE DEF none
  <2>0. tx = Raw(none, offer, none)
    OBVIOUS
  <2>1. offer \in Seq(OfferSet(Token))
    BY <1>1, OfferIn
  <2> HIDE DEF offer, tx
  <2>2. tx \in TxSet(Token, MintType) /\ tx.intents = none
    <3>1. none \in Seq(IntentSet(MintType)) /\ none \in Seq(OfferSet(Token))
      BY <1>1
    <3> QED BY <2>0, <2>1, <3>1, RawIn
  <2>3. tx \in GoodTx
    BY <1>1, <1>3, <2>2
  <2>4. Submitted(n) = {tx}
    BY <1>7 DEF Submitted, tx, offer, none
  <2> QED BY <1>7, <2>3, <2>4
<1>8. CASE n = 5
  <2> DEFINE deltas == <<Entry(Token, P)>>
             offer == <<Offer(deltas)>>
             tx == Raw(none, offer, none)
  <2> HIDE DEF none
  <2>0. tx = Raw(none, offer, none)
    OBVIOUS
  <2>1. offer \in Seq(OfferSet(Token))
    <3>1. P \in Int /\ Int \subseteq Int
      BY TypesAssumption DEF TypesAssumption
    <3>2. deltas \in Seq(EntrySet(Token, Int))
      BY <3>1, EntryIn
    <3> HIDE DEF deltas
    <3> QED BY <3>2, OfferIn
  <2> HIDE DEF offer, tx
  <2>2. tx \in TxSet(Token, MintType) /\ tx.intents = none
    <3>1. none \in Seq(IntentSet(MintType)) /\ none \in Seq(OfferSet(Token))
      BY <1>1
    <3> QED BY <2>0, <2>1, <3>1, RawIn
  <2>3. tx \in GoodTx
    BY <1>1, <1>3, <2>2
  <2>4. Submitted(n) = {tx}
    BY <1>8 DEF Submitted, tx, offer, deltas, none
  <2> QED BY <1>8, <2>3, <2>4
<1> QED BY <1>4, <1>5, <1>6, <1>7, <1>8

\* The readings with at most n flaws.
MintChain(f, n) ==
  f = [flaws \in 0 .. n |-> IF flaws = 0 THEN Submitted(2) ELSE Flawed(f[flaws - 1])]

\* They are defined for every n.
LEMMA MintChainExists ==
  ASSUME NEW n \in Nat
  PROVE  \E f : MintChain(f, n)
<1> DEFINE Bad == {k \in Nat : ~\E f : MintChain(f, k)}
<1>1. SUFFICES ASSUME Bad # {} PROVE FALSE
  OBVIOUS
<1>2. Min(Bad) \in Bad /\ \A k \in Bad : Min(Bad) <= k
  <2>1. Bad \subseteq Nat
    OBVIOUS
  <2> HIDE DEF Bad
  <2> QED BY <1>1, <2>1, MinIn
<1> DEFINE m == Min(Bad)
<1>3. m \in Nat /\ ~(\E f : MintChain(f, m)) /\ \A k \in Nat : k < m => \E f : MintChain(f, k)
  BY <1>2
<1> HIDE DEF m, Bad
<1>4. CASE m = 0
  <2> DEFINE f == [flaws \in 0 .. 0 |-> Submitted(2)]
  <2>1. f = [flaws \in 0 .. 0 |-> IF flaws = 0 THEN Submitted(2) ELSE Flawed(f[flaws - 1])]
    OBVIOUS
  <2>2. MintChain(f, m)
    BY <1>4, <2>1 DEF MintChain
  <2> QED BY <1>3, <2>2
<1>5. CASE m # 0
  <2>1. m - 1 \in Nat /\ m - 1 < m
    BY <1>3, <1>5
  <2>2. PICK g : MintChain(g, m - 1)
    BY <1>3, <2>1
  <2>3. \A k \in 0 .. m - 1 :
          g[k] = IF k = 0 THEN Submitted(2) ELSE Flawed(g[k - 1])
    BY <2>2 DEF MintChain
  <2> DEFINE f == [k \in 0 .. m |-> IF k = m THEN Flawed(g[m - 1]) ELSE g[k]]
  <2>4. ASSUME NEW k \in 0 .. m
        PROVE  f[k] = IF k = 0 THEN Submitted(2) ELSE Flawed(f[k - 1])
    <3>1. CASE k = m
      <4>1. f[k] = Flawed(g[m - 1]) /\ f[k - 1] = g[m - 1] /\ k # 0
        BY <1>3, <1>5, <2>1, <3>1
      <4> HIDE DEF f
      <4> QED BY <3>1, <4>1
    <3>2. CASE k # m
      <4>1. k \in 0 .. m - 1 /\ f[k] = g[k]
        BY <1>3, <3>2
      <4>2. k # 0 => f[k - 1] = g[k - 1]
        BY <1>3, <3>2
      <4> HIDE DEF f
      <4> QED BY <2>3, <4>1, <4>2
    <3> QED BY <3>1, <3>2
  <2>5. f = [k \in 0 .. m |-> f[k]]
    OBVIOUS
  <2> HIDE DEF f
  <2>6. f = [k \in 0 .. m |-> IF k = 0 THEN Submitted(2) ELSE Flawed(f[k - 1])]
    BY <2>4, <2>5
  <2>7. MintChain(f, m)
    BY <2>6 DEF MintChain
  <2> QED BY <1>3, <2>7
<1> QED BY <1>4, <1>5

\* However many flaws: what is read of the mint was the mint.
LEMMA MintReadingsGood ==
  ASSUME NEW n \in 0 .. MaxMintFlaws
  PROVE  MintReadings[n] \subseteq GoodTx
<1>1. MaxMintFlaws \in Nat
  BY TypesAssumption DEF TypesAssumption
<1>2. MintChain(MintReadings, MaxMintFlaws)
  <2>1. \E f : MintChain(f, MaxMintFlaws)
    BY <1>1, MintChainExists
  <2>2. MintReadings = CHOOSE f : MintChain(f, MaxMintFlaws)
    BY DEF MintReadings, MintChain
  <2> QED BY <2>1, <2>2
<1>3. \A k \in 0 .. MaxMintFlaws :
        MintReadings[k] = IF k = 0 THEN Submitted(2) ELSE Flawed(MintReadings[k - 1])
  BY <1>2 DEF MintChain
<1> DEFINE Bad == {k \in 0 .. MaxMintFlaws : ~(MintReadings[k] \subseteq GoodTx)}
<1>4. SUFFICES ASSUME Bad # {} PROVE FALSE
  OBVIOUS
<1>5. Min(Bad) \in Bad /\ \A k \in Bad : Min(Bad) <= k
  <2>1. Bad \subseteq Nat
    BY <1>1
  <2> HIDE DEF Bad
  <2> QED BY <1>4, <2>1, MinIn
<1> DEFINE m == Min(Bad)
<1>6. /\ m \in 0 .. MaxMintFlaws /\ ~(MintReadings[m] \subseteq GoodTx)
      /\ \A k \in 0 .. MaxMintFlaws : k < m => MintReadings[k] \subseteq GoodTx
  BY <1>1, <1>5
<1> HIDE DEF m, Bad
<1>7. CASE m = 0
  <2>1. MintReadings[m] = Submitted(2)
    BY <1>3, <1>6, <1>7
  <2>2. Submitted(2) \subseteq GoodTx
    BY SubmittedIsGood
  <2> QED BY <1>6, <2>1, <2>2
<1>8. CASE m # 0
  <2>1. m - 1 \in 0 .. MaxMintFlaws /\ m - 1 < m
    BY <1>1, <1>6, <1>8
  <2>2. MintReadings[m] = Flawed(MintReadings[m - 1])
    BY <1>3, <1>6, <1>8
  <2>3. MintReadings[m - 1] \subseteq GoodTx
    BY <1>6, <2>1
  <2> QED BY <1>6, <2>2, <2>3, FlawedIsGood
<1> QED BY <1>7, <1>8

\* What is captured in a step.
LEMMA ReadingsGood ==
  ASSUME NEW n \in 1 .. 5
  PROVE  Readings(n) \subseteq GoodTx /\ (n = 1 => Readings(n) \subseteq BareTx)
<1>1. CASE n = 2
  <2>1. MaxMintFlaws \in 0 .. MaxMintFlaws
    BY TypesAssumption DEF TypesAssumption
  <2>2. MintReadings[MaxMintFlaws] \subseteq GoodTx
    BY <2>1, MintReadingsGood
  <2> QED BY <1>1, <2>2 DEF Readings
<1>2. CASE n # 2
  <2>1. Readings(n) = Flawed(Submitted(n))
    BY <1>2 DEF Readings
  <2>2. Submitted(n) \subseteq GoodTx /\ (n = 1 => Submitted(n) \subseteq BareTx)
    BY SubmittedIsGood
  <2> QED BY <2>1, <2>2, FlawedIsGood, FlawedIsBare
<1> QED BY <1>1, <1>2

-----------------------------------------------------------------------------
(* The numbers of a log                                                    *)

Decoded(log) == [i \in DOMAIN log |-> DecodeTx(log[i])]

\* They are numbers, and a deploy has none.
LEMMA LogNumbers ==
  ASSUME NEW log \in Seq(GoodTx), NEW c, NEW mt \in {NoType, MintType}
  PROVE  /\ DOMAIN DeltasOf(Decoded(log), c) = DOMAIN log
         /\ DOMAIN MintsOf(Decoded(log), mt) = DOMAIN log
         /\ \A i \in DOMAIN log :
              /\ DeltasOf(Decoded(log), c)[i] = DeltaForType(DecodeTx(log[i]), c)
              /\ MintsOf(Decoded(log), mt)[i] = ShieldedMintsForType(DecodeTx(log[i]), mt)
              /\ DeltaForType(DecodeTx(log[i]), c) \in Int
              /\ ShieldedMintsForType(DecodeTx(log[i]), mt) \in Nat
              /\ log[i] \in BareTx =>
                   /\ DeltaForType(DecodeTx(log[i]), c) = 0
                   /\ ShieldedMintsForType(DecodeTx(log[i]), mt) = 0
<1>1. ASSUME NEW tx \in GoodTx
      PROVE  /\ DeltaForType(DecodeTx(tx), c) \in Int
             /\ ShieldedMintsForType(DecodeTx(tx), mt) \in Nat
             /\ tx \in BareTx => /\ DeltaForType(DecodeTx(tx), c) = 0
                                 /\ ShieldedMintsForType(DecodeTx(tx), mt) = 0
  <2> DEFINE d == DeltaForType(DecodeTx(tx), c)
             m == ShieldedMintsForType(DecodeTx(tx), mt)
             v == MintedByTx(tx, MintType)
  <2>1. tx \in TxSet(Token, MintType) /\ MintType # NoType
    BY TypesAssumption DEF GoodTx, TypesAssumption
  <2>2. /\ d \in Int /\ (c # Token => d = 0)
        /\ (c = Token /\ ~DeltaLost(tx) => d = TrueDelta(tx))
    BY <2>1, DeltaRead
  <2>3. m \in Nat /\ v \in Nat /\ m <= v
    BY <2>1, MintsRead
  <2>4. tx \in BareTx => TrueDelta(tx) = 0 /\ v = 0 /\ ~DeltaLost(tx)
    BY BareIsNothing DEF TrueMints
  <2> HIDE DEF d, m, v
  <2>5. tx \in BareTx => d = 0 /\ m = 0
    BY <2>2, <2>3, <2>4
  <2> QED BY <2>2, <2>3, <2>5 DEF d, m
<1>2. \A i \in DOMAIN log : log[i] \in GoodTx
  OBVIOUS
<1>3. /\ DOMAIN DeltasOf(Decoded(log), c) = DOMAIN log
      /\ DOMAIN MintsOf(Decoded(log), mt) = DOMAIN log
      /\ \A i \in DOMAIN log :
           /\ DeltasOf(Decoded(log), c)[i] = DeltaForType(DecodeTx(log[i]), c)
           /\ MintsOf(Decoded(log), mt)[i] = ShieldedMintsForType(DecodeTx(log[i]), mt)
  BY DEF Decoded, DeltasOf, MintsOf
<1> QED BY <1>1, <1>2, <1>3

\* The sums over the first n transactions.
DeltaSum(log, c, n) == SumFunctionOnSet(DeltasOf(Decoded(log), c), 1 .. n)

MintSum(log, mt, n) == SumFunctionOnSet(MintsOf(Decoded(log), mt), 1 .. n)

\* They are numbers over finitely many positions.
LEMMA SumsOfLog ==
  ASSUME NEW log \in Seq(GoodTx), NEW c, NEW mt \in {NoType, MintType},
         NEW n \in 0 .. Len(log)
  PROVE  /\ DeltaSum(log, c, n) = Total(1 .. n, DeltasOf(Decoded(log), c))
         /\ MintSum(log, mt, n) = Total(1 .. n, MintsOf(Decoded(log), mt))
         /\ DeltaSum(log, c, n) \in Int /\ MintSum(log, mt, n) \in Nat
         /\ IsFiniteSet(1 .. n) /\ 1 .. n \subseteq DOMAIN log
<1>1. IsFiniteSet(1 .. n) /\ 1 .. n \subseteq DOMAIN log
  BY FS_Interval
<1>2. /\ DeltaSum(log, c, n) = Total(1 .. n, DeltasOf(Decoded(log), c))
      /\ MintSum(log, mt, n) = Total(1 .. n, MintsOf(Decoded(log), mt))
  BY <1>1, SumOnSetIsTotal DEF DeltaSum, MintSum
<1>3. \A i \in 1 .. n : DeltasOf(Decoded(log), c)[i] \in Int /\ MintsOf(Decoded(log), mt)[i] \in Nat
  BY <1>1, LogNumbers
<1>4. Total(1 .. n, DeltasOf(Decoded(log), c)) \in Int
  BY <1>1, <1>3, TotalInt
<1>5. Total(1 .. n, MintsOf(Decoded(log), mt)) \in Nat
  BY <1>1, <1>3, TotalNat
<1> QED BY <1>1, <1>2, <1>4, <1>5

\* What is captured later does not change them.
LEMMA PrefixKept ==
  ASSUME NEW log \in Seq(GoodTx), NEW c, NEW mt \in {NoType, MintType},
         NEW n \in 0 .. Len(log), NEW tx \in GoodTx
  PROVE  /\ DeltaSum(Append(log, tx), c, n) = DeltaSum(log, c, n)
         /\ MintSum(Append(log, tx), mt, n) = MintSum(log, mt, n)
<1> DEFINE more == Append(log, tx)
<1>1. more \in Seq(GoodTx) /\ Len(more) = Len(log) + 1 /\ n \in 0 .. Len(more)
  OBVIOUS
<1>2. \A i \in 1 .. n : i \in DOMAIN log /\ i \in DOMAIN more /\ more[i] = log[i]
  OBVIOUS
<1> HIDE DEF more
<1>3. \A i \in 1 .. n :
        /\ DeltasOf(Decoded(more), c)[i] = DeltasOf(Decoded(log), c)[i]
        /\ MintsOf(Decoded(more), mt)[i] = MintsOf(Decoded(log), mt)[i]
  BY <1>2 DEF DeltasOf, MintsOf, Decoded
<1>4. IsFiniteSet(1 .. n)
  BY FS_Interval
<1>5. /\ Total(1 .. n, DeltasOf(Decoded(more), c)) = Total(1 .. n, DeltasOf(Decoded(log), c))
      /\ Total(1 .. n, MintsOf(Decoded(more), mt)) = Total(1 .. n, MintsOf(Decoded(log), mt))
  BY <1>3, <1>4, TotalSame
<1>6. /\ DeltaSum(log, c, n) = Total(1 .. n, DeltasOf(Decoded(log), c))
      /\ MintSum(log, mt, n) = Total(1 .. n, MintsOf(Decoded(log), mt))
  BY <1>4, SumOnSetIsTotal DEF DeltaSum, MintSum
<1>7. /\ DeltaSum(more, c, n) = Total(1 .. n, DeltasOf(Decoded(more), c))
      /\ MintSum(more, mt, n) = Total(1 .. n, MintsOf(Decoded(more), mt))
  BY <1>4, SumOnSetIsTotal DEF DeltaSum, MintSum
<1> QED BY <1>5, <1>6, <1>7 DEF more

\* Deploys add nothing, by whatever color and type.
LEMMA PrefixBare ==
  ASSUME NEW log \in Seq(GoodTx), NEW c, NEW mt \in {NoType, MintType},
         NEW n \in 0 .. Len(log), \A i \in 1 .. n : log[i] \in BareTx
  PROVE  DeltaSum(log, c, n) = 0 /\ MintSum(log, mt, n) = 0
<1>1. /\ DeltaSum(log, c, n) = Total(1 .. n, DeltasOf(Decoded(log), c))
      /\ MintSum(log, mt, n) = Total(1 .. n, MintsOf(Decoded(log), mt))
      /\ IsFiniteSet(1 .. n) /\ 1 .. n \subseteq DOMAIN log
  BY SumsOfLog
<1>2. \A i \in 1 .. n : DeltasOf(Decoded(log), c)[i] = 0 /\ MintsOf(Decoded(log), mt)[i] = 0
  BY <1>1, LogNumbers
<1> QED BY <1>1, <1>2, TotalZero

\* A fold of the log is its sums over all of it.
LEMMA FoldOfLog ==
  ASSUME NEW log \in Seq(GoodTx), NEW c, NEW mt \in {NoType, MintType}
  PROVE  /\ FoldSupply(Decoded(log), c, mt).supply = 0 - DeltaSum(log, c, Len(log))
         /\ FoldSupply(Decoded(log), c, mt).totalMinted = MintSum(log, mt, Len(log))
         /\ \A n \in DOMAIN log :
              LET row == FoldSupply(Decoded(log), c, mt).rows[n]
              IN  /\ row.delta = DeltaForType(DecodeTx(log[n]), c)
                  /\ row.mints = ShieldedMintsForType(DecodeTx(log[n]), mt)
                  /\ row.runningSupply = 0 - DeltaSum(log, c, n)
                  /\ row.runningMints = MintSum(log, mt, n)
<1>1. /\ DOMAIN DeltasOf(Decoded(log), c) = 1 .. Len(log)
      /\ DOMAIN MintsOf(Decoded(log), mt) = 1 .. Len(log)
      /\ DOMAIN Decoded(log) = DOMAIN log
  BY LogNumbers DEF Decoded
<1>2. /\ FoldSupply(Decoded(log), c, mt).supply = 0 - DeltaSum(log, c, Len(log))
      /\ FoldSupply(Decoded(log), c, mt).totalMinted = MintSum(log, mt, Len(log))
  BY <1>1 DEF FoldSupply, SumFunction, DeltaSum, MintSum
<1>3. \A n \in DOMAIN log :
        /\ DeltasOf(Decoded(log), c)[n] = DeltaForType(DecodeTx(log[n]), c)
        /\ MintsOf(Decoded(log), mt)[n] = ShieldedMintsForType(DecodeTx(log[n]), mt)
  BY LogNumbers
<1>4. FoldSupply(Decoded(log), c, mt).rows = FoldRows(Decoded(log), c, mt)
  BY DEF FoldSupply
<1> QED BY <1>1, <1>2, <1>3, <1>4 DEF FoldRows, DeltaSum, MintSum

-----------------------------------------------------------------------------
(* The observed type                                                       *)

\* A function on the first n positions has n of them.
LEMMA FirstOf ==
  ASSUME NEW s, NEW n \in Nat, s = [i \in 1 .. n |-> s[i]]
  PROVE  Len(s) = n
OBVIOUS

\* What is printed has something in it only when it was printed from something,
\* and then the type of it.
LEMMA FirstPrinted ==
  ASSUME NEW type, NEW values, NEW entries \in Seq(EntrySet(type, values)),
         Printed(entries) # <<>>
  PROVE  Printed(entries)[1].type = type
<1>1. Len(entries) \in Nat /\ DOMAIN entries = 1 .. Len(entries)
  OBVIOUS
<1>2. CASE Len(entries) = 0
  <2>1. Printed(entries) = <<>>
    BY <1>1, <1>2 DEF Printed
  <2> QED BY <2>1
<1>3. CASE Len(entries) # 0
  <2>1. 1 \in DOMAIN entries
    BY <1>1, <1>3
  <2>2. entries[1] \in EntrySet(type, values)
    BY <2>1
  <2>3. entries[1].type = type
    BY <2>2, EntryTyped
  <2> QED BY <2>1, <2>3 DEF Printed
<1> QED BY <1>2, <1>3

\* The first transcript of an action that mints does so by the minted type.
LEMMA FirstTranscript ==
  ASSUME NEW type, NEW ts \in Seq(TranscriptSet(type)), NEW read,
         read = ReadTranscripts(ts), \E t \in DOMAIN read : read[t].mints # <<>>
  PROVE  read[SelectInSeq(read, LAMBDA t : t.mints # <<>>)].mints[1].type = type
<1> DEFINE I == {t \in 1 .. Len(read) : read[t].mints # <<>>}
           m == Min(I)
<1>1. Len(ts) \in Nat /\ DOMAIN ts = 1 .. Len(ts)
  OBVIOUS
<1>2. DOMAIN read = 1 .. Len(ts) /\ read = [t \in 1 .. Len(ts) |-> read[t]]
  BY <1>1 DEF ReadTranscripts
<1>3. Len(read) = Len(ts)
  BY <1>1, <1>2, FirstOf
<1>4. I # {} /\ I \subseteq Nat
  BY <1>1, <1>2, <1>3
<1>5. m \in I
  <2> HIDE DEF I
  <2> QED BY <1>4, MinIn
<1>6. m \in 1 .. Len(ts) /\ read[m].mints # <<>>
  BY <1>3, <1>5
<1>7. SelectInSeq(read, LAMBDA t : t.mints # <<>>) = m
  BY <1>4 DEF SelectInSeq
<1> HIDE DEF m, I
<1>8. ts[m] \in TranscriptSet(type) /\ m \in DOMAIN ts
  BY <1>1, <1>6
<1>9. ts[m].mints \in Seq(EntrySet(type, Nat))
  BY <1>8, TranscriptTyped
<1>10. read[m].mints = IF ts[m].readable THEN Printed(ts[m].mints) ELSE <<>>
  BY <1>8 DEF ReadTranscripts
<1>11. read[m].mints = Printed(ts[m].mints)
  BY <1>6, <1>10
<1>12. read[m].mints[1].type = type
  BY <1>6, <1>9, <1>11, FirstPrinted
<1> QED BY <1>7, <1>12

\* Of an action.
FirstOfAction(action) ==
  action.transcripts[SelectInSeq(action.transcripts, LAMBDA t : t.mints # <<>>)].mints[1].type

FirstOfIntent(intent) ==
  FirstOfAction(intent.actions[SelectInSeq(intent.actions, ActionMints)])

FirstOfTx(tx) == FirstOfIntent(tx.intents[SelectInSeq(tx.intents, IntentMints)])

\* What comes first of an intent is of the minted type.
LEMMA FirstAction ==
  ASSUME NEW type, NEW as \in Seq(ActionSet(type)), NEW intent,
         intent = [actions |-> ReadActions(as)], IntentMints(intent)
  PROVE  FirstOfIntent(intent) = type
<1> DEFINE read == ReadActions(as)
           I == {a \in 1 .. Len(read) : ActionMints(read[a])}
           m == Min(I)
<1>1. Len(as) \in Nat /\ DOMAIN as = 1 .. Len(as)
  BY SeqFinite
<1>2. DOMAIN read = 1 .. Len(as) /\ read = [a \in 1 .. Len(as) |-> read[a]]
  BY <1>1 DEF ReadActions
<1> HIDE DEF read
<1>3. Len(read) = Len(as)
  BY <1>1, <1>2, FirstOf
<1>4. intent.actions = read /\ \E a \in DOMAIN read : ActionMints(read[a])
  BY DEF IntentMints, read
<1>5. I # {} /\ I \subseteq Nat
  <2>1. PICK a \in DOMAIN read : ActionMints(read[a])
    BY <1>4
  <2>2. a \in 1 .. Len(read)
    BY <1>2, <1>3
  <2>3. I # {}
    BY <2>1, <2>2
  <2>4. I \subseteq 1 .. Len(read)
    OBVIOUS
  <2>5. 1 .. Len(read) \subseteq Nat
    OBVIOUS
  <2> QED BY <2>3, <2>4, <2>5
<1>6. m \in I
  <2> HIDE DEF I
  <2> QED BY <1>5, MinIn
<1>7. m \in 1 .. Len(as) /\ ActionMints(read[m])
  BY <1>3, <1>6
<1>8. SelectInSeq(read, ActionMints) = m
  BY <1>5 DEF SelectInSeq
<1> HIDE DEF m, I
<1>9. as[m] \in ActionSet(type) /\ m \in DOMAIN as
  <2>1. m \in DOMAIN as
    BY <1>1, <1>7
  <2> QED BY <2>1, SeqFinite
<1>10. as[m].transcripts \in Seq(TranscriptSet(type))
  BY <1>9, ActionTyped
<1>11. read[m].transcripts = ReadTranscripts(as[m].transcripts)
  BY <1>9 DEF read, ReadActions
<1>12. \E t \in DOMAIN read[m].transcripts : read[m].transcripts[t].mints # <<>>
  BY <1>7 DEF ActionMints
<1>13. FirstOfAction(read[m]) = type
  BY <1>10, <1>11, <1>12, FirstTranscript DEF FirstOfAction
<1> QED BY <1>4, <1>8, <1>13 DEF FirstOfIntent

\* Of a transaction.
LEMMA FirstIntent ==
  ASSUME NEW token, NEW type, NEW raw \in TxSet(token, type), NEW tx,
         tx = DecodeTx(raw), TxMints(tx)
  PROVE  FirstOfTx(tx) = type
<1> DEFINE is == raw.intents
           kept == BeforeThrow(is)
           read == tx.intents
           I == {i \in 1 .. Len(read) : IntentMints(read[i])}
           m == Min(I)
<1>1. is \in Seq(IntentSet(type))
  BY TxTyped
<1>2. kept \in Seq(IntentSet(type)) /\ DOMAIN kept \subseteq DOMAIN is
  BY <1>1, BeforeThrowIs
<1>3. read = [i \in DOMAIN kept |-> [actions |-> ReadActions(is[i].actions)]]
  BY DEF DecodeTx
<1> HIDE DEF is, kept, read
<1>4. Len(kept) \in Nat /\ DOMAIN kept = 1 .. Len(kept)
  BY <1>2
<1>5. DOMAIN read = 1 .. Len(kept) /\ read = [i \in 1 .. Len(kept) |-> read[i]]
  BY <1>3, <1>4
<1>6. Len(read) = Len(kept)
  BY <1>4, <1>5, FirstOf
<1>7. \E i \in DOMAIN read : IntentMints(read[i])
  BY DEF TxMints, read
<1>8. I # {} /\ I \subseteq Nat
  BY <1>4, <1>5, <1>6, <1>7
<1>9. m \in I
  <2> HIDE DEF I
  <2> QED BY <1>8, MinIn
<1>10. m \in DOMAIN kept /\ IntentMints(read[m])
  BY <1>4, <1>6, <1>9
<1>11. SelectInSeq(read, IntentMints) = m
  BY <1>8 DEF SelectInSeq
<1> HIDE DEF m, I
<1>12. is[m] \in IntentSet(type)
  <2>1. m \in DOMAIN is
    BY <1>2, <1>10
  <2> QED BY <1>1, <2>1, SeqFinite
<1>13. is[m].actions \in Seq(ActionSet(type))
  BY <1>12, IntentTyped
<1>14. read[m] = [actions |-> ReadActions(is[m].actions)]
  BY <1>3, <1>10
<1>15. FirstOfIntent(read[m]) = type
  BY <1>10, <1>13, <1>14, FirstAction
<1> QED BY <1>11, <1>15 DEF FirstOfTx, read

\* What is observed is the minted type, or nothing.
LEMMA Observed ==
  ASSUME NEW log \in Seq(GoodTx)
  PROVE  ObservedMintType(Decoded(log)) \in {NoType, MintType}
<1> DEFINE read == Decoded(log)
           I == {n \in 1 .. Len(read) : TxMints(read[n])}
           m == Min(I)
<1>1. Len(log) \in Nat /\ DOMAIN log = 1 .. Len(log)
  OBVIOUS
<1>2. DOMAIN read = 1 .. Len(log) /\ read = [n \in 1 .. Len(log) |-> read[n]]
  BY <1>1 DEF Decoded
<1> HIDE DEF read
<1>3. Len(read) = Len(log)
  BY <1>1, <1>2, FirstOf
<1>4. CASE ~\E n \in DOMAIN read : TxMints(read[n])
  BY <1>4 DEF ObservedMintType, read
<1>5. CASE \E n \in DOMAIN read : TxMints(read[n])
  <2>1. I # {} /\ I \subseteq Nat
    BY <1>1, <1>2, <1>3, <1>5
  <2>2. m \in I
    <3> HIDE DEF I
    <3> QED BY <2>1, MinIn
  <2>3. m \in 1 .. Len(log) /\ TxMints(read[m])
    BY <1>3, <2>2
  <2>4. SelectInSeq(read, TxMints) = m
    BY <2>1 DEF SelectInSeq
  <2> HIDE DEF m, I
  <2>5. log[m] \in TxSet(Token, MintType) /\ read[m] = DecodeTx(log[m])
    <3>1. log[m] \in GoodTx /\ m \in DOMAIN log
      BY <1>1, <2>3
    <3> QED BY <3>1 DEF GoodTx, read, Decoded
  <2>6. FirstOfTx(read[m]) = MintType
    BY <2>3, <2>5, FirstIntent
  <2>7. ObservedMintType(read) = FirstOfTx(read[SelectInSeq(read, TxMints)])
    BY <1>5 DEF ObservedMintType, FirstOfTx, FirstOfIntent, FirstOfAction
  <2> QED BY <2>4, <2>6, <2>7 DEF read
<1> QED BY <1>4, <1>5

-----------------------------------------------------------------------------
(* The folds of the command line                                           *)

\* The mints of one deployment are all of one type, so it does not matter
\* whether the type is known.
LEMMA TranscriptOfAnyType ==
  ASSUME NEW type, type # NoType, NEW ts \in Seq(TranscriptSet(type)), NEW t \in DOMAIN ts
  PROVE  MintsOfTranscript(ReadTranscripts(ts)[t], NoType)
           = MintsOfTranscript(ReadTranscripts(ts)[t], type)
<1> DEFINE read == ReadTranscripts(ts)[t].mints
           any == [ i \in DOMAIN read |->
                      IF read[i].type \in TypesOf(read) THEN ToBig(read[i].value) ELSE 0 ]
           one == [ i \in DOMAIN read |->
                      IF read[i].type \in {type} THEN ToBig(read[i].value) ELSE 0 ]
<1>1. ts[t] \in TranscriptSet(type)
  BY SeqFinite
<1>2. ts[t].mints \in Seq(EntrySet(type, Nat))
  BY <1>1, TranscriptTyped
<1>3. read = IF ts[t].readable THEN Printed(ts[t].mints) ELSE <<>>
  BY DEF ReadTranscripts
<1>4. ASSUME NEW i \in DOMAIN read PROVE read[i].type = type
  <2>1. ts[t].readable /\ read = Printed(ts[t].mints)
    BY <1>3
  <2>2. i \in DOMAIN ts[t].mints
    BY <2>1 DEF Printed
  <2>3. ts[t].mints[i] \in EntrySet(type, Nat)
    BY <1>2, <2>2
  <2> QED BY <2>1, <2>2, <2>3, EntryTyped DEF Printed
<1> HIDE DEF read
<1>5. any = one
  BY <1>4 DEF TypesOf
<1>6. /\ SumOf(read, TypesOf(read)) = SumFunction(any)
      /\ SumOf(read, {type}) = SumFunction(one)
  BY DEF SumOf
<1> HIDE DEF any, one
<1> QED BY <1>5, <1>6 DEF MintsOfTranscript, read

\* Of an action.
LEMMA ActionOfAnyType ==
  ASSUME NEW type, type # NoType, NEW as \in Seq(ActionSet(type)), NEW a \in DOMAIN as
  PROVE  MintsOfAction(ReadActions(as)[a], NoType) = MintsOfAction(ReadActions(as)[a], type)
<1> DEFINE ts == as[a].transcripts
           read == ReadTranscripts(ts)
           any == [t \in DOMAIN read |-> MintsOfTranscript(read[t], NoType)]
           one == [t \in DOMAIN read |-> MintsOfTranscript(read[t], type)]
<1>1. as[a] \in ActionSet(type)
  BY SeqFinite
<1>2. ts \in Seq(TranscriptSet(type))
  BY <1>1, ActionTyped
<1>3. DOMAIN read = DOMAIN ts
  BY DEF ReadTranscripts
<1>4. /\ ReadActions(as)[a].transcripts = read
      /\ ReadActions(as)[a].call = as[a].call
  BY DEF ReadActions
<1>5. \A t \in DOMAIN ts : MintsOfTranscript(read[t], NoType) = MintsOfTranscript(read[t], type)
  <2> HIDE DEF ts
  <2> QED BY <1>2, TranscriptOfAnyType
<1> HIDE DEF ts, read
<1>6. any = one
  BY <1>3, <1>5
<1> QED BY <1>4, <1>6 DEF MintsOfAction

\* Of an intent.
LEMMA IntentOfAnyType ==
  ASSUME NEW type, type # NoType, NEW is \in Seq(IntentSet(type)), NEW i \in DOMAIN is
  PROVE  MintsOfIntent([actions |-> ReadActions(is[i].actions)], NoType)
           = MintsOfIntent([actions |-> ReadActions(is[i].actions)], type)
<1> DEFINE as == is[i].actions
           read == ReadActions(as)
           any == [a \in DOMAIN read |-> MintsOfAction(read[a], NoType)]
           one == [a \in DOMAIN read |-> MintsOfAction(read[a], type)]
<1>1. is[i] \in IntentSet(type)
  BY SeqFinite
<1>2. as \in Seq(ActionSet(type))
  BY <1>1, IntentTyped
<1>3. DOMAIN read = DOMAIN as
  BY DEF ReadActions
<1>4. \A a \in DOMAIN as : MintsOfAction(read[a], NoType) = MintsOfAction(read[a], type)
  <2> HIDE DEF as
  <2> QED BY <1>2, ActionOfAnyType
<1> HIDE DEF as, read
<1>5. any = one
  BY <1>3, <1>4
<1> QED BY <1>5 DEF MintsOfIntent, read, as

\* Of a transaction, as much of it as is decoded.
LEMMA TxOfAnyType ==
  ASSUME NEW token, NEW type, type # NoType, NEW tx \in TxSet(token, type)
  PROVE  ShieldedMintsForType(DecodeTx(tx), NoType) = ShieldedMintsForType(DecodeTx(tx), type)
<1> DEFINE is == tx.intents
           kept == BeforeThrow(is)
           read == DecodeTx(tx).intents
           any == [i \in DOMAIN read |-> MintsOfIntent(read[i], NoType)]
           one == [i \in DOMAIN read |-> MintsOfIntent(read[i], type)]
<1>1. is \in Seq(IntentSet(type))
  BY TxTyped
<1>2. DOMAIN kept \subseteq DOMAIN is
  BY <1>1, BeforeThrowIs
<1>3. read = [i \in DOMAIN kept |-> [actions |-> ReadActions(is[i].actions)]]
  BY DEF DecodeTx
<1> HIDE DEF is, kept, read
<1>4. ASSUME NEW i \in DOMAIN kept
      PROVE  MintsOfIntent(read[i], NoType) = MintsOfIntent(read[i], type)
  <2>1. i \in DOMAIN is
    BY <1>2
  <2>2. read[i] = [actions |-> ReadActions(is[i].actions)]
    BY <1>3
  <2> QED BY <1>1, <2>1, <2>2, IntentOfAnyType
<1>5. any = one
  BY <1>3, <1>4
<1>6. /\ ShieldedMintsForType(DecodeTx(tx), NoType) = SumFunction(any)
      /\ ShieldedMintsForType(DecodeTx(tx), type) = SumFunction(one)
  BY DEF ShieldedMintsForType, read
<1> QED BY <1>5, <1>6

\* One more summand, wherever it is put and however the others are ordered.
LEMMA OneMore ==
  ASSUME NEW S, IsFiniteSet(S), NEW k, k \notin S,
         NEW h, \A x \in S : \A y \in S : h[x] = h[y] => x = y,
         NEW v, NEW w, w[k] \in Int, \A x \in S : w[x] = v[h[x]] /\ w[x] \in Int,
         NEW T, S \cup {k} = T,
         NEW R, \A x \in S : h[x] \in R, \A y \in R : \E x \in S : h[x] = y
  PROVE  Total(T, w) = Total(R, v) + w[k]
<1>0. {h[x] : x \in S} = R
  OBVIOUS
<1>1. Total({h[x] : x \in S}, v) = Total(S, w)
  BY TotalImage
<1>2. \A x \in S \cup {k} : w[x] \in Int
  OBVIOUS
<1>3. Total(S \cup {k}, w) = Total(S, w) + w[k]
  BY <1>2, TotalAdd
<1> QED BY <1>0, <1>1, <1>3

\* One sequence after another.
LEMMA Joined ==
  ASSUME NEW X, NEW s \in Seq(X), NEW t \in Seq(X)
  PROVE  /\ DOMAIN (s \o t) = 1 .. Len(s) + Len(t)
         /\ \A i \in 1 .. Len(s) : (s \o t)[i] = s[i]
         /\ \A i \in 1 .. Len(t) : (s \o t)[Len(s) + i] = t[i]
<1>1. Len(s) \in Nat /\ Len(t) \in Nat
  OBVIOUS
<1>2. s \o t \in Seq(X) /\ Len(s \o t) = Len(s) + Len(t)
  OBVIOUS
<1>3. DOMAIN (s \o t) = 1 .. Len(s) + Len(t)
  BY <1>2
<1>4. \A i \in 1 .. Len(s) : (s \o t)[i] = s[i]
  BY <1>1
<1>5. \A i \in 1 .. Len(t) : (s \o t)[Len(s) + i] = t[i]
  BY <1>1
<1> QED BY <1>3, <1>4, <1>5

\* What a mint of another deployment is to a fold by this color.
LEMMA StaleIsForeign ==
  ASSUME NEW stale \in MintTxs(OtherToken, OtherMintType, M)
  PROVE  /\ DeltaForType(DecodeTx(stale), Token) = 0
         /\ ShieldedMintsForType(DecodeTx(stale), NoType) \in Nat
<1>1. /\ M \in Nat /\ Token # OtherToken /\ OtherMintType # NoType
  BY TypesAssumption DEF TypesAssumption
<1>2. stale \in TxSet(OtherToken, OtherMintType)
  BY <1>1, MintIn
<1>3. DeltaForType(DecodeTx(stale), Token) = 0
  BY <1>1, <1>2, DeltaRead
<1>4. ShieldedMintsForType(DecodeTx(stale), NoType) \in Nat
  BY <1>1, <1>2, MintsRead
<1> QED BY <1>3, <1>4

\* The fold of a log by no type is its fold by the type.
LEMMA FoldOfAnyType ==
  ASSUME NEW log \in Seq(GoodTx), NEW c, NEW mt \in {NoType, MintType}
  PROVE  /\ FoldSupply(Decoded(log), c, NoType).supply
              = FoldSupply(Decoded(log), c, mt).supply
         /\ FoldSupply(Decoded(log), c, NoType).totalMinted
              = FoldSupply(Decoded(log), c, mt).totalMinted
<1> DEFINE read == Decoded(log)
<1>1. MintType # NoType
  BY TypesAssumption DEF TypesAssumption
<1>2. ASSUME NEW i \in DOMAIN log
      PROVE  ShieldedMintsForType(DecodeTx(log[i]), NoType)
               = ShieldedMintsForType(DecodeTx(log[i]), MintType)
  <2>1. log[i] \in TxSet(Token, MintType)
    <3>1. log[i] \in GoodTx
      OBVIOUS
    <3> QED BY <3>1 DEF GoodTx
  <2> QED BY <1>1, <2>1, TxOfAnyType
<1>3. DOMAIN read = DOMAIN log /\ \A i \in DOMAIN log : read[i] = DecodeTx(log[i])
  BY DEF Decoded
<1> HIDE DEF read
<1>4. MintsOf(read, NoType) = MintsOf(read, mt)
  BY <1>2, <1>3 DEF MintsOf
<1> QED BY <1>4 DEF FoldSupply, read

\* With a mint of another deployment among the files, the supply is the same
\* and the mints are no fewer.
LEMMA StaleAside ==
  ASSUME NEW log \in Seq(GoodTx), NEW R, R = DOMAIN log,
         NEW stale \in MintTxs(OtherToken, OtherMintType, M),
         NEW files, NEW T, T = DOMAIN files, IsFiniteSet(T),
         NEW S, NEW k, k \notin S, S \cup {k} = T, files[k] = stale,
         NEW h, \A x \in S : h[x] \in R, \A y \in R : \E x \in S : h[x] = y,
         \A x \in S : \A y \in S : h[x] = h[y] => x = y,
         \A x \in S : files[x] = log[h[x]]
  PROVE  /\ FoldSupply(Decoded(files), Token, NoType).supply
              = FoldSupply(Decoded(log), Token, NoType).supply
         /\ FoldSupply(Decoded(files), Token, NoType).totalMinted
              >= FoldSupply(Decoded(log), Token, NoType).totalMinted
<1> DEFINE dv == DeltasOf(Decoded(log), Token)
           dw == DeltasOf(Decoded(files), Token)
           mv == MintsOf(Decoded(log), NoType)
           mw == MintsOf(Decoded(files), NoType)
<1>1. IsFiniteSet(S) /\ S \subseteq T
  BY FS_Subset
<1>2. IsFiniteSet(R)
  BY SeqFinite
<1>3. ASSUME NEW v, NEW w, w[k] \in Int, \A x \in S : w[x] = v[h[x]] /\ w[x] \in Int
      PROVE  Total(T, w) = Total(R, v) + w[k]
  BY <1>1, <1>3, OneMore, SMTT(30)
<1>4. NoType \in {NoType, MintType}
  OBVIOUS
<1>5. DOMAIN dv = R /\ DOMAIN mv = R
  BY <1>4, LogNumbers
<1>6. ASSUME NEW i \in R
      PROVE  /\ dv[i] = DeltaForType(DecodeTx(log[i]), Token) /\ dv[i] \in Int
             /\ mv[i] = ShieldedMintsForType(DecodeTx(log[i]), NoType) /\ mv[i] \in Nat
  BY <1>4, LogNumbers
<1>7. /\ DOMAIN dw = T /\ DOMAIN mw = T
      /\ \A i \in T : /\ dw[i] = DeltaForType(DecodeTx(files[i]), Token)
                      /\ mw[i] = ShieldedMintsForType(DecodeTx(files[i]), NoType)
  BY DEF DeltasOf, MintsOf, Decoded
<1>8. k \in T /\ dw[k] = 0 /\ mw[k] \in Nat
  <2>1. k \in T
    OBVIOUS
  <2> QED BY <1>7, <2>1, StaleIsForeign
<1> HIDE DEF dv, dw, mv, mw
<1>9. ASSUME NEW x \in S
      PROVE  dw[x] = dv[h[x]] /\ dw[x] \in Int /\ mw[x] = mv[h[x]] /\ mw[x] \in Nat
  <2>1. h[x] \in R /\ files[x] = log[h[x]] /\ x \in T
    BY <1>1
  <2> QED BY <1>6, <1>7, <2>1
<1>10. Total(T, dw) = Total(R, dv)
  <2>1. Total(T, dw) = Total(R, dv) + dw[k]
    <3>1. dw[k] \in Int /\ \A x \in S : dw[x] = dv[h[x]] /\ dw[x] \in Int
      BY <1>8, <1>9
    <3> QED BY <1>3, <3>1
  <2>2. Total(R, dv) \in Int
    BY <1>2, <1>6, TotalInt
  <2> QED BY <1>8, <2>1, <2>2
<1>11. Total(T, mw) >= Total(R, mv)
  <2>1. Total(T, mw) = Total(R, mv) + mw[k]
    BY <1>3, <1>8, <1>9
  <2>2. Total(R, mv) \in Nat
    BY <1>2, <1>6, TotalNat
  <2> QED BY <1>8, <2>1, <2>2
<1>12. /\ SumFunction(dv) = Total(R, dv) /\ SumFunction(mv) = Total(R, mv)
       /\ SumFunction(dw) = Total(T, dw) /\ SumFunction(mw) = Total(T, mw)
  BY <1>2, <1>5, <1>7, SumOnSetIsTotal DEF SumFunction
<1>13. /\ FoldSupply(Decoded(files), Token, NoType).supply = 0 - SumFunction(dw)
       /\ FoldSupply(Decoded(log), Token, NoType).supply = 0 - SumFunction(dv)
       /\ FoldSupply(Decoded(files), Token, NoType).totalMinted = SumFunction(mw)
       /\ FoldSupply(Decoded(log), Token, NoType).totalMinted = SumFunction(mv)
  BY DEF FoldSupply, dv, dw, mv, mw
<1> QED BY <1>10, <1>11, <1>12, <1>13

\* The stale file after the others.
LEMMA StaleLast ==
  ASSUME NEW log \in Seq(GoodTx), NEW stale \in MintTxs(OtherToken, OtherMintType, M),
         NEW last, last = <<stale>>
  PROVE  /\ FoldSupply(Decoded(log \o last), Token, NoType).supply
              = FoldSupply(Decoded(log), Token, NoType).supply
         /\ FoldSupply(Decoded(log \o last), Token, NoType).totalMinted
              >= FoldSupply(Decoded(log), Token, NoType).totalMinted
<1> DEFINE X == GoodTx \cup {stale}
           n == Len(log)
           files == log \o last
           h == [x \in 1 .. n |-> x]
<1>1. log \in Seq(X) /\ last \in Seq(X) /\ Len(last) = 1 /\ last[1] = stale /\ n \in Nat
  OBVIOUS
<1>2. /\ DOMAIN files = 1 .. n + 1
      /\ \A x \in 1 .. n : files[x] = log[x]
      /\ \A i \in 1 .. 1 : files[n + i] = last[i]
  <2> HIDE DEF X
  <2> QED BY <1>1, Joined
<1> HIDE DEF X, files
<1>3. files[n + 1] = stale
  BY <1>1, <1>2
<1>4. n + 1 \notin 1 .. n /\ 1 .. n \cup {n + 1} = 1 .. n + 1
  BY <1>1
<1>5. /\ \A x \in 1 .. n : h[x] \in 1 .. n
      /\ \A i \in 1 .. n : \E x \in 1 .. n : h[x] = i
      /\ \A x \in 1 .. n : \A y \in 1 .. n : h[x] = h[y] => x = y
      /\ \A x \in 1 .. n : files[x] = log[h[x]]
  BY <1>2
<1> DEFINE S == 1 .. n
           R == 1 .. n
           T == 1 .. n + 1
           k == n + 1
<1>6. IsFiniteSet(T)
  <2>1. 1 \in Int /\ n + 1 \in Int
    BY <1>1
  <2> QED BY <2>1, FS_Interval
<1>8. /\ R = DOMAIN log /\ T = DOMAIN files
      /\ k \notin S /\ S \cup {k} = T /\ files[k] = stale
  BY <1>2, <1>3, <1>4
<1>9. /\ \A x \in S : h[x] \in R
      /\ \A y \in R : \E x \in S : h[x] = y
      /\ \A x \in S : \A y \in S : h[x] = h[y] => x = y
      /\ \A x \in S : files[x] = log[h[x]]
  BY <1>5
<1> HIDE DEF S, R, T, k, h, n
<1>7. /\ FoldSupply(Decoded(files), Token, NoType).supply
           = FoldSupply(Decoded(log), Token, NoType).supply
      /\ FoldSupply(Decoded(files), Token, NoType).totalMinted
           >= FoldSupply(Decoded(log), Token, NoType).totalMinted
  BY <1>6, <1>8, <1>9, StaleAside
<1> QED BY <1>7 DEF files

\* The stale file before the others, and these in reverse.
LEMMA StaleFirst ==
  ASSUME NEW log \in Seq(GoodTx), NEW stale \in MintTxs(OtherToken, OtherMintType, M),
         NEW first, first = <<stale>>
  PROVE  /\ FoldSupply(Decoded(first \o Reverse(log)), Token, NoType).supply
              = FoldSupply(Decoded(log), Token, NoType).supply
         /\ FoldSupply(Decoded(first \o Reverse(log)), Token, NoType).totalMinted
              >= FoldSupply(Decoded(log), Token, NoType).totalMinted
<1> DEFINE X == GoodTx \cup {stale}
           n == Len(log)
           back == Reverse(log)
           files == first \o back
           h == [x \in 2 .. n + 1 |-> n + 2 - x]
<1>1. log \in Seq(X) /\ first \in Seq(X) /\ Len(first) = 1 /\ first[1] = stale /\ n \in Nat
  OBVIOUS
<1>2. back \in Seq(X) /\ Len(back) = n /\ \A i \in 1 .. n : back[i] = log[n - i + 1]
  <2> HIDE DEF X
  <2> QED BY <1>1 DEF Reverse
<1>3. /\ DOMAIN files = 1 .. 1 + n
      /\ \A x \in 1 .. 1 : files[x] = first[x]
      /\ \A i \in 1 .. n : files[1 + i] = back[i]
  <2> HIDE DEF X, back, n
  <2> QED BY <1>1, <1>2, Joined
<1> HIDE DEF X, back, files
<1>4. ASSUME NEW x \in 2 .. n + 1
      PROVE  files[x] = log[n + 2 - x]
  <2>1. x - 1 \in 1 .. n /\ 1 + (x - 1) = x
    BY <1>1
  <2>2. files[x] = back[x - 1]
    BY <1>3, <2>1
  <2>3. back[x - 1] = log[n - (x - 1) + 1] /\ n - (x - 1) + 1 = n + 2 - x
    BY <1>1, <1>2, <2>1
  <2> QED BY <2>2, <2>3
<1>5. DOMAIN files = 1 .. n + 1 /\ files[1] = stale
  BY <1>1, <1>3
<1>6. 1 \notin 2 .. n + 1 /\ 2 .. n + 1 \cup {1} = 1 .. n + 1
  BY <1>1
<1>7. /\ \A x \in 2 .. n + 1 : h[x] \in 1 .. n
      /\ \A x \in 2 .. n + 1 : \A y \in 2 .. n + 1 : h[x] = h[y] => x = y
      /\ \A x \in 2 .. n + 1 : files[x] = log[h[x]]
  BY <1>1, <1>4
<1>8. ASSUME NEW i \in 1 .. n PROVE \E x \in 2 .. n + 1 : h[x] = i
  <2>1. n + 2 - i \in 2 .. n + 1 /\ h[n + 2 - i] = i
    BY <1>1
  <2> QED BY <2>1
<1> DEFINE S == 2 .. n + 1
           R == 1 .. n
           T == 1 .. n + 1
           k == 1
<1>9. IsFiniteSet(T)
  <2>1. 1 \in Int /\ n + 1 \in Int
    BY <1>1
  <2> QED BY <2>1, FS_Interval
<1>10. /\ R = DOMAIN log /\ T = DOMAIN files
       /\ k \notin S /\ S \cup {k} = T /\ files[k] = stale
  BY <1>5, <1>6
<1>12. /\ \A x \in S : h[x] \in R
       /\ \A y \in R : \E x \in S : h[x] = y
       /\ \A x \in S : \A y \in S : h[x] = h[y] => x = y
       /\ \A x \in S : files[x] = log[h[x]]
  BY <1>7, <1>8
<1> HIDE DEF S, R, T, k, h, n
<1>11. /\ FoldSupply(Decoded(files), Token, NoType).supply
            = FoldSupply(Decoded(log), Token, NoType).supply
       /\ FoldSupply(Decoded(files), Token, NoType).totalMinted
            >= FoldSupply(Decoded(log), Token, NoType).totalMinted
  BY <1>9, <1>10, <1>12, StaleAside
<1> QED BY <1>11 DEF files, back

\* Whatever files the command line is given.
LEMMA FilesAgree ==
  ASSUME NEW log \in Seq(GoodTx), NEW mt \in {NoType, MintType}, NEW files,
         \/ files = log
         \/ \E stale \in MintTxs(OtherToken, OtherMintType, M) :
              files = log \o <<stale>> \/ files = <<stale>> \o Reverse(log)
  PROVE  /\ FoldSupply(Decoded(files), Token, NoType).supply
              = FoldSupply(Decoded(log), Token, mt).supply
         /\ FoldSupply(Decoded(files), Token, NoType).totalMinted
              >= FoldSupply(Decoded(log), Token, mt).totalMinted
<1> DEFINE any == FoldSupply(Decoded(log), Token, NoType)
           read == FoldSupply(Decoded(files), Token, NoType)
<1>1. any.totalMinted \in Nat
  <2>1. Len(log) \in 0 .. Len(log) /\ NoType \in {NoType, MintType}
    OBVIOUS
  <2>2. MintSum(log, NoType, Len(log)) \in Nat
    BY <2>1, SumsOfLog
  <2> QED BY <2>1, <2>2, FoldOfLog
<1>2. any.supply = FoldSupply(Decoded(log), Token, mt).supply
  BY FoldOfAnyType
<1>3. any.totalMinted = FoldSupply(Decoded(log), Token, mt).totalMinted
  BY FoldOfAnyType
<1>4. SUFFICES read.supply = any.supply /\ read.totalMinted >= any.totalMinted
  BY <1>2, <1>3
<1>5. CASE files = log
  BY <1>1, <1>5
<1>6. ASSUME NEW stale \in MintTxs(OtherToken, OtherMintType, M),
             files = log \o <<stale>>
      PROVE  read.supply = any.supply /\ read.totalMinted >= any.totalMinted
  <2> DEFINE last == <<stale>>
  <2>1. files = log \o last /\ last = <<stale>>
    BY <1>6
  <2> HIDE DEF last
  <2> QED BY <2>1, StaleLast
<1>7. ASSUME NEW stale \in MintTxs(OtherToken, OtherMintType, M),
             files = <<stale>> \o Reverse(log)
      PROVE  read.supply = any.supply /\ read.totalMinted >= any.totalMinted
  <2> DEFINE first == <<stale>>
  <2>1. files = first \o Reverse(log) /\ first = <<stale>>
    BY <1>7
  <2> HIDE DEF first
  <2> QED BY <2>1, StaleFirst
<1> QED BY <1>5, <1>6, <1>7

-----------------------------------------------------------------------------
(* The inductive invariant                                                 *)

\* Color and type are not known before the mint was captured.
Early == step = 1 \/ (step = 2 /\ phase \in {"submit", "learn"})

ControlInv ==
  /\ step \in 1 .. 6
  /\ phase \in {"submit", "learn", "row", "report", "written", "failed"}
  /\ phase \in {"submit", "row"} => step \in 1 .. 5
  /\ phase = "learn" => step = 2
  /\ phase \in {"report", "written"} => step = 6
  /\ color \in {NoType, Token}
  /\ mintType \in {NoType, MintType}
  /\ Early => color = NoType /\ mintType = NoType
  /\ ~Early /\ phase # "failed" => color = Token

CapturedInv ==
  /\ captured \in Seq(GoodTx)
  /\ step = 1 => \A i \in DOMAIN captured : captured[i] \in BareTx

RowSet == [seen : Nat, delta : Int, fold : Int, mints : Nat]

\* Every row is what the log says now of as much of it as the row had seen, even
\* of color and type that were not known then.
RowsInv ==
  /\ rows \in Seq(RowSet)
  /\ \A k \in DOMAIN rows :
       /\ rows[k].seen \in 0 .. Len(captured)
       /\ rows[k].fold
            = 0 - DeltaSum(captured, Token, rows[k].seen)
       /\ rows[k].mints
            = MintSum(captured, mintType, rows[k].seen)
       /\ step <= 2 => \A i \in 1 .. rows[k].seen : captured[i] \in BareTx

TableInv ==
  /\ table \in {<<>>, <<FoldSupply(DecodeCaptured, Token, mintType)>>}
  /\ (phase = "written" <=> table # <<>>)

OfflineInv ==
  /\ offline # <<>> => phase = "written"
  /\ \A k \in DOMAIN offline :
       /\ offline[k].supply = table[1].supply
       /\ offline[k].totalMinted >= table[1].totalMinted

ReportInv == ControlInv /\ CapturedInv /\ RowsInv /\ TableInv /\ OfflineInv

-----------------------------------------------------------------------------
(* It is an invariant                                                      *)

\* Nothing is captured, measured or written at first.
LEMMA ReportInit == Init => ReportInv
<1> SUFFICES ASSUME Init PROVE ReportInv
  OBVIOUS
<1>1. ControlInv
  BY DEF Init, ControlInv, Early
<1>2. CapturedInv
  BY DEF Init, CapturedInv
<1>3. RowsInv
  BY DEF Init, RowsInv
<1>4. TableInv
  BY DEF Init, TableInv
<1>5. OfflineInv
  BY DEF Init, OfflineInv
<1> QED BY <1>1, <1>2, <1>3, <1>4, <1>5 DEF ReportInv

\* Nothing was written yet.
LEMMA NothingWritten ==
  ASSUME ReportInv, phase # "written", table' = table, offline' = offline,
         phase' # "written"
  PROVE  TableInv' /\ OfflineInv'
<1>1. table = <<>> /\ offline = <<>>
  BY DEF ReportInv, TableInv, OfflineInv
<1> QED BY <1>1 DEF TableInv, OfflineInv

\* The rows have the same sums in the longer log.
LEMMA SubmitKeeps == ReportInv /\ Submit => ReportInv'
<1> SUFFICES ASSUME ReportInv, Submit PROVE ReportInv'
  OBVIOUS
<1>1. step \in 1 .. 5 /\ phase = "submit" /\ phase' = IF step = 2 THEN "learn" ELSE "row"
  BY DEF ReportInv, ControlInv, Submit
<1>2. ControlInv'
  BY <1>1 DEF ReportInv, ControlInv, Submit, Early
<1>3. captured \in Seq(GoodTx) /\ mintType \in {NoType, MintType}
  BY DEF ReportInv, CapturedInv, ControlInv
<1>4. TableInv' /\ OfflineInv'
  BY <1>1, NothingWritten DEF Submit
<1>5. CASE captured' = captured
  <2>1. CapturedInv'
    BY <1>5 DEF ReportInv, CapturedInv, Submit
  <2>2. RowsInv'
    BY <1>5 DEF ReportInv, RowsInv, Submit
  <2> QED BY <1>2, <1>4, <2>1, <2>2 DEF ReportInv
<1>6. ASSUME NEW tx \in Readings(step), captured' = Append(captured, tx)
      PROVE  ReportInv'
  <2>1. tx \in GoodTx /\ (step = 1 => tx \in BareTx)
    BY <1>1, ReadingsGood
  <2>2. /\ captured' \in Seq(GoodTx) /\ Len(captured') = Len(captured) + 1
        /\ captured'[Len(captured) + 1] = tx
        /\ \A i \in 1 .. Len(captured) : captured'[i] = captured[i]
    BY <1>3, <1>6, <2>1
  <2>3. CapturedInv'
    <3>1. step' = step
      BY DEF Submit
    <3>2. ASSUME step = 1, NEW i \in DOMAIN captured' PROVE captured'[i] \in BareTx
      <4>1. i \in 1 .. Len(captured) \/ i = Len(captured) + 1
        BY <1>3, <2>2, <3>2
      <4>2. CASE i \in 1 .. Len(captured)
        BY <1>3, <2>2, <3>2, <4>2 DEF ReportInv, CapturedInv
      <4>3. CASE i = Len(captured) + 1
        BY <2>1, <2>2, <3>2, <4>3
      <4> QED BY <4>1, <4>2, <4>3
    <3> QED BY <2>2, <3>1, <3>2 DEF CapturedInv
  <2>4. rows' = rows /\ mintType' = mintType /\ step' = step /\ rows \in Seq(RowSet)
    BY DEF Submit, ReportInv, RowsInv
  <2>5. ASSUME NEW k \in DOMAIN rows
        PROVE  /\ rows[k].seen \in 0 .. Len(captured')
               /\ rows[k].fold = 0 - DeltaSum(captured', Token, rows[k].seen)
               /\ rows[k].mints = MintSum(captured', mintType, rows[k].seen)
               /\ step <= 2 => \A i \in 1 .. rows[k].seen : captured'[i] \in BareTx
    <3> DEFINE n == rows[k].seen
    <3>1. /\ n \in 0 .. Len(captured)
          /\ rows[k].fold = 0 - DeltaSum(captured, Token, n)
          /\ rows[k].mints = MintSum(captured, mintType, n)
          /\ step <= 2 => \A i \in 1 .. n : captured[i] \in BareTx
      BY DEF ReportInv, RowsInv
    <3> HIDE DEF n
    <3>2. /\ DeltaSum(captured', Token, n) = DeltaSum(captured, Token, n)
          /\ MintSum(captured', mintType, n) = MintSum(captured, mintType, n)
      BY <1>3, <1>6, <2>1, <3>1, PrefixKept
    <3>3. n \in 0 .. Len(captured')
      BY <1>3, <2>2, <3>1
    <3>4. step <= 2 => \A i \in 1 .. n : captured'[i] \in BareTx
      BY <1>3, <2>2, <3>1
    <3> QED BY <3>1, <3>2, <3>3, <3>4 DEF n
  <2>6. RowsInv'
    BY <2>4, <2>5 DEF RowsInv
  <2> QED BY <1>2, <1>4, <2>3, <2>6 DEF ReportInv
<1> QED BY <1>5, <1>6 DEF Submit

\* The rows there are have seen deploys only, which have no sums by any type.
LEMMA LearnKeeps == ReportInv /\ Learn => ReportInv'
<1> SUFFICES ASSUME ReportInv, Learn PROVE ReportInv'
  OBVIOUS
<1>1. /\ step = 2 /\ phase = "learn" /\ phase' = "row" /\ step' = step
      /\ captured' = captured /\ rows' = rows /\ color' = Token
  BY DEF ReportInv, ControlInv, Learn
<1>2. captured \in Seq(GoodTx) /\ mintType \in {NoType, MintType}
  BY DEF ReportInv, CapturedInv, ControlInv
<1>3. mintType' \in {NoType, MintType}
  <2>1. mintType' = ObservedMintType(Decoded(captured))
    BY DEF Learn, DecodeCaptured, Decoded
  <2> QED BY <1>2, <2>1, Observed
<1>4. ControlInv'
  BY <1>1, <1>3 DEF ReportInv, ControlInv, Early
<1>5. CapturedInv'
  BY <1>1 DEF ReportInv, CapturedInv
<1>6. TableInv' /\ OfflineInv'
  BY <1>1, NothingWritten DEF Learn
<1>7. ASSUME NEW k \in DOMAIN rows
      PROVE  /\ rows[k].seen \in 0 .. Len(captured)
             /\ rows[k].fold = 0 - DeltaSum(captured, Token, rows[k].seen)
             /\ rows[k].mints = MintSum(captured, mintType', rows[k].seen)
             /\ \A i \in 1 .. rows[k].seen : captured[i] \in BareTx
  <2> DEFINE n == rows[k].seen
  <2>1. /\ n \in 0 .. Len(captured)
        /\ rows[k].fold = 0 - DeltaSum(captured, Token, n)
        /\ rows[k].mints = MintSum(captured, mintType, n)
        /\ \A i \in 1 .. n : captured[i] \in BareTx
    BY <1>1 DEF ReportInv, RowsInv
  <2> HIDE DEF n
  <2>2. MintSum(captured, mintType, n) = 0
    BY <1>2, <2>1, PrefixBare
  <2>3. MintSum(captured, mintType', n) = 0
    BY <1>2, <1>3, <2>1, PrefixBare
  <2> QED BY <2>1, <2>2, <2>3 DEF n
<1>8. RowsInv'
  <2>1. rows \in Seq(RowSet)
    BY DEF ReportInv, RowsInv
  <2> QED BY <1>1, <1>7, <2>1 DEF RowsInv
<1> QED BY <1>4, <1>5, <1>6, <1>8 DEF ReportInv

\* The new row has the sums of the whole log; before the color is known there
\* are deploys only, and no color makes a difference.
LEMMA CheckpointKeeps == ReportInv /\ Checkpoint => ReportInv'
<1> SUFFICES ASSUME ReportInv, Checkpoint PROVE ReportInv'
  OBVIOUS
<1> DEFINE n == Len(captured)
           row == [ seen |-> n, delta |-> MeasuredDelta, fold |-> Fold.supply,
                    mints |-> Fold.totalMinted ]
<1>1. /\ phase = "row" /\ step \in 1 .. 5 /\ step' = step + 1
      /\ phase' = IF step = 5 THEN "report" ELSE "submit"
      /\ captured' = captured /\ color' = color /\ mintType' = mintType
      /\ rows' = Append(rows, row)
  BY DEF ReportInv, ControlInv, Checkpoint
<1>2. /\ captured \in Seq(GoodTx) /\ mintType \in {NoType, MintType}
      /\ n \in 0 .. Len(captured)
  BY DEF ReportInv, CapturedInv, ControlInv
<1>3. ControlInv'
  <2>1. step' \in 2 .. 6 /\ (step' = 2 => step = 1)
    BY <1>1
  <2>2. Early' => step = 1
    BY <1>1, <2>1 DEF Early
  <2>3. ~Early' => step # 1
    BY <1>1 DEF Early
  <2>4. (step = 1 => color = NoType /\ mintType = NoType) /\ (step # 1 => color = Token)
    BY <1>1 DEF ReportInv, ControlInv, Early
  <2>5. color \in {NoType, Token} /\ mintType \in {NoType, MintType}
    BY DEF ReportInv, ControlInv
  <2>6. /\ step' \in 1 .. 6 /\ phase' \in {"submit", "report"}
        /\ phase' = "submit" => step' \in 1 .. 5
        /\ phase' = "report" => step' = 6
    BY <1>1
  <2> QED BY <1>1, <2>2, <2>3, <2>4, <2>5, <2>6 DEF ControlInv
<1>4. CapturedInv'
  <2>1. step' # 1
    BY <1>1
  <2> QED BY <1>1, <1>2, <2>1 DEF CapturedInv
<1>5. TableInv' /\ OfflineInv'
  <2>1. phase # "written" /\ phase' # "written" /\ table' = table /\ offline' = offline
    BY <1>1 DEF Checkpoint
  <2> QED BY <2>1, NothingWritten
<1>6. /\ DeltaSum(captured, color, n) = DeltaSum(captured, Token, n)
      /\ DeltaSum(captured, Token, n) \in Int /\ MintSum(captured, mintType, n) \in Nat
  <2>1. DeltaSum(captured, Token, n) \in Int /\ MintSum(captured, mintType, n) \in Nat
    BY <1>2, SumsOfLog
  <2>2. CASE step = 1
    <3>1. \A i \in 1 .. n : captured[i] \in BareTx
      BY <1>2, <2>2 DEF ReportInv, CapturedInv
    <3>2. DeltaSum(captured, color, n) = 0
      BY <1>2, <3>1, PrefixBare
    <3>3. DeltaSum(captured, Token, n) = 0
      BY <1>2, <3>1, PrefixBare
    <3> QED BY <2>1, <3>2, <3>3
  <2>3. CASE step # 1
    <3>1. color = Token
      BY <1>1, <2>3 DEF ReportInv, ControlInv, Early
    <3> QED BY <2>1, <3>1
  <2> QED BY <2>2, <2>3
<1>7. /\ Fold.supply = 0 - DeltaSum(captured, color, n)
      /\ Fold.totalMinted = MintSum(captured, mintType, n)
  <2>1. Fold = FoldSupply(Decoded(captured), color, mintType)
    BY DEF Fold, DecodeCaptured, Decoded
  <2> QED BY <1>2, <2>1, FoldOfLog
<1>8. MeasuredDelta \in Int
  <2>1. CASE captured = <<>>
    BY <2>1 DEF MeasuredDelta
  <2>2. CASE captured # <<>>
    <3>1. n \in DOMAIN captured
      BY <1>2, <2>2
    <3>2. DeltaForType(DecodeTx(captured[n]), color) \in Int
      BY <1>2, <3>1, LogNumbers
    <3> QED BY <2>2, <3>2 DEF MeasuredDelta
  <2> QED BY <2>1, <2>2
<1>9. /\ row.seen = n
      /\ row.fold = 0 - DeltaSum(captured, Token, n)
      /\ row.mints = MintSum(captured, mintType, n)
      /\ row \in RowSet
  <2>1. Fold.supply = 0 - DeltaSum(captured, Token, n) /\ Fold.supply \in Int
    BY <1>6, <1>7
  <2>2. Fold.totalMinted \in Nat /\ n \in Nat
    BY <1>2, <1>6, <1>7
  <2> QED BY <1>7, <1>8, <2>1, <2>2 DEF RowSet
<1> HIDE DEF row, n
<1>10. RowsInv'
  <2>1. rows \in Seq(RowSet)
    BY DEF ReportInv, RowsInv
  <2>2. /\ rows' \in Seq(RowSet) /\ DOMAIN rows' = 1 .. Len(rows) + 1
        /\ rows'[Len(rows) + 1] = row
        /\ \A k \in 1 .. Len(rows) : k \in DOMAIN rows /\ rows'[k] = rows[k]
    BY <1>1, <1>9, <2>1
  <2>3. ASSUME NEW k \in DOMAIN rows'
        PROVE  /\ rows'[k].seen \in 0 .. Len(captured)
               /\ rows'[k].fold = 0 - DeltaSum(captured, Token, rows'[k].seen)
               /\ rows'[k].mints = MintSum(captured, mintType, rows'[k].seen)
               /\ step' <= 2 => \A i \in 1 .. rows'[k].seen : captured[i] \in BareTx
    <3>1. k \in 1 .. Len(rows) \/ k = Len(rows) + 1
      BY <2>1, <2>2
    <3>2. CASE k \in 1 .. Len(rows)
      <4>1. step' <= 2 => step <= 2
        BY <1>1
      <4>2. k \in DOMAIN rows /\ rows'[k] = rows[k]
        BY <2>2, <3>2
      <4> QED BY <4>1, <4>2 DEF ReportInv, RowsInv
    <3>3. CASE k = Len(rows) + 1
      <4>1. rows'[k] = row
        BY <2>2, <3>3
      <4>2. step' <= 2 => step = 1
        BY <1>1
      <4>3. step' <= 2 => \A i \in 1 .. n : captured[i] \in BareTx
        BY <1>2, <4>2 DEF ReportInv, CapturedInv, n
      <4> QED BY <1>2, <1>9, <4>1, <4>3
    <3> QED BY <3>1, <3>2, <3>3
  <2> QED BY <1>1, <2>2, <2>3 DEF RowsInv
<1> QED BY <1>3, <1>4, <1>5, <1>10 DEF ReportInv

\* The table is the fold by the color of the coins.
LEMMA TableKeeps == ReportInv /\ Report => ReportInv'
<1> SUFFICES ASSUME ReportInv, Report PROVE ReportInv'
  OBVIOUS
<1>1. /\ phase = "report" /\ phase' = "written" /\ step = 6 /\ step' = step
      /\ captured' = captured /\ color' = color /\ mintType' = mintType /\ rows' = rows
      /\ table' = <<Fold>> /\ offline' = offline
  BY DEF ReportInv, ControlInv, Report
<1>2. color = Token
  BY <1>1 DEF ReportInv, ControlInv, Early
<1>3. ControlInv'
  BY <1>1, <1>2 DEF ReportInv, ControlInv, Early
<1>4. CapturedInv'
  BY <1>1 DEF ReportInv, CapturedInv
<1>5. RowsInv'
  BY <1>1 DEF ReportInv, RowsInv
<1>6. TableInv'
  BY <1>1, <1>2 DEF TableInv, Fold, DecodeCaptured
<1>7. OfflineInv'
  <2>1. offline = <<>>
    BY <1>1 DEF ReportInv, OfflineInv
  <2> QED BY <1>1, <2>1 DEF OfflineInv
<1> QED BY <1>3, <1>4, <1>5, <1>6, <1>7 DEF ReportInv

\* A decoder that throws ends the script and leaves everything as it is.
LEMMA ThrowKeeps == ReportInv /\ DecodeThrows => ReportInv'
<1> SUFFICES ASSUME ReportInv, DecodeThrows PROVE ReportInv'
  OBVIOUS
<1>1. /\ phase \in {"learn", "row", "report"} /\ phase' = "failed" /\ step' = step
      /\ captured' = captured /\ color' = color /\ mintType' = mintType /\ rows' = rows
      /\ table' = table /\ offline' = offline
  BY DEF DecodeThrows
<1>2. ControlInv'
  BY <1>1 DEF ReportInv, ControlInv, Early
<1>3. CapturedInv'
  BY <1>1 DEF ReportInv, CapturedInv
<1>4. RowsInv'
  BY <1>1 DEF ReportInv, RowsInv
<1>5. TableInv' /\ OfflineInv'
  BY <1>1, NothingWritten
<1> QED BY <1>2, <1>3, <1>4, <1>5 DEF ReportInv

\* Whatever files are folded: no fewer mints, and the same supply.
LEMMA FilesKeep == ReportInv /\ FoldFiles => ReportInv'
<1> SUFFICES ASSUME ReportInv, FoldFiles PROVE ReportInv'
  OBVIOUS
<1>1. /\ phase = "written" /\ phase' = phase /\ step = 6 /\ step' = step
      /\ captured' = captured /\ color' = color /\ mintType' = mintType /\ rows' = rows
      /\ table' = table
  BY DEF ReportInv, ControlInv, FoldFiles
<1>2. /\ color = Token /\ captured \in Seq(GoodTx) /\ mintType \in {NoType, MintType}
      /\ table = <<FoldSupply(DecodeCaptured, Token, mintType)>>
  BY <1>1 DEF ReportInv, ControlInv, CapturedInv, TableInv, Early
<1>3. ControlInv'
  BY <1>1 DEF ReportInv, ControlInv, Early
<1>4. CapturedInv'
  BY <1>1 DEF ReportInv, CapturedInv
<1>5. RowsInv'
  BY <1>1 DEF ReportInv, RowsInv
<1>6. TableInv'
  BY <1>1 DEF ReportInv, TableInv, DecodeCaptured
<1>7. OfflineInv'
  <2>1. PICK files \in Folders :
          offline' = <<FoldSupply([i \in DOMAIN files |-> DecodeTx(files[i])], color, NoType)>>
    BY DEF FoldFiles
  <2>2. \/ files = captured
        \/ \E stale \in MintTxs(OtherToken, OtherMintType, M) :
             files = captured \o <<stale>> \/ files = <<stale>> \o Reverse(captured)
    <3>1. CASE files = captured
      BY <3>1
    <3>2. CASE files # captured
      <4> DEFINE both(stale) == {captured \o <<stale>>, <<stale>> \o Reverse(captured)}
                 stales == MintTxs(OtherToken, OtherMintType, M)
      <4> DEFINE others == UNION {both(stale) : stale \in stales}
      <4>1. files \in {captured} \cup others
        BY <2>1 DEF Folders
      <4> HIDE DEF both, stales, others
      <4>2. files \in others
        BY <3>2, <4>1
      <4>3. PICK stale \in stales : files \in both(stale)
        BY <4>2 DEF others
      <4> QED BY <4>3 DEF both, stales
    <3> QED BY <3>1, <3>2
  <2> DEFINE read == FoldSupply(Decoded(files), Token, NoType)
             whole == FoldSupply(Decoded(captured), Token, mintType)
  <2>3. read.supply = whole.supply /\ read.totalMinted >= whole.totalMinted
    BY <1>2, <2>2, FilesAgree
  <2>4. offline' = <<read>> /\ table' = <<whole>>
    BY <1>1, <1>2, <2>1 DEF Decoded, DecodeCaptured
  <2> HIDE DEF read, whole
  <2> QED BY <1>1, <2>3, <2>4 DEF OfflineInv
<1> QED BY <1>3, <1>4, <1>5, <1>6, <1>7 DEF ReportInv

\* One step of the script, or of the command line after it.
LEMMA ReportNext == ReportInv /\ [Next]_vars => ReportInv'
<1> SUFFICES ASSUME ReportInv, [Next]_vars PROVE ReportInv'
  OBVIOUS
<1>1. CASE Submit
  BY <1>1, SubmitKeeps
<1>2. CASE Learn
  BY <1>2, LearnKeeps
<1>3. CASE Checkpoint
  BY <1>3, CheckpointKeeps
<1>4. CASE Report
  BY <1>4, TableKeeps
<1>5. CASE DecodeThrows
  BY <1>5, ThrowKeeps
<1>6. CASE FoldFiles
  BY <1>6, FilesKeep
<1>7. CASE UNCHANGED vars
  BY <1>7 DEF vars, ReportInv, ControlInv, Early, CapturedInv, RowsInv, TableInv, OfflineInv,
              DecodeCaptured
<1> QED BY <1>1, <1>2, <1>3, <1>4, <1>5, <1>6, <1>7 DEF Next

\* Every row, the table and the offline fold are sums of what the log says, in
\* every state.
THEOREM ReportInvariance == Spec => []ReportInv
<1>1. Init => ReportInv
  BY ReportInit
<1>2. ReportInv /\ [Next]_vars => ReportInv'
  BY ReportNext
<1> QED BY <1>1, <1>2, PTL DEF Spec

-----------------------------------------------------------------------------
(* The properties                                                          *)

\* What the log says of its transactions.
LEMMA TruthOfLog ==
  ASSUME ReportInv, NEW i \in DOMAIN captured
  PROVE  LET d == DeltaForType(DecodeTx(captured[i]), Token)
             m == ShieldedMintsForType(DecodeTx(captured[i]), mintType)
         IN  /\ d \in Int /\ TrueDelta(captured[i]) \in Int
             /\ ~DeltaLost(captured[i]) => d = TrueDelta(captured[i])
             /\ m \in Nat /\ TrueMints(captured[i]) \in Nat /\ m <= TrueMints(captured[i])
             /\ ~MintsLost(captured[i]) => m = TrueMints(captured[i])
             /\ \/ TrueMints(captured[i]) = 0
                \/ TrueDelta(captured[i]) = 0 - TrueMints(captured[i])
<1> DEFINE tx == captured[i]
<1>1. captured \in Seq(GoodTx) /\ mintType \in {NoType, MintType} /\ MintType # NoType
  BY TypesAssumption DEF ReportInv, CapturedInv, ControlInv, TypesAssumption
<1>2. tx \in GoodTx
  BY <1>1
<1>3. tx \in TxSet(Token, MintType)
      /\ (TrueMints(tx) = 0 \/ TrueDelta(tx) = 0 - TrueMints(tx))
  BY <1>2 DEF GoodTx
<1> HIDE DEF tx
<1> DEFINE d == DeltaForType(DecodeTx(tx), Token)
           m == ShieldedMintsForType(DecodeTx(tx), mintType)
<1>4. d \in Int /\ TrueDelta(tx) \in Int /\ (~DeltaLost(tx) => d = TrueDelta(tx))
  BY <1>3, DeltaRead
<1>5. /\ m \in Nat /\ MintedByTx(tx, MintType) \in Nat /\ m <= MintedByTx(tx, MintType)
      /\ ~MintsLost(tx) => m = MintedByTx(tx, MintType)
  BY <1>1, <1>3, MintsRead
<1>6. TrueMints(tx) = MintedByTx(tx, MintType)
  BY DEF TrueMints
<1> HIDE DEF d, m
<1>7. /\ d \in Int /\ TrueDelta(tx) \in Int
      /\ ~DeltaLost(tx) => d = TrueDelta(tx)
      /\ m \in Nat /\ TrueMints(tx) \in Nat /\ m <= TrueMints(tx)
      /\ ~MintsLost(tx) => m = TrueMints(tx)
      /\ TrueMints(tx) = 0 \/ TrueDelta(tx) = 0 - TrueMints(tx)
  BY <1>3, <1>4, <1>5, <1>6
<1> QED BY <1>7 DEF d, m, tx

\* A row is about a part of the log.
LEMMA RowOfLog ==
  ASSUME ReportInv, NEW r \in Range(rows)
  PROVE  /\ r.seen \in 0 .. Len(captured) /\ 1 .. r.seen \subseteq DOMAIN captured
         /\ IsFiniteSet(1 .. r.seen)
         /\ r.fold = 0 - DeltaSum(captured, Token, r.seen)
         /\ r.mints = MintSum(captured, mintType, r.seen)
         /\ captured \in Seq(GoodTx) /\ mintType \in {NoType, MintType}
<1>1. captured \in Seq(GoodTx) /\ mintType \in {NoType, MintType}
  BY DEF ReportInv, CapturedInv, ControlInv
<1>2. PICK k \in DOMAIN rows : r = rows[k]
  BY DEF Range
<1>3. /\ r.seen \in 0 .. Len(captured)
      /\ r.fold = 0 - DeltaSum(captured, Token, r.seen)
      /\ r.mints = MintSum(captured, mintType, r.seen)
  BY <1>2 DEF ReportInv, RowsInv
<1>4. IsFiniteSet(1 .. r.seen) /\ 1 .. r.seen \subseteq DOMAIN captured
  BY <1>1, <1>3, SumsOfLog
<1> QED BY <1>1, <1>3, <1>4

\* In every state, whatever could not be read: the fold of every row is minus
\* the sum of the true deltas of what had been captured, unless a delta was lost.
THEOREM FoldsAreExact == Spec => []FoldIsExact
<1>1. ReportInv => FoldIsExact
  <2> SUFFICES ASSUME ReportInv, NEW r \in Range(rows),
                      \A i \in 1 .. r.seen : ~DeltaLost(captured[i])
               PROVE  r.fold = 0 - SumFunctionOnSet(TrueDeltas, 1 .. r.seen)
    BY DEF FoldIsExact
  <2> DEFINE S == 1 .. r.seen
             read == DeltasOf(Decoded(captured), Token)
  <2>1. /\ S \subseteq DOMAIN captured /\ IsFiniteSet(S)
        /\ r.fold = 0 - DeltaSum(captured, Token, r.seen)
        /\ captured \in Seq(GoodTx) /\ mintType \in {NoType, MintType}
    BY RowOfLog
  <2>2. ASSUME NEW i \in S PROVE read[i] = TrueDeltas[i]
    <3>1. i \in DOMAIN captured /\ ~DeltaLost(captured[i])
      BY <2>1
    <3>2. DeltaForType(DecodeTx(captured[i]), Token) = TrueDelta(captured[i])
      BY <3>1, TruthOfLog
    <3>3. read[i] = DeltaForType(DecodeTx(captured[i]), Token)
      BY <2>1, <3>1, LogNumbers
    <3> QED BY <3>1, <3>2, <3>3 DEF TrueDeltas
  <2>3. DeltaSum(captured, Token, r.seen) = SumFunctionOnSet(read, S)
    BY DEF DeltaSum
  <2> HIDE DEF S, read
  <2>4. Total(S, read) = Total(S, TrueDeltas)
    BY <2>1, <2>2, TotalSame
  <2>5. SumFunctionOnSet(read, S) = Total(S, read)
        /\ SumFunctionOnSet(TrueDeltas, S) = Total(S, TrueDeltas)
    BY <2>1, SumOnSetIsTotal
  <2>6. r.fold = 0 - SumFunctionOnSet(TrueDeltas, S)
    BY <2>1, <2>3, <2>4, <2>5
  <2> QED BY <2>6 DEF S
<1> QED BY <1>1, ReportInvariance, PTL

\* In every state: no row has more mints than there were, nor fewer unless an
\* effect was lost, whether the minted type was observed or not.
THEOREM MintsAreBounded == Spec => []MintsAreNeverOvercounted
<1>1. ReportInv => MintsAreNeverOvercounted
  <2> SUFFICES ASSUME ReportInv, NEW r \in Range(rows)
               PROVE  /\ r.mints <= SumFunctionOnSet(TrueMintings, 1 .. r.seen)
                      /\ (\A i \in 1 .. r.seen : ~MintsLost(captured[i])) =>
                           r.mints = SumFunctionOnSet(TrueMintings, 1 .. r.seen)
    BY DEF MintsAreNeverOvercounted
  <2> DEFINE S == 1 .. r.seen
             read == MintsOf(Decoded(captured), mintType)
  <2>1. /\ S \subseteq DOMAIN captured /\ IsFiniteSet(S)
        /\ r.mints = MintSum(captured, mintType, r.seen)
        /\ captured \in Seq(GoodTx) /\ mintType \in {NoType, MintType}
    BY RowOfLog
  <2>2. ASSUME NEW i \in S
        PROVE  /\ read[i] \in Int /\ TrueMintings[i] \in Int /\ read[i] <= TrueMintings[i]
               /\ ~MintsLost(captured[i]) => read[i] = TrueMintings[i]
    <3>1. i \in DOMAIN captured
      BY <2>1
    <3> DEFINE m == ShieldedMintsForType(DecodeTx(captured[i]), mintType)
               v == TrueMints(captured[i])
    <3>2. m \in Nat /\ v \in Nat /\ m <= v /\ (~MintsLost(captured[i]) => m = v)
      BY <3>1, TruthOfLog
    <3>3. read[i] = m
      BY <2>1, <3>1, LogNumbers
    <3>4. TrueMintings[i] = v
      BY <3>1 DEF TrueMintings
    <3> HIDE DEF m, v, read
    <3> QED BY <3>2, <3>3, <3>4
  <2>3. MintSum(captured, mintType, r.seen) = SumFunctionOnSet(read, S)
    BY DEF MintSum
  <2> HIDE DEF S, read
  <2>4. Total(S, read) <= Total(S, TrueMintings)
    BY <2>1, <2>2, TotalBelow
  <2>5. (\A i \in S : ~MintsLost(captured[i])) => Total(S, read) = Total(S, TrueMintings)
    BY <2>1, <2>2, TotalSame
  <2>6. SumFunctionOnSet(read, S) = Total(S, read)
        /\ SumFunctionOnSet(TrueMintings, S) = Total(S, TrueMintings)
    BY <2>1, SumOnSetIsTotal
  <2>7. /\ r.mints <= SumFunctionOnSet(TrueMintings, S)
        /\ (\A i \in S : ~MintsLost(captured[i])) =>
             r.mints = SumFunctionOnSet(TrueMintings, S)
    BY <2>1, <2>3, <2>4, <2>5, <2>6
  <2> QED BY <2>7 DEF S
<1> QED BY <1>1, ReportInvariance, PTL

\* The table, when there is one.
LEMMA TableOfLog ==
  ASSUME ReportInv, NEW fold \in Range(table)
  PROVE  /\ captured \in Seq(GoodTx) /\ mintType \in {NoType, MintType}
         /\ table = <<fold>>
         /\ fold = FoldSupply(Decoded(captured), Token, mintType)
<1>1. captured \in Seq(GoodTx) /\ mintType \in {NoType, MintType}
  BY DEF ReportInv, CapturedInv, ControlInv
<1>2. table \in {<<>>, <<FoldSupply(Decoded(captured), Token, mintType)>>}
  BY DEF ReportInv, TableInv, DecodeCaptured, Decoded
<1> DEFINE whole == FoldSupply(Decoded(captured), Token, mintType)
<1>3. whole = FoldSupply(Decoded(captured), Token, mintType)
  OBVIOUS
<1> HIDE DEF whole
<1>4. table = <<whole>> /\ fold = whole
  BY <1>2, <1>3 DEF Range
<1> QED BY <1>1, <1>3, <1>4

\* In every state: where the two columns of the table agree on a mint they are
\* right, or both halves of that transaction were lost.
THEOREM AgreementIsTruth == Spec => []LossesShow
<1>1. ReportInv => LossesShow
  <2> SUFFICES ASSUME ReportInv, NEW fold \in Range(table), NEW i \in DOMAIN captured,
                      TrueMints(captured[i]) # 0,
                      fold.rows[i].delta = 0 - fold.rows[i].mints
               PROVE  \/ /\ fold.rows[i].delta = TrueDelta(captured[i])
                         /\ fold.rows[i].mints = TrueMints(captured[i])
                      \/ DeltaLost(captured[i]) /\ MintsLost(captured[i])
    BY DEF LossesShow
  <2> DEFINE d == DeltaForType(DecodeTx(captured[i]), Token)
             m == ShieldedMintsForType(DecodeTx(captured[i]), mintType)
             c == TrueDelta(captured[i])
             v == TrueMints(captured[i])
  <2>1. /\ captured \in Seq(GoodTx) /\ mintType \in {NoType, MintType}
        /\ fold = FoldSupply(Decoded(captured), Token, mintType)
    BY TableOfLog
  <2>2. fold.rows[i].delta = d /\ fold.rows[i].mints = m
    BY <2>1, FoldOfLog
  <2>3. /\ d \in Int /\ c \in Int /\ m \in Nat /\ v \in Nat
        /\ ~DeltaLost(captured[i]) => d = c
        /\ ~MintsLost(captured[i]) => m = v
        /\ v = 0 \/ c = 0 - v
    BY TruthOfLog
  <2>4. v # 0 /\ d = 0 - m
    BY <2>2
  <2> HIDE DEF d, m, c, v
  <2>5. ~DeltaLost(captured[i]) \/ ~MintsLost(captured[i]) => d = c /\ m = v
    BY <2>3, <2>4
  <2> QED BY <2>2, <2>5 DEF c, v
<1> QED BY <1>1, ReportInvariance, PTL

\* In every state: the rows are the running sums of the table, although they were
\* measured from shorter logs, before color and type were known.
THEOREM MatrixIsTheTable == Spec => []MatrixAgreesWithTable
<1>1. ReportInv => MatrixAgreesWithTable
  <2> SUFFICES ASSUME ReportInv, NEW fold \in Range(table), NEW r \in Range(rows),
                      r.seen > 0
               PROVE  /\ r.fold = fold.rows[r.seen].runningSupply
                      /\ r.mints = fold.rows[r.seen].runningMints
    BY DEF MatrixAgreesWithTable
  <2>1. /\ captured \in Seq(GoodTx) /\ mintType \in {NoType, MintType}
        /\ fold = FoldSupply(Decoded(captured), Token, mintType)
    BY TableOfLog
  <2>2. /\ r.seen \in 0 .. Len(captured)
        /\ r.fold = 0 - DeltaSum(captured, Token, r.seen)
        /\ r.mints = MintSum(captured, mintType, r.seen)
    BY RowOfLog
  <2>3. r.seen \in DOMAIN captured
    BY <2>1, <2>2
  <2>4. /\ fold.rows[r.seen].runningSupply = 0 - DeltaSum(captured, Token, r.seen)
        /\ fold.rows[r.seen].runningMints = MintSum(captured, mintType, r.seen)
    BY <2>1, <2>3, FoldOfLog
  <2> QED BY <2>2, <2>4
<1> QED BY <1>1, ReportInvariance, PTL

\* In every state: an offline fold has the supply of the table and no fewer mints,
\* with or without a stale file after the others, and with the files reversed behind
\* the stale one.
THEOREM FilesSayTheSame == Spec => []OfflineFoldAgrees
<1>1. ReportInv => OfflineFoldAgrees
  BY DEF ReportInv, OfflineInv, OfflineFoldAgrees, Range
<1> QED BY <1>1, ReportInvariance, PTL
=============================================================================
