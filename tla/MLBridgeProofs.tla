--------------------------- MODULE MLBridgeProofs ---------------------------
(***************************************************************************)
(* Theorems about MLBridge, for any number of vectors and of lives of      *)
(* either process.                                                         *)
(*                                                                         *)
(* The argument: a stamp that is in the file, or that a read has of it, is *)
(* at least that of every vector taken so far (NotOlder), and if it is     *)
(* that of one the same server has taken, it is the one it remembers       *)
(* (Remembered).  So a read that yields a vector yields a new one.         *)
(***************************************************************************)
EXTENDS MLBridge, SequenceTheorems, TLAPS

Made == {Zeros, Synthetic} \cup {used[i].fv : i \in DOMAIN used}

(* What the files hold, by where the processes are.                        *)
FilesInv ==
  /\ epc \in {"cutPredict", "sizePredict", "tick", "writing", "read"}
       => features \in FeatureVector
  /\ epc \in {"tick", "writing", "read"} => predict.size = "full"
  /\ predict.size # "part" /\ predict.of \in Made
  /\ spc = "replace" => tmp = "full"
  /\ work \in Made
  /\ PredictionsWhole

NotOlder(x) == x \in {-1, 0} \/ (x <= vec /\ \A i \in DOMAIN used : used[i].fv.stamp <= x)

Remembered(x) ==
  x > 0 /\ spc # "down" =>
    \A i \in DOMAIN used :
      used[i].fv.stamp = x /\ used[i].life = servers => last = x

StampsInv ==
  /\ \A i \in DOMAIN used : used[i].fv.stamp <= vec /\ used[i].life <= servers
  /\ NotOlder(features.stamp) /\ NotOlder(half.stamp)
  /\ Remembered(features.stamp) /\ Remembered(half.stamp)
  /\ features.stamp > 0 => half.stamp <= features.stamp
  /\ half.stamp = 0 /\ features.stamp > 0 =>
       \A i \in DOMAIN used : used[i].fv.stamp < features.stamp
  /\ epc = "writing" /\ rest = "stamp" =>
       /\ \A i \in DOMAIN used : used[i].fv.stamp < vec
       /\ half.stamp < vec /\ features.stamp < vec
  /\ spc \notin {"down"} => servers > 0
  /\ spc = "down" => half.stamp = -1

(* The inductive invariant.                                                *)
IInv == TypeOK /\ FilesInv /\ StampsInv /\ VectorsInOrder

LEMMA InitIInv == Init => IInv
<1> SUFFICES ASSUME Init PROVE IInv
  OBVIOUS
<1>1. 0 \in Stamps /\ 0 \in 0..MaxEngines /\ 0 \in 0..MaxServers
  BY BridgeAssumption DEF Stamps
<1>2. NoPrediction \in MLPrediction /\ Zeros \in FeatureVector
  BY <1>1 DEF NoPrediction, MLPrediction, Sizes, Sources, Zeros, FeatureVector
<1>3. TypeOK
  BY <1>1, <1>2 DEF Init, TypeOK, NoBytes, Sources, MLPrediction, Sizes
<1>4. FilesInv /\ StampsInv /\ VectorsInOrder
  BY DEF Init, FilesInv, Made, PredictionsWhole, NoPrediction, StampsInv, NotOlder,
         Remembered, NoBytes, VectorsInOrder
<1>5. QED
  BY <1>3, <1>4 DEF IInv

LEMMA StampsAreNat == \A n \in Stamps : n \in Nat /\ n <= MaxVectors
  BY BridgeAssumption DEF Stamps

LEMMA StampTypes ==
  ASSUME TypeOK
  PROVE  /\ vec \in Nat /\ features.stamp \in Int /\ half.stamp \in Int
         /\ features.body \in Int /\ half.body \in Int
         /\ \A i \in DOMAIN used : used[i].fv.stamp \in Nat /\ used[i].life \in Nat
<1>1. \A n \in Stamps : n \in Nat
  BY StampsAreNat
<1>2. vec \in Nat
  BY <1>1 DEF TypeOK
<1>3. features.stamp \in Int /\ features.body \in Int
  <2>1. CASE features = NoBytes
    BY <2>1 DEF NoBytes
  <2>2. CASE features \in FeatureVector
    BY <1>1, <2>2 DEF FeatureVector
  <2>3. QED
    BY <2>1, <2>2 DEF TypeOK
<1>4. half.stamp \in Int /\ half.body \in Int
  <2>1. half \in [stamp : Stamps \cup {-1}, body : Stamps \cup {-1}]
    BY DEF TypeOK
  <2>2. half.stamp \in Stamps \/ half.stamp = -1
    BY <2>1
  <2>3. half.body \in Stamps \/ half.body = -1
    BY <2>1
  <2>4. QED
    BY <1>1, <2>2, <2>3
<1>5. ASSUME NEW i \in DOMAIN used
      PROVE  used[i].fv.stamp \in Nat /\ used[i].life \in Nat
  <2>1. used[i] \in [life : 1..MaxServers, fv : FeatureVector]
    <3>1. used \in Seq([life : 1..MaxServers, fv : FeatureVector])
      BY DEF TypeOK
    <3>2. QED
      BY <3>1, LenProperties, ElementOfSeq
  <2>2. QED
    BY <1>1, <2>1, BridgeAssumption DEF FeatureVector
<1>6. QED
  BY <1>2, <1>3, <1>4, <1>5

-----------------------------------------------------------------------------
(* The engine's steps that do not write features.                          *)

LEMMA EngineQuiet ==
  ASSUME IInv,
         EngineStarts \/ CutPredict \/ SizePredict \/ ReadPrediction \/ EngineDies
  PROVE  IInv'
<1>1. /\ UNCHANGED <<vec, serverVars, features, tmp>>
      /\ epc' # "writing"
  BY DEF EngineStarts, CutPredict, SizePredict, ReadPrediction, EngineDies, serverVars
<1>2. NoPrediction \in MLPrediction /\ NoPrediction.of = Zeros /\ NoPrediction.size = "full"
  BY BridgeAssumption
     DEF NoPrediction, MLPrediction, Sizes, Sources, Zeros, FeatureVector, Stamps
<1>3. engines' \in 0..MaxEngines
  <2>1. engines \in 0..MaxEngines
    BY DEF IInv, TypeOK
  <2>2. CASE EngineStarts
    <3>1. engines < MaxEngines /\ engines' = engines + 1
      BY <2>2 DEF EngineStarts
    <3>2. QED
      BY <2>1, <3>1, BridgeAssumption
  <2>3. CASE CutPredict \/ SizePredict \/ ReadPrediction \/ EngineDies
    BY <2>1, <2>3 DEF CutPredict, SizePredict, ReadPrediction, EngineDies
  <2>4. QED
    BY <2>2, <2>3
<1>4. /\ predict' \in MLPrediction /\ predict'.size # "part" /\ predict'.of \in Made
      /\ epc' \in {"tick", "writing", "read"} => predict'.size = "full"
      /\ epc' \in {"cutPredict", "sizePredict", "tick", "writing", "read"} =>
           features \in FeatureVector
      /\ epc' \in {"down", "cutFeatures", "sizeFeatures", "cutPredict",
                   "sizePredict", "tick", "writing", "read"}
  <2>1. CASE EngineStarts \/ EngineDies \/ ReadPrediction
    BY <2>1 DEF IInv, TypeOK, FilesInv, EngineStarts, EngineDies, ReadPrediction
  <2>2. CASE CutPredict
    BY <2>2 DEF IInv, TypeOK, FilesInv, CutPredict, MLPrediction, Sizes
  <2>3. CASE SizePredict
    BY <1>2, <2>3 DEF IInv, TypeOK, FilesInv, SizePredict, MLPrediction, Sizes, Made
  <2>4. QED
    BY <2>1, <2>2, <2>3
<1>5. /\ seen' \in MLPrediction /\ seen'.size = "full" /\ seen'.of \in Made
      /\ rest' \in {"stamp", "body"}
  <2>1. CASE ReadPrediction
    BY <2>1 DEF IInv, TypeOK, FilesInv, ReadPrediction
  <2>2. CASE EngineDies
    BY <1>2, <2>2 DEF EngineDies, Made
  <2>3. CASE EngineStarts \/ CutPredict \/ SizePredict
    BY <2>3 DEF IInv, TypeOK, FilesInv, PredictionsWhole, Made, EngineStarts, CutPredict,
           SizePredict
  <2>4. QED
    BY <2>1, <2>2, <2>3
<1>6. TypeOK'
  BY <1>1, <1>3, <1>4, <1>5 DEF IInv, TypeOK, serverVars
<1>7. FilesInv'
  BY <1>1, <1>4, <1>5 DEF IInv, FilesInv, PredictionsWhole, Made, serverVars
<1>8. StampsInv' /\ VectorsInOrder'
  BY <1>1 DEF IInv, StampsInv, NotOlder, Remembered, VectorsInOrder, serverVars
<1>9. QED
  BY <1>6, <1>7, <1>8 DEF IInv

-----------------------------------------------------------------------------
(* The engine's steps that change the feature file.                        *)

LEMMA FeaturesIInv ==
  ASSUME IInv, CutFeatures \/ SizeFeatures \/ BeginWrite \/ EndWrite
  PROVE  IInv'
<1>0. /\ TypeOK /\ FilesInv /\ StampsInv /\ VectorsInOrder
      /\ vec \in Nat /\ features.stamp \in Int /\ half.stamp \in Int
      /\ \A i \in DOMAIN used : used[i].fv.stamp \in Nat
  BY StampTypes DEF IInv
<1>t. /\ vec \in Stamps /\ rest \in {"stamp", "body"}
      /\ features \in FeatureVector \cup {NoBytes}
  BY DEF IInv, TypeOK
<1>1. UNCHANGED <<engines, seen, serverVars, predict, tmp>>
  BY DEF CutFeatures, SizeFeatures, BeginWrite, EndWrite
<1>2. /\ features' \in FeatureVector \cup {NoBytes}
      /\ epc' \in {"cutPredict", "sizePredict", "tick", "writing", "read"} =>
           features' \in FeatureVector
      /\ vec' \in Stamps /\ rest' \in {"stamp", "body"} /\ vec <= vec'
      /\ epc' \in {"sizeFeatures", "cutPredict", "writing", "read"}
      /\ epc' \in {"writing", "read"} => predict.size = "full"
  <2>1. CASE CutFeatures
    BY <1>0, <1>t, <2>1 DEF CutFeatures, serverVars
  <2>2. CASE SizeFeatures
    <3>1. Zeros \in FeatureVector
      BY BridgeAssumption DEF Zeros, FeatureVector, Stamps
    <3>2. QED
      BY <1>0, <1>t, <2>2, <3>1 DEF SizeFeatures, serverVars
  <2>3. CASE BeginWrite
    <3>1. vec + 1 \in Stamps /\ vec' = vec + 1
      BY <1>0, <2>3, BridgeAssumption DEF BeginWrite, Stamps
    <3>2. features \in FeatureVector
      BY <1>0, <2>3 DEF BeginWrite, FilesInv
    <3>3. QED
      BY <1>0, <2>3, <3>1, <3>2 DEF BeginWrite, FeatureVector, FilesInv
  <2>4. CASE EndWrite
    <3>1. features \in FeatureVector /\ vec \in Stamps
      BY <1>0, <2>4 DEF EndWrite, FilesInv, TypeOK
    <3>2. QED
      BY <1>0, <2>4, <3>1 DEF EndWrite, FeatureVector, FilesInv
  <2>5. QED
    BY <2>1, <2>2, <2>3, <2>4
<1>3. TypeOK'
  BY <1>0, <1>1, <1>2 DEF TypeOK, serverVars
<1>4. FilesInv'
  BY <1>0, <1>1, <1>2 DEF FilesInv, PredictionsWhole, Made, serverVars
<1>5. VectorsInOrder'
  BY <1>0, <1>1 DEF VectorsInOrder, serverVars
(* The new stamp: none, the old one, or one later than all that was.       *)
<1>6. \/ features'.stamp \in {-1, 0, features.stamp}
      \/ /\ features'.stamp = vec' /\ features'.stamp > 0 /\ half.stamp < vec'
         /\ \A i \in DOMAIN used : used[i].fv.stamp < vec'
  <2>1. CASE CutFeatures \/ SizeFeatures
    <3>1. features'.stamp = -1 \/ features'.stamp = 0
      BY <2>1 DEF CutFeatures, SizeFeatures, NoBytes, Zeros, serverVars
    <3>2. QED
      BY <3>1
  <2>2. CASE BeginWrite
    <3>1. features \in FeatureVector
      BY <1>0, <2>2 DEF BeginWrite, FilesInv
    <3>2. /\ vec' = vec + 1 /\ half.stamp <= vec
          /\ \A i \in DOMAIN used : used[i].fv.stamp <= vec
      BY <1>0, <2>2 DEF BeginWrite, StampsInv, NotOlder
    <3>3. features'.stamp \in {features.stamp, vec + 1}
      BY <2>2, <3>1 DEF BeginWrite, FeatureVector
    <3>4. QED
      BY <1>0, <3>2, <3>3
  <2>3. CASE EndWrite
    <3>1. features \in FeatureVector
      BY <1>0, <2>3 DEF EndWrite, FilesInv
    <3>2. features.stamp >= 0
      BY <3>1 DEF FeatureVector, Stamps
    <3>3. CASE rest = "stamp"
      BY <1>0, <2>3, <3>1, <3>2, <3>3 DEF EndWrite, StampsInv, FeatureVector
    <3>4. CASE rest # "stamp"
      BY <2>3, <3>1, <3>4 DEF EndWrite, FeatureVector
    <3>5. QED
      BY <3>3, <3>4
  <2>4. QED
    BY <2>1, <2>2, <2>3
<1>7. epc' = "writing" /\ rest' = "stamp" =>
        /\ \A i \in DOMAIN used : used[i].fv.stamp < vec'
        /\ half.stamp < vec' /\ features'.stamp < vec'
  <2>1. SUFFICES ASSUME BeginWrite, rest' = "stamp"
                 PROVE  /\ \A i \in DOMAIN used : used[i].fv.stamp < vec'
                        /\ half.stamp < vec' /\ features'.stamp < vec'
    BY DEF CutFeatures, SizeFeatures, EndWrite
  <2>2. features \in FeatureVector
    BY <1>0, <2>1 DEF BeginWrite, FilesInv
  <2>3. vec' = vec + 1 /\ features'.stamp = features.stamp
    BY <2>1, <2>2 DEF BeginWrite, FeatureVector
  <2>4. /\ \A i \in DOMAIN used : used[i].fv.stamp <= vec
        /\ half.stamp <= vec /\ features.stamp <= vec
    BY <1>0 DEF StampsInv, NotOlder
  <2>5. QED
    BY <1>0, <2>3, <2>4
<1>8. StampsInv'
  <2>0. /\ UNCHANGED <<used, half, servers, last, spc>>
        /\ vec' \in Nat /\ vec <= vec' /\ features'.stamp \in Int
    BY <1>0, <1>1, <1>2, <1>6, StampsAreNat DEF serverVars
  <2>1. NotOlder(features.stamp)' /\ NotOlder(half.stamp)'
    BY <1>0, <1>6, <2>0 DEF StampsInv, NotOlder
  <2>2. Remembered(features.stamp)' /\ Remembered(half.stamp)'
    BY <1>0, <1>6, <2>0 DEF StampsInv, Remembered
  <2>3. /\ (features.stamp > 0 => half.stamp <= features.stamp)'
        /\ (half.stamp = 0 /\ features.stamp > 0 =>
               \A i \in DOMAIN used : used[i].fv.stamp < features.stamp)'
    BY <1>0, <1>6, <2>0 DEF StampsInv, NotOlder
  <2>4. (\A i \in DOMAIN used : used[i].fv.stamp <= vec /\ used[i].life <= servers)'
    BY <1>0, <2>0 DEF StampsInv
  <2>5. QED
    BY <1>0, <1>7, <2>0, <2>1, <2>2, <2>3, <2>4 DEF StampsInv
<1>9. QED
  BY <1>3, <1>4, <1>5, <1>8 DEF IInv

-----------------------------------------------------------------------------
(* The server's steps that take no vector.                                 *)

LEMMA ServerQuiet ==
  ASSUME IInv,
         \/ ServerStarts \/ NoVector \/ BeginRead \/ InferFails \/ Infer \/ OpenTmp
         \/ CloseTmp \/ Replace \/ WriteFails \/ Sleep \/ ServerDies
  PROVE  IInv'
<1>0. /\ TypeOK /\ FilesInv /\ StampsInv /\ VectorsInOrder
      /\ vec \in Nat /\ features.stamp \in Int /\ half.stamp \in Int
      /\ \A i \in DOMAIN used : used[i].fv.stamp \in Nat /\ used[i].life \in Nat
  BY StampTypes DEF IInv
<1>1. UNCHANGED <<epc, engines, vec, rest, seen, used, features>>
  BY DEF ServerStarts, NoVector, Nothing, BeginRead, InferFails, Infer, OpenTmp, CloseTmp,
         Replace, WriteFails, Sleep, ServerDies, engineVars
(* Where the server goes, and what it remembers.                           *)
<1>2. /\ servers \in 0..MaxServers /\ servers' \in 0..MaxServers
      /\ \/ spc # "down" /\ spc' # "down" /\ servers' = servers /\ last' = last
         \/ spc # "down" /\ spc' = "down" /\ servers' = servers /\ last' = 0
         \/ spc = "down" /\ spc' = "poll" /\ servers' = servers + 1 /\ last' = last
      /\ spc' \in {"down", "poll", "reading", "infer", "open", "close", "replace", "sleep"}
  <2>1. servers \in 0..MaxServers
    BY <1>0 DEF TypeOK
  <2>2. CASE ServerStarts
    <3>1. servers < MaxServers /\ servers' = servers + 1
      BY <2>2 DEF ServerStarts
    <3>2. servers + 1 \in 0..MaxServers
      BY <2>1, <3>1, BridgeAssumption
    <3>3. QED
      BY <2>1, <2>2, <3>1, <3>2 DEF ServerStarts
  <2>3. CASE ServerDies
    BY <2>1, <2>3 DEF ServerDies
  <2>4. CASE NoVector \/ BeginRead
    BY <2>1, <2>4 DEF NoVector, Nothing, BeginRead
  <2>5. CASE InferFails \/ Infer \/ OpenTmp \/ CloseTmp \/ Replace \/ WriteFails \/ Sleep
    BY <2>1, <2>5 DEF InferFails, Infer, OpenTmp, CloseTmp, Replace, WriteFails, Sleep
  <2>6. QED
    BY <2>2, <2>3, <2>4, <2>5
(* What it has read of the file.                                           *)
<1>3. /\ half' \in [stamp : Stamps \cup {-1}, body : Stamps \cup {-1}]
      /\ \/ half'.stamp = half.stamp /\ (spc' = "down" => half.stamp = -1)
         \/ half'.stamp = -1
         \/ half'.stamp = features.stamp /\ spc' # "down"
  <2>1. half \in [stamp : Stamps \cup {-1}, body : Stamps \cup {-1}]
    BY <1>0 DEF TypeOK
  <2>2. CASE NoVector \/ ServerDies
    BY <2>2 DEF NoVector, ServerDies, NoBytes
  <2>3. CASE BeginRead
    <3>1. features \in FeatureVector /\ spc' = "reading"
      BY <1>0, <2>3 DEF BeginRead, TypeOK
    <3>2. half' = [stamp |-> features.stamp, body |-> -1]
          \/ half' = [stamp |-> -1, body |-> features.body]
      BY <2>3 DEF BeginRead, NoBytes
    <3>3. QED
      BY <3>1, <3>2 DEF FeatureVector
  <2>4. CASE ServerStarts
    BY <2>1, <2>4 DEF ServerStarts
  <2>5. CASE InferFails \/ Infer \/ OpenTmp \/ CloseTmp \/ Replace \/ WriteFails \/ Sleep
    BY <2>1, <2>5 DEF InferFails, Infer, OpenTmp, CloseTmp, Replace, WriteFails, Sleep
  <2>6. QED
    BY <2>2, <2>3, <2>4, <2>5
(* What it works on and puts into the files.                               *)
<1>4. /\ work' \in Sources /\ work' \in Made /\ predict' \in MLPrediction
      /\ predict'.size # "part" /\ predict'.of \in Made
      /\ predict.size = "full" => predict'.size = "full"
      /\ tmp' \in Sizes /\ (spc' = "replace" => tmp' = "full")
  <2>0. /\ work \in Sources /\ work \in Made /\ predict \in MLPrediction
        /\ predict.size # "part" /\ predict.of \in Made /\ tmp \in Sizes
        /\ spc = "replace" => tmp = "full"
    BY <1>0 DEF TypeOK, FilesInv
  <2>1. Synthetic \in Sources /\ Zeros \in Sources
    BY BridgeAssumption DEF Sources, FeatureVector, Zeros, Stamps
  <2>2. CASE NoVector \/ ServerDies
    BY <2>0, <2>1, <2>2 DEF NoVector, Nothing, ServerDies, Made
  <2>3. CASE Replace
    BY <2>0, <2>3 DEF Replace, MLPrediction, Sizes
  <2>4. CASE OpenTmp \/ CloseTmp
    BY <2>0, <2>4 DEF OpenTmp, CloseTmp, Sizes
  <2>5. CASE ServerStarts \/ BeginRead \/ InferFails \/ Infer \/ WriteFails \/ Sleep
    BY <2>0, <2>5 DEF ServerStarts, BeginRead, InferFails, Infer, WriteFails, Sleep
  <2>6. QED
    BY <2>2, <2>3, <2>4, <2>5
<1>5. TypeOK'
  <2>1. last' \in Stamps
    BY <1>0, <1>2, BridgeAssumption DEF TypeOK, Stamps
  <2>2. QED
    BY <1>0, <1>1, <1>2, <1>3, <1>4, <2>1 DEF TypeOK
<1>6. FilesInv' /\ VectorsInOrder'
  BY <1>0, <1>1, <1>4 DEF FilesInv, PredictionsWhole, Made, VectorsInOrder
<1>7. StampsInv'
  <2>1. (\A i \in DOMAIN used : used[i].fv.stamp <= vec /\ used[i].life <= servers)'
    BY <1>0, <1>1, <1>2 DEF StampsInv
  <2>2. NotOlder(features.stamp)' /\ NotOlder(half.stamp)'
    BY <1>0, <1>1, <1>3 DEF StampsInv, NotOlder
  <2>3. Remembered(features.stamp)' /\ Remembered(half.stamp)'
    <3>1. CASE spc # "down" /\ spc' # "down" /\ servers' = servers /\ last' = last
      BY <1>0, <1>1, <1>3, <3>1 DEF StampsInv, Remembered
    <3>2. CASE spc' = "down"
      BY <3>2 DEF Remembered
    <3>3. CASE servers' = servers + 1
      <4>1. \A i \in DOMAIN used : used[i].life # servers + 1
        BY <1>0, <1>2 DEF StampsInv
      <4>2. QED
        BY <1>1, <3>3, <4>1 DEF Remembered
    <3>4. QED
      BY <1>2, <3>1, <3>2, <3>3
  <2>4. /\ (features.stamp > 0 => half.stamp <= features.stamp)'
        /\ (half.stamp = 0 /\ features.stamp > 0 =>
               \A i \in DOMAIN used : used[i].fv.stamp < features.stamp)'
        /\ (epc = "writing" /\ rest = "stamp" =>
               /\ \A i \in DOMAIN used : used[i].fv.stamp < vec
               /\ half.stamp < vec /\ features.stamp < vec)'
    BY <1>0, <1>1, <1>3 DEF StampsInv
  <2>5. (spc \notin {"down"} => servers > 0)' /\ (spc = "down" => half.stamp = -1)'
    BY <1>0, <1>2, <1>3 DEF StampsInv
  <2>6. QED
    BY <2>1, <2>2, <2>3, <2>4, <2>5 DEF StampsInv
<1>8. QED
  BY <1>5, <1>6, <1>7 DEF IInv

-----------------------------------------------------------------------------
(* The step that takes a vector.                                           *)

LEMMA EndReadIInv ==
  ASSUME IInv, EndRead
  PROVE  IInv'
<1> DEFINE x == ReadSoFar.stamp
           e == [life |-> servers, fv |-> ReadSoFar]
<1>0. /\ TypeOK /\ FilesInv /\ StampsInv /\ VectorsInOrder
      /\ vec \in Nat /\ features.stamp \in Int /\ half.stamp \in Int
      /\ \A i \in DOMAIN used : used[i].fv.stamp \in Nat /\ used[i].life \in Nat
  BY StampTypes DEF IInv
<1>1. /\ UNCHANGED <<epc, engines, vec, rest, seen, servers, features, predict, tmp>>
      /\ spc = "reading" /\ spc' = "infer" /\ half' = NoBytes /\ half'.stamp = -1
  BY DEF EndRead, Nothing, engineVars, NoBytes
<1>2. features \in FeatureVector /\ servers \in 1..MaxServers
  <2>1. features # NoBytes
    BY DEF EndRead
  <2>2. servers \in 0..MaxServers /\ servers > 0
    BY <1>0, <1>1 DEF TypeOK, StampsInv
  <2>3. QED
    BY <1>0, <2>1, <2>2, BridgeAssumption DEF TypeOK
<1>3. ReadSoFar \in FeatureVector /\ x \in Nat
  <2>1. half \in [stamp : Stamps \cup {-1}, body : Stamps \cup {-1}]
    BY <1>0 DEF TypeOK
  <2>2. /\ half.stamp \in Stamps \/ half.stamp = -1
        /\ half.body \in Stamps \/ half.body = -1
        /\ features.stamp \in Stamps /\ features.body \in Stamps
    BY <1>2, <2>1 DEF FeatureVector
  <2>3. ReadSoFar.stamp \in Stamps /\ ReadSoFar.body \in Stamps
    BY <2>2 DEF ReadSoFar
  <2>4. ReadSoFar \in FeatureVector
    BY <2>3 DEF ReadSoFar, FeatureVector
  <2>5. QED
    BY <2>3, <2>4, StampsAreNat
<1>4. used \in Seq([life : 1..MaxServers, fv : FeatureVector])
  BY <1>0 DEF TypeOK
<1>5. CASE x = last
  <2>1. /\ UNCHANGED <<last, used>> /\ work' = Synthetic
    BY <1>5 DEF EndRead, Nothing
  <2>2. TypeOK'
    BY <1>0, <1>1, <2>1, BridgeAssumption DEF TypeOK, NoBytes, Sources
  <2>3. FilesInv' /\ VectorsInOrder'
    BY <1>0, <1>1, <2>1 DEF FilesInv, PredictionsWhole, Made, VectorsInOrder
  <2>4. StampsInv'
    BY <1>0, <1>1, <2>1 DEF StampsInv, NotOlder, Remembered
  <2>5. QED
    BY <2>2, <2>3, <2>4 DEF IInv
<1>6. CASE x # last
  <2>1. last' = x /\ work' = ReadSoFar /\ used' = Append(used, e)
    BY <1>6 DEF EndRead
  <2>2. /\ e \in [life : 1..MaxServers, fv : FeatureVector]
        /\ e.life = servers /\ e.fv = ReadSoFar /\ e.fv.stamp = x
    BY <1>2, <1>3
  <2> HIDE DEF e, x
  <2>3. /\ used' \in Seq([life : 1..MaxServers, fv : FeatureVector])
        /\ DOMAIN used' = DOMAIN used \cup {Len(used) + 1}
        /\ DOMAIN used = 1..Len(used) /\ Len(used) \in Nat
        /\ used'[Len(used) + 1] = e
        /\ \A i \in DOMAIN used : used'[i] = used[i]
    BY <1>4, <2>1, <2>2
  <2>4. /\ x <= vec
        /\ x > 0 => \A i \in DOMAIN used :
                      used[i].fv.stamp < x \/ (used[i].fv.stamp = x /\ used[i].life < servers)
        /\ features.stamp > 0 => x <= features.stamp
    <3>1. x = half.stamp \/ x = features.stamp
      BY DEF x, ReadSoFar
    <3>2. NotOlder(x) /\ Remembered(x) /\ (features.stamp > 0 => x <= features.stamp)
      BY <1>0, <3>1 DEF StampsInv
    <3>3. \A i \in DOMAIN used : used[i].life <= servers
      BY <1>0 DEF StampsInv
    <3>4. \A i \in DOMAIN used :
            x > 0 /\ used[i].fv.stamp = x => used[i].life # servers
      BY <1>1, <1>6, <3>2 DEF Remembered
    <3>5. x <= vec /\ (x > 0 => \A i \in DOMAIN used : used[i].fv.stamp <= x)
      BY <1>0, <1>3, <3>2 DEF NotOlder, x
    <3>6. QED
      BY <1>0, <1>2, <1>3, <3>2, <3>3, <3>4, <3>5 DEF x
  <2>5. TypeOK'
    <3>1. last' \in Stamps
      BY <1>3, <2>1 DEF FeatureVector, x
    <3>2. half' \in [stamp : Stamps \cup {-1}, body : Stamps \cup {-1}]
      BY <1>1 DEF NoBytes
    <3>3. QED
      BY <1>0, <1>1, <1>3, <2>1, <2>3, <3>1, <3>2 DEF TypeOK, Sources
  <2>6. FilesInv'
    <3>1. \A m \in Made : m \in Made'
      BY <2>3 DEF Made
    <3>2. work' \in Made'
      BY <2>1, <2>2, <2>3 DEF Made
    <3>3. seen'.of \in Made'
      BY <1>0, <1>1, <3>1 DEF FilesInv, PredictionsWhole, Made
    <3>4. QED
      BY <1>0, <1>1, <3>1, <3>2, <3>3 DEF FilesInv, PredictionsWhole, Made
  <2>7. VectorsInOrder'
    <3>1. SUFFICES ASSUME NEW i \in DOMAIN used', NEW j \in DOMAIN used', i < j,
                          used'[i].fv.stamp > 0, used'[j].fv.stamp > 0
                   PROVE  \/ used'[i].fv.stamp < used'[j].fv.stamp
                          \/ /\ used'[i].fv.stamp = used'[j].fv.stamp
                             /\ used'[i].life < used'[j].life
      BY DEF VectorsInOrder
    <3>2. i \in DOMAIN used
      BY <2>3, <3>1
    <3>3. CASE j \in DOMAIN used
      <4>1. used'[j] = used[j] /\ used'[i] = used[i]
        BY <2>3, <3>2, <3>3
      <4>2. QED
        BY <1>0, <3>1, <3>2, <3>3, <4>1 DEF VectorsInOrder
    <3>4. CASE j = Len(used) + 1
      <4>1. /\ used'[j].fv.stamp = x /\ used'[j].life = servers
            /\ used'[i] = used[i]
        BY <2>2, <2>3, <3>2, <3>4
      <4>2. QED
        BY <2>4, <3>1, <3>2, <4>1
    <3>5. QED
      BY <2>3, <3>3, <3>4
  <2>8. StampsInv'
    <3>1. \A i \in DOMAIN used' : used'[i].fv.stamp <= vec' /\ used'[i].life <= servers'
      BY <1>0, <1>1, <1>2, <2>2, <2>3, <2>4 DEF StampsInv
    <3>2. NotOlder(features.stamp)' /\ NotOlder(half.stamp)'
      <4>1. NotOlder(half.stamp)'
        BY <1>1 DEF NotOlder
      <4>2. features.stamp \in Nat /\ features.stamp <= vec
        BY <1>0, <1>2, StampsAreNat DEF FeatureVector, StampsInv, NotOlder
      <4>3. features.stamp > 0 => \A i \in DOMAIN used : used[i].fv.stamp <= features.stamp
        BY <1>0 DEF StampsInv, NotOlder
      <4>4. features.stamp > 0 =>
              \A i \in DOMAIN used' : used'[i].fv.stamp <= features.stamp
        BY <2>2, <2>3, <2>4, <4>3
      <4>5. NotOlder(features.stamp)'
        BY <1>1, <4>2, <4>4 DEF NotOlder
      <4>6. QED
        BY <4>1, <4>5
    <3>3. Remembered(features.stamp)' /\ Remembered(half.stamp)'
      <4>1. ASSUME NEW i \in DOMAIN used, features.stamp > 0,
                   used[i].fv.stamp = features.stamp, used[i].life = servers
            PROVE  x = features.stamp
        <5>1. x = half.stamp \/ x = features.stamp
          BY DEF x, ReadSoFar
        <5>2. x = 0 => half.stamp # 0
          BY <1>0, <4>1 DEF StampsInv
        <5>3. x > 0 => used[i].fv.stamp <= x
          BY <1>0, <1>3, <2>4 DEF x
        <5>4. QED
          BY <1>0, <1>3, <2>4, <4>1, <5>1, <5>2, <5>3 DEF x
      <4>2. QED
        BY <1>1, <2>1, <2>2, <2>3, <4>1 DEF Remembered
    <3>4. epc' = "writing" /\ rest' = "stamp" =>
            /\ \A i \in DOMAIN used' : used'[i].fv.stamp < vec'
            /\ half'.stamp < vec' /\ features'.stamp < vec'
      <4>1. x = half.stamp \/ x = features.stamp
        BY DEF x, ReadSoFar
      <4>2. QED
        BY <1>0, <1>1, <2>2, <2>3, <4>1 DEF StampsInv
    <3>5. QED
      BY <1>0, <1>1, <1>2, <3>1, <3>2, <3>3, <3>4 DEF StampsInv
  <2>9. QED
    BY <2>5, <2>6, <2>7, <2>8 DEF IInv
<1>7. QED
  BY <1>5, <1>6

-----------------------------------------------------------------------------

LEMMA NextIInv == IInv /\ [Next]_vars => IInv'
<1> SUFFICES ASSUME IInv, [Next]_vars PROVE IInv'
  OBVIOUS
<1>1. CASE EngineStarts \/ CutPredict \/ SizePredict \/ ReadPrediction \/ EngineDies
  BY <1>1, EngineQuiet
<1>2. CASE CutFeatures \/ SizeFeatures \/ BeginWrite \/ EndWrite
  BY <1>2, FeaturesIInv
<1>3. CASE \/ ServerStarts \/ NoVector \/ BeginRead \/ InferFails \/ Infer \/ OpenTmp
           \/ CloseTmp \/ Replace \/ WriteFails \/ Sleep \/ ServerDies
  BY <1>3, ServerQuiet
<1>4. CASE EndRead
  BY <1>4, EndReadIInv
<1>5. CASE UNCHANGED vars
  BY <1>5 DEF IInv, TypeOK, FilesInv, Made, PredictionsWhole, StampsInv, NotOlder,
         Remembered, VectorsInOrder, vars, engineVars, serverVars
<1>6. QED
  BY <1>1, <1>2, <1>3, <1>4, <1>5 DEF Next, Engine, Server

LEMMA BridgeInvariant == Spec => []IInv
  BY InitIInv, NextIInv, PTL DEF Spec

(* The files, the processes and what each has read stay well formed, at    *)
(* whatever point either process dies or is started.                       *)
THEOREM TypeCorrect == Spec => []TypeOK
<1>1. IInv => TypeOK
  BY DEF IInv
<1>2. QED
  BY <1>1, BridgeInvariant, PTL

(* The engine never sees a part of a prediction, nor one made from a       *)
(* vector the server has not taken.                                        *)
THEOREM PredictionsAreWhole == Spec => []PredictionsWhole
<1>1. IInv => PredictionsWhole
  BY DEF IInv, FilesInv
<1>2. QED
  BY <1>1, BridgeInvariant, PTL

(* A server takes each vector once and none out of order, for any number   *)
(* of restarts and although reads and writes overlap.                      *)
THEOREM VectorsAreInOrder == Spec => []VectorsInOrder
<1>1. IInv => VectorsInOrder
  BY DEF IInv
<1>2. QED
  BY <1>1, BridgeInvariant, PTL

-----------------------------------------------------------------------------
(* The board.                                                              *)

Vectors == [i \in DOMAIN used |-> used[i].fv]

(* While the server works on a prediction, it is of the last vector it has *)
(* taken, or of one that it made up.                                       *)
WorkInv ==
  spc \in {"infer", "open", "close", "replace"} =>
    work = Synthetic \/ (used # <<>> /\ work = used[Len(used)].fv)

(* The vectors taken, one for each record of the history.                  *)
LEMMA VectorsAre ==
  ASSUME IInv
  PROVE  /\ Vectors \in Seq(FeatureVector) /\ Len(Vectors) = Len(used)
         /\ Len(used) \in Nat /\ DOMAIN used = 1..Len(used)
         /\ \A i \in 1..Len(used) : Vectors[i] = used[i].fv
         /\ used # <<>> => Vectors # <<>> /\ Vectors[Len(Vectors)] = used[Len(used)].fv
<1> DEFINE E == [life : 1..MaxServers, fv : FeatureVector]
<1>1. used \in Seq(E)
  BY DEF IInv, TypeOK
<1>2. /\ Len(used) \in Nat /\ DOMAIN used = 1..Len(used)
      /\ \A i \in 1..Len(used) : used[i] \in E
  BY <1>1, LenProperties, ElementOfSeq
<1>3. Vectors \in [1..Len(used) -> FeatureVector] /\ \A i \in 1..Len(used) : Vectors[i] = used[i].fv
  BY <1>2 DEF Vectors
<1>4. Vectors \in Seq(FeatureVector)
  BY <1>2, <1>3, SeqDef
<1>5. Len(Vectors) = Len(used)
  BY <1>2, <1>3, <1>4, LenProperties
<1>6. used # <<>> => Len(used) \in 1..Len(used) /\ Vectors # <<>>
  BY <1>1, <1>2, <1>4, <1>5, EmptySeq
<1>7. QED
  BY <1>2, <1>3, <1>4, <1>5, <1>6

(* The vectors taken, when one is added.                                   *)
LEMMA TakenAppend ==
  ASSUME IInv, NEW e \in [life : 1..MaxServers, fv : FeatureVector],
         used' = Append(used, e)
  PROVE  /\ used' # <<>> /\ used'[Len(used')] = e
         /\ Vectors' = Append(Vectors, e.fv)
<1> DEFINE E == [life : 1..MaxServers, fv : FeatureVector]
<1>1. used \in Seq(E) /\ e \in E
  BY DEF IInv, TypeOK
<1>2. /\ Len(used) \in Nat /\ DOMAIN used = 1..Len(used)
      /\ \A i \in 1..Len(used) : used[i] \in E
  BY <1>1, LenProperties, ElementOfSeq
<1> HIDE DEF E
<1>3. /\ used' \in Seq(E) /\ Len(used') = Len(used) + 1
      /\ \A i \in 1..Len(used) : used'[i] = used[i]
      /\ used'[Len(used) + 1] = e
  BY <1>1, AppendProperties
<1>4. DOMAIN used' = 1..(Len(used) + 1)
  BY <1>2, <1>3, LenProperties
<1>5. e.fv \in FeatureVector
  BY <1>1 DEF E
<1>6. Vectors \in Seq(FeatureVector) /\ Len(Vectors) = Len(used)
      /\ \A i \in 1..Len(used) : Vectors[i] = used[i].fv
  BY VectorsAre
<1>7. /\ Append(Vectors, e.fv) \in Seq(FeatureVector)
      /\ Len(Append(Vectors, e.fv)) = Len(used) + 1
      /\ \A i \in 1..Len(used) : Append(Vectors, e.fv)[i] = Vectors[i]
      /\ Append(Vectors, e.fv)[Len(used) + 1] = e.fv
  BY <1>5, <1>6, AppendProperties
<1>8. Append(Vectors, e.fv) = [i \in 1..(Len(used) + 1) |-> Append(Vectors, e.fv)[i]]
  <2>1. Append(Vectors, e.fv) \in [1..(Len(used) + 1) -> FeatureVector]
    BY <1>7, LenProperties
  <2>2. QED
    BY <2>1
<1>9. \A i \in 1..(Len(used) + 1) : Append(Vectors, e.fv)[i] = used'[i].fv
  <2> SUFFICES ASSUME NEW i \in 1..(Len(used) + 1)
               PROVE  Append(Vectors, e.fv)[i] = used'[i].fv
    OBVIOUS
  <2>1. i \in 1..Len(used) \/ i = Len(used) + 1
    BY <1>2
  <2>2. QED
    BY <1>3, <1>6, <1>7, <2>1
<1>10. Vectors' = Append(Vectors, e.fv)
  BY <1>4, <1>8, <1>9 DEF Vectors
<1>11. used' # <<>>
  BY <1>2, <1>3, EmptySeq
<1>12. QED
  BY <1>3, <1>10, <1>11

(* What a read that ends has is a vector, and its server has a number.     *)
LEMMA ReadIsVector ==
  ASSUME IInv, EndRead
  PROVE  /\ ReadSoFar \in FeatureVector
         /\ [life |-> servers, fv |-> ReadSoFar] \in [life : 1..MaxServers, fv : FeatureVector]
<1>1. ReadSoFar \in FeatureVector
  BY DEF EndRead, ReadSoFar, IInv, TypeOK, FeatureVector, Stamps, NoBytes
<1>2. servers \in 1..MaxServers
  BY BridgeAssumption DEF EndRead, IInv, TypeOK, StampsInv
<1>3. QED
  BY <1>1, <1>2

(* A read that yields a vector takes it, and nothing else does.            *)
LEMMA TakingIsReading ==
  ASSUME IInv, [Next]_vars
  PROVE  \/ UNCHANGED used
         \/ /\ EndRead /\ used' # <<>> /\ work' = used'[Len(used')].fv
            /\ work' \in FeatureVector /\ Vectors' = Append(Vectors, work')
<1>1. CASE EndRead /\ ReadSoFar.stamp # last
  <2> DEFINE e == [life |-> servers, fv |-> ReadSoFar]
  <2>1. used' = Append(used, e) /\ work' = ReadSoFar
    BY <1>1 DEF EndRead
  <2>2. /\ ReadSoFar \in FeatureVector /\ e.fv = ReadSoFar
        /\ e \in [life : 1..MaxServers, fv : FeatureVector]
    BY <1>1, ReadIsVector
  <2> HIDE DEF e
  <2>3. used' # <<>> /\ used'[Len(used')] = e /\ Vectors' = Append(Vectors, e.fv)
    BY <2>1, <2>2, TakenAppend
  <2>4. QED
    BY <1>1, <2>1, <2>2, <2>3
<1>2. CASE EndRead /\ ReadSoFar.stamp = last
  BY <1>2 DEF EndRead, Nothing
<1>3. CASE ~EndRead
  BY <1>3
     DEF Next, Engine, Server, EngineStarts, CutFeatures, SizeFeatures, CutPredict, SizePredict,
         BeginWrite, EndWrite, ReadPrediction, EngineDies, ServerStarts, NoVector, Nothing,
         BeginRead, InferFails, Infer, OpenTmp, CloseTmp, Replace, WriteFails, Sleep,
         ServerDies, vars, serverVars
<1>4. QED
  BY <1>1, <1>2, <1>3

(* The server works on what it took last.                                  *)
LEMMA WorkStep ==
  ASSUME IInv, WorkInv, [Next]_vars
  PROVE  WorkInv'
<1>1. CASE /\ EndRead /\ used' # <<>> /\ work' = used'[Len(used')].fv
  BY <1>1 DEF WorkInv
<1>2. CASE NoVector \/ (EndRead /\ UNCHANGED used)
  <2>1. CASE work' = Synthetic
    BY <2>1 DEF WorkInv
  <2>2. CASE EndRead /\ UNCHANGED used /\ work' # Synthetic
    <3>1. used' = Append(used, [life |-> servers, fv |-> ReadSoFar])
      BY <2>2 DEF EndRead, Nothing
    <3>2. Len(used') = Len(used) + 1 /\ Len(used) \in Nat
      BY <2>2, <3>1, ReadIsVector, AppendProperties, VectorsAre DEF IInv, TypeOK
    <3>3. QED
      BY <2>2, <3>2
  <2>3. QED
    BY <1>2, <2>1, <2>2 DEF NoVector, Nothing
<1>3. CASE ~EndRead /\ ~NoVector
  <2>1. UNCHANGED used
    BY <1>3, TakingIsReading
  <2>2. \/ spc' \in {"down", "poll", "reading", "sleep"}
        \/ UNCHANGED work /\ spc \in {"infer", "open", "close", "replace"}
    BY <1>3
       DEF Next, Engine, Server, EngineStarts, CutFeatures, SizeFeatures, CutPredict,
           SizePredict, BeginWrite, EndWrite, ReadPrediction, EngineDies, ServerStarts,
           BeginRead, InferFails, Infer, OpenTmp, CloseTmp, Replace, WriteFails, Sleep,
           ServerDies, vars, serverVars, IInv, TypeOK
  <2>3. QED
    BY <2>1, <2>2 DEF WorkInv
<1>4. QED
  BY <1>1, <1>2, <1>3, TakingIsReading

LEMMA WorkInvariant == Spec => []WorkInv
<1>1. Init => WorkInv
  BY DEF Init, WorkInv
<1>2. QED
  BY <1>1, WorkStep, BridgeInvariant, PTL DEF Spec

(* What is put up is what the server has worked on.                        *)
LEMMA FoundChanges ==
  ASSUME IInv, [Next]_vars
  PROVE  \/ Found(predict)' = Found(predict)
         \/ Found(predict)' = Zeros /\ CutPredict
         \/ Found(predict)' = work /\ Replace
<1>1. CASE CutPredict
  BY <1>1 DEF CutPredict, Found, IInv, TypeOK, MLPrediction
<1>2. CASE SizePredict
  BY <1>2 DEF SizePredict, Found, NoPrediction
<1>3. CASE Replace
  BY <1>3 DEF Replace, Found, IInv, FilesInv
<1>4. CASE UNCHANGED predict
  BY <1>4 DEF Found
<1>5. QED
  BY <1>1, <1>2, <1>3, <1>4
     DEF Next, Engine, Server, EngineStarts, CutFeatures, SizeFeatures, BeginWrite, EndWrite,
         ReadPrediction, EngineDies, ServerStarts, NoVector, BeginRead, EndRead, InferFails,
         Infer, OpenTmp, CloseTmp, WriteFails, Sleep, ServerDies, vars

(* What the engine sees is what is on the board, or nothing.               *)
LEMMA SeenChanges ==
  ASSUME IInv, [Next]_vars
  PROVE  \/ UNCHANGED seen
         \/ ReadPrediction /\ seen' = predict /\ predict.size = "full"
         \/ EngineDies /\ seen' = NoPrediction
BY DEF Next, Engine, Server, EngineStarts, CutFeatures, SizeFeatures, CutPredict, SizePredict,
       BeginWrite, EndWrite, ReadPrediction, EngineDies, ServerStarts, NoVector, BeginRead,
       EndRead, InferFails, Infer, OpenTmp, CloseTmp, Replace, WriteFails, Sleep, ServerDies,
       vars, engineVars, IInv, FilesInv

(* Every step is one of the board's, or changes nothing of it.             *)
LEMMA BoardStep ==
  ASSUME IInv, WorkInv, [Next]_vars
  PROVE  [Board!Next]_(Board!vars)
<1>1. CASE EndRead /\ used' # used
  <2>1. work' \in FeatureVector /\ Vectors' = Append(Vectors, work')
    BY <1>1, TakingIsReading
  <2>2. UNCHANGED <<predict, seen>>
    BY <1>1 DEF EndRead, engineVars
  <2>3. Board!Take
    BY <2>1, <2>2 DEF Board!Take, Vectors, Found
  <2>4. QED
    BY <2>3 DEF Board!Next
<1>2. CASE CutPredict
  <2>1. Board!Wipe
    BY <1>2 DEF CutPredict, serverVars, Found, Board!Wipe, IInv, TypeOK, MLPrediction
  <2>2. QED
    BY <2>1 DEF Board!Next
<1>3. CASE Replace
  <2>1. Found(predict)' = work /\ UNCHANGED <<used, seen>>
    BY <1>3 DEF Replace, Found, engineVars, IInv, FilesInv
  <2>2. work = Synthetic \/ (used # <<>> /\ work = used[Len(used)].fv)
    BY <1>3 DEF Replace, WorkInv
  <2>3. work = Synthetic \/ (Vectors # <<>> /\ work = Vectors[Len(Vectors)])
    BY <2>2, VectorsAre
  <2>4. Board!PutUp
    BY <2>1, <2>3 DEF Board!PutUp, Vectors, Found
  <2>5. QED
    BY <2>4 DEF Board!Next
<1>4. CASE ReadPrediction
  <2>1. Board!Look
    BY <1>4 DEF ReadPrediction, serverVars, Found, Board!Look
  <2>2. QED
    BY <2>1 DEF Board!Next
<1>5. CASE EngineDies
  <2>1. Board!Forget
    BY <1>5 DEF EngineDies, serverVars, Found, NoPrediction, Board!Forget
  <2>2. QED
    BY <2>1 DEF Board!Next
<1>6. CASE /\ UNCHANGED used /\ ~CutPredict /\ ~Replace /\ ~ReadPrediction /\ ~EngineDies
  <2>1. UNCHANGED <<used, seen, Found(predict)>>
    BY <1>6, FoundChanges, SeenChanges
  <2>2. QED
    BY <2>1 DEF Board!vars, Found
<1>7. QED
  BY <1>1, <1>2, <1>3, <1>4, <1>5, <1>6, TakingIsReading

(* The two processes and their files implement the board, at whatever      *)
(* points either process dies.                                             *)
THEOREM FilesAreBoard == Spec => ImplementsBoard
<1>1. Init => Board!Init
  BY DEF Init, Board!Init, Found, NoPrediction
<1>2. IInv /\ WorkInv /\ [Next]_vars => [Board!Next]_(Board!vars)
  BY BoardStep
<1>3. QED
  BY <1>1, <1>2, BridgeInvariant, WorkInvariant, PTL DEF Spec, ImplementsBoard, Board!Spec

-----------------------------------------------------------------------------
(* Predictions do not go back.                                             *)

(* What is on the board is of no older a vector than what the engine saw.  *)
Ahead == predict.of.stamp > 0 /\ seen.of.stamp > 0 => seen.of.stamp <= predict.of.stamp

(* Vectors with a stamp are taken in the order of their stamps.            *)
LEMMA LastIsNewest ==
  ASSUME IInv, used # <<>>, NEW i \in DOMAIN used,
         used[i].fv.stamp > 0, used[Len(used)].fv.stamp > 0
  PROVE  used[i].fv.stamp <= used[Len(used)].fv.stamp
<1>1. /\ Len(used) \in Nat /\ DOMAIN used = 1..Len(used) /\ Len(used) \in DOMAIN used
      /\ \A k \in DOMAIN used : used[k].fv.stamp \in Nat
  <2>1. Len(used) \in Nat /\ DOMAIN used = 1..Len(used)
    BY VectorsAre
  <2>2. \A k \in DOMAIN used : used[k].fv.stamp \in Nat
    BY StampTypes DEF IInv
  <2>3. Len(used) # 0
    BY EmptySeq DEF IInv, TypeOK
  <2>4. QED
    BY <2>1, <2>2, <2>3
<1>2. CASE i < Len(used)
  BY <1>1, <1>2 DEF IInv, VectorsInOrder
<1>3. CASE i = Len(used)
  BY <1>1, <1>3
<1>4. QED
  BY <1>1, <1>2, <1>3

(* A prediction that is put up is of the last vector taken, and what the   *)
(* engine saw is of one taken before.                                      *)
LEMMA AheadStep ==
  ASSUME IInv, WorkInv, Ahead, [Next]_vars
  PROVE  Ahead'
<1>1. CASE Replace
  <2>1. predict'.of = work /\ UNCHANGED <<seen, used>>
    BY <1>1 DEF Replace, engineVars
  <2>2. SUFFICES ASSUME work.stamp > 0, seen.of.stamp > 0
                 PROVE  seen.of.stamp <= work.stamp
    BY <2>1 DEF Ahead
  <2>3. used # <<>> /\ work = used[Len(used)].fv
    BY <1>1, <2>2 DEF Replace, WorkInv, Synthetic
  <2>4. PICK i \in DOMAIN used : seen.of = used[i].fv
    BY <2>2 DEF IInv, FilesInv, PredictionsWhole, Zeros, Synthetic
  <2>5. QED
    BY <2>2, <2>3, <2>4, LastIsNewest
<1>2. CASE CutPredict \/ SizePredict
  <2>1. UNCHANGED seen /\ (predict'.of = predict.of \/ predict'.of.stamp = 0)
    BY <1>2 DEF CutPredict, SizePredict, NoPrediction, Zeros, IInv, TypeOK, MLPrediction
  <2>2. QED
    BY <2>1 DEF Ahead
<1>3. CASE UNCHANGED predict
  <2>1. CASE seen' = predict
    <3>1. predict.of.stamp \in Int
      BY DEF IInv, TypeOK, MLPrediction, Sources, FeatureVector, Stamps, Synthetic
    <3>2. QED
      BY <1>3, <2>1, <3>1 DEF Ahead
  <2>2. CASE UNCHANGED seen \/ seen' = NoPrediction
    BY <1>3, <2>2 DEF Ahead, NoPrediction, Zeros
  <2>3. QED
    BY <2>1, <2>2, SeenChanges
<1>4. QED
  BY <1>1, <1>2, <1>3
     DEF Next, Engine, Server, EngineStarts, CutFeatures, SizeFeatures, BeginWrite, EndWrite,
         ReadPrediction, EngineDies, ServerStarts, NoVector, BeginRead, EndRead, InferFails,
         Infer, OpenTmp, CloseTmp, WriteFails, Sleep, ServerDies, vars

(* The engine never goes back to a prediction of an older vector, though   *)
(* each file is replaced without a look at what it replaces.               *)
THEOREM PredictionsDoNotGoBack == Spec => PredictionsAdvance
<1>1. Init => Ahead
  BY DEF Init, Ahead, Zeros
<1>2. IInv /\ WorkInv /\ Ahead /\ [Next]_vars => Ahead'
  BY AheadStep
<1>3. ASSUME IInv, Ahead, [Next]_vars
      PROVE  [seen.of.stamp > 0 /\ seen'.of.stamp > 0 => seen.of.stamp <= seen'.of.stamp]_vars
  <2>1. seen.of.stamp \in Int
    BY <1>3 DEF IInv, TypeOK, MLPrediction, Sources, FeatureVector, Stamps, Synthetic
  <2>2. UNCHANGED seen \/ seen' = predict \/ seen' = NoPrediction
    BY <1>3, SeenChanges
  <2>3. QED
    BY <1>3, <2>1, <2>2 DEF Ahead, NoPrediction, Zeros
<1>4. QED
  BY <1>1, <1>2, <1>3, BridgeInvariant, WorkInvariant, PTL DEF Spec, PredictionsAdvance
=============================================================================
