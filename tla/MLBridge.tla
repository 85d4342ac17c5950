------------------------------ MODULE MLBridge ------------------------------
(***************************************************************************)
(* The engine (main.cpp) and the inference server (ml_server.py) are two   *)
(* processes that talk through two files.  The engine copies each feature  *)
(* vector into a mapped file, in place; the server polls that file, works  *)
(* out a prediction and puts it in place by renaming a finished file; the  *)
(* engine reads the prediction at every tick.  Either process may die and  *)
(* be started again while the other goes on; what it had in memory is then *)
(* gone.                                                                   *)
(*                                                                         *)
(* nowNs is taken to give each vector a later stamp than the one before:   *)
(* the stamps are 1, 2, ...                                                *)
(***************************************************************************)
EXTENDS Integers, Sequences

CONSTANTS
  MaxVectors,  (* vectors the engine writes; a bound                       *)
  MaxEngines,  (* lives of the engine; a bound                             *)
  MaxServers   (* lives of the server; a bound                             *)

ASSUME BridgeAssumption ==
  MaxVectors \in Nat /\ MaxEngines \in Nat \ {0} /\ MaxServers \in Nat \ {0}

Stamps == 0..MaxVectors

(* Of a vector, its stamp and which vector the rest belongs to: a reader   *)
(* may see the two halves of different vectors.                            *)
FeatureVector == [stamp : Stamps, body : Stamps]
Zeros         == [stamp |-> 0, body |-> 0]

NoBytes   == [stamp |-> -1, body |-> -1]  (* an empty file                  *)
Synthetic == [stamp |-> -2, body |-> -2]  (* what gen.generate() made up    *)

Sources == FeatureVector \cup {Synthetic}

(* A prediction file: how much of it is there, and what it was made from.  *)
Sizes        == {"empty", "part", "full"}
MLPrediction == [size : Sizes, of : Sources]
NoPrediction == [size |-> "full", of |-> Zeros]

VARIABLES
  epc,         (* where the engine is                                      *)
  engines,     (* its lives so far                                         *)
  vec,         (* the stamp of the last vector                             *)
  rest,        (* the half of it that is still to be copied                *)
  seen,        (* the prediction read at the last tick                     *)
  spc,         (* where the server is                                      *)
  servers,     (* its lives so far                                         *)
  last,        (* _last_timestamp                                          *)
  half,        (* what a read has of the file so far                       *)
  work,        (* fv                                                       *)
  used,        (* history: the vectors taken, each with the server's life  *)
  features,    (* MMAP_FEATURE_PATH                                        *)
  predict,     (* MMAP_PREDICT_PATH                                        *)
  tmp          (* how much there is of MMAP_PREDICT_PATH + ".tmp", made    *)
               (* from work                                                *)

engineVars == <<epc, engines, vec, rest, seen>>
serverVars == <<spc, servers, last, half, work, used>>
vars == <<engineVars, serverVars, features, predict, tmp>>

(* The files may have been left by earlier processes; none was.            *)
Init ==
  /\ epc = "down" /\ engines = 0 /\ vec = 0 /\ rest = "stamp" /\ seen = NoPrediction
  /\ spc = "down" /\ servers = 0 /\ last = 0 /\ half = NoBytes /\ work = Zeros
  /\ used = <<>>
  /\ features = NoBytes /\ tmp = "empty"
  /\ predict = [size |-> "empty", of |-> Zeros]

(***************************************************************************)
(* The engine.                                                             *)
(***************************************************************************)

EngineStarts ==
  /\ epc = "down" /\ engines < MaxEngines
  /\ engines' = engines + 1 /\ epc' = "cutFeatures"
  /\ UNCHANGED <<vec, rest, seen, serverVars, features, predict, tmp>>

(* initMmap, for each file: O_TRUNC, then ftruncate to its size.           *)
CutFeatures ==
  /\ epc = "cutFeatures"
  /\ epc' = "sizeFeatures" /\ features' = NoBytes
  /\ UNCHANGED <<engines, vec, rest, seen, serverVars, predict, tmp>>

SizeFeatures ==
  /\ epc = "sizeFeatures"
  /\ epc' = "cutPredict" /\ features' = Zeros
  /\ UNCHANGED <<engines, vec, rest, seen, serverVars, predict, tmp>>

CutPredict ==
  /\ epc = "cutPredict"
  /\ epc' = "sizePredict" /\ predict' = [predict EXCEPT !.size = "empty"]
  /\ UNCHANGED <<engines, vec, rest, seen, serverVars, features, tmp>>

(* The file may have been replaced in between: then the old one is sized.  *)
SizePredict ==
  /\ epc = "sizePredict"
  /\ epc' = "tick" /\ predict' = IF predict.size = "empty" THEN NoPrediction ELSE predict
  /\ UNCHANGED <<engines, vec, rest, seen, serverVars, features, tmp>>

(* processTick, writeToMmap: the memcpy into the mapped file is not one    *)
(* step for a reader, and its halves may become visible in either order.   *)
BeginWrite ==
  /\ epc = "tick" /\ vec < MaxVectors
  /\ vec' = vec + 1
  /\ \/ features' = [features EXCEPT !.stamp = vec + 1] /\ rest' = "body"
     \/ features' = [features EXCEPT !.body = vec + 1] /\ rest' = "stamp"
  /\ epc' = "writing"
  /\ UNCHANGED <<engines, seen, serverVars, predict, tmp>>

EndWrite ==
  /\ epc = "writing"
  /\ features' = IF rest = "stamp" THEN [features EXCEPT !.stamp = vec]
                                    ELSE [features EXCEPT !.body = vec]
  /\ epc' = "read" /\ rest' = "stamp"
  /\ UNCHANGED <<engines, vec, seen, serverVars, predict, tmp>>

(* readFromMmap: the file that has the name when it is opened, which       *)
(* nobody writes to any more.                                              *)
ReadPrediction ==
  /\ epc = "read"
  /\ seen' = predict
  /\ epc' = "tick"
  /\ UNCHANGED <<engines, vec, rest, serverVars, features, predict, tmp>>

EngineDies ==
  /\ epc # "down"
  /\ epc' = "down" /\ rest' = "stamp" /\ seen' = NoPrediction
  /\ UNCHANGED <<engines, vec, serverVars, features, predict, tmp>>

(***************************************************************************)
(* The server.                                                             *)
(***************************************************************************)

ServerStarts ==
  /\ spc = "down" /\ servers < MaxServers
  /\ servers' = servers + 1 /\ spc' = "poll"
  /\ UNCHANGED <<engineVars, last, half, work, used, features, predict, tmp>>

(* read_latest returns None: a synthetic vector is used.                   *)
Nothing == spc' = "infer" /\ work' = Synthetic /\ UNCHANGED <<last, used>>

(* The file is too short, or not there yet.                                *)
NoVector ==
  /\ spc \in {"poll", "reading"} /\ features = NoBytes
  /\ Nothing /\ half' = NoBytes
  /\ UNCHANGED <<engineVars, servers, features, predict, tmp>>

BeginRead ==
  /\ spc = "poll" /\ features # NoBytes
  /\ half' \in {[NoBytes EXCEPT !.stamp = features.stamp],
                [NoBytes EXCEPT !.body = features.body]}
  /\ spc' = "reading"
  /\ UNCHANGED <<engineVars, servers, last, work, used, features, predict, tmp>>

ReadSoFar ==
  [stamp |-> IF half.stamp = -1 THEN features.stamp ELSE half.stamp,
   body  |-> IF half.body = -1 THEN features.body ELSE half.body]

(* Faulty: what was read is parsed whatever its length.                    *)
EndReadShort ==
  /\ spc = "reading"
  /\ IF ReadSoFar.stamp = last THEN Nothing
     ELSE /\ last' = ReadSoFar.stamp /\ work' = ReadSoFar
          /\ used' = Append(used, [life |-> servers, fv |-> ReadSoFar])
          /\ spc' = "infer"
  /\ half' = NoBytes
  /\ UNCHANGED <<engineVars, servers, features, predict, tmp>>

(* Faulty: _last_timestamp is not moved on.                                *)
EndReadForgets ==
  /\ spc = "reading" /\ features # NoBytes
  /\ IF ReadSoFar.stamp = last THEN Nothing
     ELSE /\ work' = ReadSoFar
          /\ used' = Append(used, [life |-> servers, fv |-> ReadSoFar])
          /\ spc' = "infer" /\ UNCHANGED last
  /\ half' = NoBytes
  /\ UNCHANGED <<engineVars, servers, features, predict, tmp>>

(* Faulty: the prediction is made from the vector taken before this one.   *)
EndReadStale ==
  /\ spc = "reading" /\ features # NoBytes
  /\ IF ReadSoFar.stamp = last THEN Nothing
     ELSE /\ last' = ReadSoFar.stamp /\ work' = [stamp |-> last, body |-> last]
          /\ used' = Append(used, [life |-> servers, fv |-> ReadSoFar])
          /\ spc' = "infer"
  /\ half' = NoBytes
  /\ UNCHANGED <<engineVars, servers, features, predict, tmp>>

EndRead ==
  /\ spc = "reading" /\ features # NoBytes
  /\ IF ReadSoFar.stamp = last THEN Nothing
     ELSE /\ last' = ReadSoFar.stamp /\ work' = ReadSoFar
          /\ used' = Append(used, [life |-> servers, fv |-> ReadSoFar])
          /\ spc' = "infer"
  /\ half' = NoBytes
  /\ UNCHANGED <<engineVars, servers, features, predict, tmp>>

(* Faulty: an exception ends the loop.                                     *)
InferFailsForGood ==
  /\ spc = "infer"
  /\ spc' = "ended"
  /\ UNCHANGED <<engineVars, servers, last, half, work, used, features, predict, tmp>>

(* An exception of a model is logged, and the loop goes on.                *)
InferFails ==
  /\ spc = "infer"
  /\ spc' = "sleep"
  /\ UNCHANGED <<engineVars, servers, last, half, work, used, features, predict, tmp>>

(* The models, and the explanation: cached, rule based or awaited from a   *)
(* service whose client gives up after a while; an error falls back.       *)
Infer ==
  /\ spc = "infer"
  /\ spc' = "open"
  /\ UNCHANGED <<engineVars, servers, last, half, work, used, features, predict, tmp>>

(* Faulty: the file the engine reads is written in place.                  *)
OpenInPlace ==
  /\ spc = "open"
  /\ predict' = [size |-> "part", of |-> work] /\ UNCHANGED tmp
  /\ spc' = "replace"
  /\ UNCHANGED <<engineVars, servers, last, half, work, used, features>>

(* write_prediction: open, write and close the temporary file ...          *)
OpenTmp ==
  /\ spc = "open"
  /\ tmp' = "part"
  /\ spc' = "close"
  /\ UNCHANGED <<engineVars, servers, last, half, work, used, features, predict>>

CloseTmp ==
  /\ spc = "close"
  /\ tmp' = "full"
  /\ spc' = "replace"
  /\ UNCHANGED <<engineVars, servers, last, half, work, used, features, predict>>

(* ... and rename it.                                                      *)
Replace ==
  /\ spc = "replace"
  /\ predict' = [size |-> tmp, of |-> work] /\ tmp' = "empty"
  /\ spc' = "sleep"
  /\ UNCHANGED <<engineVars, servers, last, half, work, used, features>>

(* Any of these fails: the error is logged, what was written stays.        *)
WriteFails ==
  /\ spc \in {"open", "close", "replace"}
  /\ spc' = "sleep"
  /\ UNCHANGED <<engineVars, servers, last, half, work, used, features, predict, tmp>>

Sleep ==
  /\ spc = "sleep"
  /\ spc' = "poll"
  /\ UNCHANGED <<engineVars, servers, last, half, work, used, features, predict, tmp>>

ServerDies ==
  /\ spc # "down"
  /\ spc' = "down" /\ last' = 0 /\ half' = NoBytes /\ work' = Zeros
  /\ UNCHANGED <<engineVars, servers, used, features, predict, tmp>>

-----------------------------------------------------------------------------

Engine ==
  \/ CutFeatures \/ SizeFeatures \/ CutPredict \/ SizePredict
  \/ BeginWrite \/ EndWrite \/ ReadPrediction

Server ==
  \/ NoVector \/ BeginRead \/ EndRead \/ InferFails \/ Infer
  \/ OpenTmp \/ CloseTmp \/ Replace \/ WriteFails \/ Sleep

Next ==
  \/ EngineStarts \/ Engine \/ EngineDies
  \/ ServerStarts \/ Server \/ ServerDies

Spec == Init /\ [][Next]_vars
(* A server that lives goes round its loop; nothing is asked of the ticks. *)
FairSpec == Spec /\ WF_vars(Server)

-----------------------------------------------------------------------------

TypeOK ==
  /\ epc \in {"down", "cutFeatures", "sizeFeatures", "cutPredict",
              "sizePredict", "tick", "writing", "read"}
  /\ engines \in 0..MaxEngines /\ servers \in 0..MaxServers
  /\ vec \in Stamps /\ rest \in {"stamp", "body"} /\ seen \in MLPrediction
  /\ spc \in {"down", "poll", "reading", "infer", "open", "close", "replace", "sleep"}
  /\ last \in Stamps /\ half \in [stamp : Stamps \cup {-1}, body : Stamps \cup {-1}]
  /\ work \in Sources
  /\ used \in Seq([life : 1..MaxServers, fv : FeatureVector])
  /\ features \in FeatureVector \cup {NoBytes}
  /\ predict \in MLPrediction /\ tmp \in Sizes

(* The prediction the engine trades on is always a finished one, made from *)
(* a vector the server has taken or made up, although the server may die   *)
(* at any point of writing it and the engine may be started in the middle  *)
(* of that (ml_server.py:56-60, main.cpp:149).                             *)
PredictionsWhole ==
  /\ seen.size = "full"
  /\ seen.of \in {Zeros, Synthetic} \cup {used[i].fv : i \in DOMAIN used}

(* What a reader finds in a prediction file: nothing in one that has no    *)
(* content yet, and in a part of one something that is no prediction.      *)
Found(file) ==
  CASE file.size = "full"  -> file.of
    [] file.size = "empty" -> Zeros
    [] file.size = "part"  -> NoBytes

(* Two processes, either of which may die at any point, and a file that is *)
(* cut, sized, written and renamed are together a board on which whole     *)
(* predictions replace each other in the order of their vectors            *)
(* (ml_server.py:56-60, main.cpp:149).                                     *)
Board == INSTANCE PredictionBoard
           WITH Vectors <- FeatureVector, Blank <- Zeros, MadeUp <- Synthetic,
                taken <- [i \in DOMAIN used |-> used[i].fv],
                board <- Found(predict), seen <- Found(seen)

ImplementsBoard == Board!Spec

(* The engine, while it lives, never goes back to a prediction of an older *)
(* vector, whichever life of the server made either.                       *)
PredictionsAdvance ==
  [][seen.of.stamp > 0 /\ seen'.of.stamp > 0 => seen.of.stamp <= seen'.of.stamp]_vars

(* A server takes each vector of the engine once and never one older than  *)
(* it has taken before, also across restarts of either process; only a     *)
(* server that has been restarted takes its predecessor's last vector      *)
(* again.  The zeros of a file that has just been set up are not counted   *)
(* (features.py:158-161).                                                  *)
VectorsInOrder ==
  \A i, j \in DOMAIN used :
    i < j /\ used[i].fv.stamp > 0 /\ used[j].fv.stamp > 0 =>
      \/ used[i].fv.stamp < used[j].fv.stamp
      \/ used[i].fv.stamp = used[j].fv.stamp /\ used[i].life < used[j].life

(* This life of the server has taken vector n whole.                       *)
Whole(n) == [stamp |-> n, body |-> n]
TookWhole(n) == \E i \in DOMAIN used : used[i] = [life |-> servers, fv |-> Whole(n)]

(* A vector that is whole in the file and new to the server when no read   *)
(* is under way is taken whole by a server that lives, unless it is        *)
(* overwritten.  One whose stamp a read has met before the rest of it was  *)
(* there is new no more: what that read made of it is all there will be    *)
(* (features.py:161-163).                                                  *)
NewVectorIsTaken ==
  \A n \in 1..MaxVectors :
    features = Whole(n) /\ last # n /\ half = NoBytes
      ~> TookWhole(n) \/ features # Whole(n) \/ spc = "down"
=============================================================================
