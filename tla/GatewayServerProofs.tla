------------------------ MODULE GatewayServerProofs ------------------------
(***************************************************************************)
(* Proofs about the gateway's front door: for any deployment, any headers, *)
(* any buffers and any number of legs.                                     *)
(***************************************************************************)
EXTENDS GatewayServer, WellFoundedInduction, TLAPS

-----------------------------------------------------------------------------
(* The helpers.                                                            *)

\* A number header gives a positive number whatever it holds.
LEMMA ParsedPositive ==
    ASSUME NEW header, NEW default \in Nat \ {0}
    PROVE  ParseIntHeader(header, default) \in Nat \ {0}
  BY DEF ParseIntHeader

\* So a leg always has a bitrate to divide by, and a codec.
LEMMA ParsedInfo ==
    ASSUME NEW headers
    PROVE  ParseShoutcastHeaders(headers) \in SourceInfo
<1>1. DetectCodec(FirstOr(headers.type, {})) \in Codecs
  BY DEF DetectCodec, Codecs
<1> QED
  BY <1>1, ParsedPositive DEF ParseShoutcastHeaders, SourceInfo

\* Integer division of naturals.
LEMMA Divided ==
    ASSUME NEW n \in Nat, NEW d \in Nat \ {0}
    PROVE  /\ n \div d \in Nat
           /\ d * (n \div d) <= n
           /\ n < d * (n \div d) + d
  OBVIOUS

\* A rounded duration is a natural number, and off by half a millisecond at
\* most.
LEMMA Rounded ==
    ASSUME NEW bytes \in Nat, NEW bitrate \in Nat \ {0}
    PROVE  LET ms == EstimateFrameDurationMs(bytes, bitrate) IN
           /\ ms \in Nat
           /\ 2 * (bitrate * ms) - 16 * bytes <= bitrate
           /\ 16 * bytes - 2 * (bitrate * ms) <= bitrate
<1> DEFINE ms == EstimateFrameDurationMs(bytes, bitrate)
<1>1. CASE bytes = 0
  <2>1. ms = 0
    BY <1>1 DEF EstimateFrameDurationMs
  <2> QED
    BY <1>1, <2>1
<1>2. CASE bytes # 0
  <2> DEFINE n == 16 * bytes + bitrate
             d == 2 * bitrate
  <2>1. ms = n \div d
    BY <1>2 DEF EstimateFrameDurationMs
  <2>2. n \in Nat /\ d \in Nat \ {0}
    OBVIOUS
  <2>3. ms \in Nat /\ d * ms <= n /\ n < d * ms + d
    BY <2>1, <2>2, Divided
  <2>4. d * ms = 2 * (bitrate * ms)
    BY <2>3
  <2> HIDE DEF ms
  <2>5. /\ ms \in Nat
        /\ 2 * (bitrate * ms) - 16 * bytes <= bitrate
        /\ 16 * bytes - 2 * (bitrate * ms) <= bitrate
    <3>1. ms \in Nat /\ bitrate * ms \in Int
      BY <2>3
    <3> QED
      BY <2>3, <2>4, <3>1
  <2> QED
    BY <2>5 DEF ms
<1> QED
  BY <1>1, <1>2

\* What a buffer makes of a leg.
LEMMA ExtendedLeg ==
    ASSUME NEW leg \in Leg, NEW bytes \in Nat
    PROVE  /\ Lasts(leg, bytes) \in Nat
           /\ Extended(leg, bytes) \in Leg
           /\ Extended(leg, bytes).info = leg.info
           /\ Extended(leg, bytes).from = leg.from
           /\ Extended(leg, bytes).bytes = leg.bytes + bytes
           /\ Extended(leg, bytes).ms = leg.ms + Lasts(leg, bytes)
           /\ Extended(leg, bytes).frames = leg.frames + 1
<1>1. leg.info.bitrate \in Nat \ {0}
  BY DEF Leg, SourceInfo
<1>2. Lasts(leg, bytes) \in Nat
  BY <1>1, Rounded DEF Lasts
<1>3. /\ leg.info \in SourceInfo /\ leg.from \in Nat /\ leg.bytes \in Nat
      /\ leg.ms \in Nat /\ leg.frames \in Nat
  BY DEF Leg
<1> QED
  BY <1>2, <1>3 DEF Leg, Extended

-----------------------------------------------------------------------------
\* What the operator corrects after a report is no longer reported.
LEMMA EnvCorrected ==
    ASSUME report.wrong = EnvErrors(env)
    PROVE  EnvErrors(Corrected(env, GoodEnv)) = {}
<1>1. ASSUME NEW name \in EnvVars
      PROVE  EnvAccepts(name, Corrected(env, GoodEnv)[name])
  <2>1. CASE name \in report.wrong
    <3>1. Corrected(env, GoodEnv)[name] = GoodEnv[name]
      BY <2>1, GoodAssumption DEF Corrected
    <3>2. EnvAccepts(name, GoodEnv[name])
      BY GoodAssumption DEF EnvErrors
    <3> QED
      BY <3>1, <3>2
  <2>2. CASE name \notin report.wrong
    <3>1. Corrected(env, GoodEnv)[name] = env[name]
      BY <2>2, GoodAssumption DEF Corrected
    <3>2. EnvAccepts(name, env[name])
      BY <2>2 DEF EnvErrors
    <3> QED
      BY <3>1, <3>2
  <2> QED
    BY <2>1, <2>2
<1> QED
  BY <1>1 DEF EnvErrors

LEMMA RecordCorrected ==
    ASSUME report.wrong = StationErrors(record)
    PROVE  StationErrors(Corrected(record, GoodRecord)) = {}
<1>1. ASSUME NEW field \in StationFields
      PROVE  StationAccepts(field, Corrected(record, GoodRecord)[field])
  <2>1. CASE field \in report.wrong
    <3>1. Corrected(record, GoodRecord)[field] = GoodRecord[field]
      BY <2>1, GoodAssumption DEF Corrected
    <3>2. StationAccepts(field, GoodRecord[field])
      BY GoodAssumption DEF StationErrors
    <3> QED
      BY <3>1, <3>2
  <2>2. CASE field \notin report.wrong
    <3>1. Corrected(record, GoodRecord)[field] = record[field]
      BY <2>2, GoodAssumption DEF Corrected
    <3>2. StationAccepts(field, record[field])
      BY <2>2 DEF StationErrors
    <3> QED
      BY <3>1, <3>2
  <2> QED
    BY <2>1, <2>2
<1> QED
  BY <1>1 DEF StationErrors

-----------------------------------------------------------------------------
\* Shapes.
THEOREM TypeCorrect == Spec => []TypeOK
<1>1. Init => TypeOK
  <2> SUFFICES ASSUME Init
               PROVE  TypeOK
    OBVIOUS
  <2>1. kind \in Kinds /\ secret \in Seq(STRING)
    BY DeploymentsAssumption DEF Init
  <2>2. report.at = "none" /\ answer.code = 0
    BY DEF Init, NoReport, NoAnswer
  <2>3. legs \in Seq(Leg) /\ failures \in [Complaints -> Nat] /\ ~active
    BY DEF Init
  <2> QED
    BY <2>1, <2>2, <2>3 DEF Init, TypeOK, Stages
<1>2. TypeOK /\ [Next]_vars => TypeOK'
  <2> SUFFICES ASSUME TypeOK, [Next]_vars
               PROVE  TypeOK'
    OBVIOUS
  <2>1. ASSUME NEW complaint \in Complaints, NEW wrong, Refused(complaint, wrong)
        PROVE  TypeOK'
    <3>1. report'.at \in Complaints /\ report'.at # "none"
      BY <2>1 DEF Refused, Complaints, Kinds
    <3>2. failures' \in [Complaints -> Nat]
      BY <2>1 DEF Refused, TypeOK
    <3> QED
      BY <2>1, <3>1, <3>2 DEF Refused, TypeOK, setup, serving, Stages
  <2>2. CASE EnvRefused \/ JsonRefused \/ NotObjectRefused \/ FieldsRefused
    BY <2>1, <2>2 DEF EnvRefused, JsonRefused, NotObjectRefused,
       FieldsRefused, Complaints, Kinds
  <2>3. CASE StartsUp
    <3>1. report'.at = "none"
      BY <2>3 DEF StartsUp, NoReport
    <3> QED
      BY <2>3, <3>1 DEF StartsUp, TypeOK, setup, Stages
  <2>4. CASE Listens
    BY <2>4 DEF Listens, TypeOK, deploying, setup, serving, Stages
  <2>5. CASE ShutsDown
    BY <2>5 DEF ShutsDown, TypeOK, deploying, setup, NoAnswer, Stages
  <2>6. CASE Stops
    <3>1. answer'.code = 0 /\ legs' \in Seq(Leg)
      BY <2>6 DEF Stops, NoAnswer
    <3> QED
      BY <2>6, <3>1 DEF Stops, TypeOK, deploying, setup, Stages
  <2>7. CASE Corrects
    <3>1. kind' \in Kinds
      BY <2>7 DEF Corrects, KindsAfter, TypeOK, Complaints, Kinds
    <3> QED
      BY <2>7, <3>1 DEF Corrects, TypeOK, serving, Stages
  <2>8. CASE AnswersItself
    <3>1. answer'.code \in {200, 404, 405}
      BY <2>8 DEF AnswersItself, HealthCode
    <3> QED
      BY <2>8, <3>1 DEF AnswersItself, TypeOK, deploying, setup
  <2>9. ASSUME NEW auth, SourceArrives(auth)
        PROVE  answer'.code \in {0, 200, 401, 404, 405, 409, 500, 503}
    BY <2>9 DEF SourceArrives, SourceCode
  <2>10. CASE SourceRefused
    BY <2>9, <2>10 DEF SourceRefused, TypeOK, deploying, setup
  <2>11. CASE SourceAccepted
    <3>1. PICK headers \in Headers :
             legs' = Append(legs, [info |-> ParseShoutcastHeaders(headers),
                                   from |-> clock, bytes |-> 0, ms |-> 0,
                                   frames |-> 0])
      BY <2>11 DEF SourceAccepted
    <3>2. [info |-> ParseShoutcastHeaders(headers), from |-> clock, bytes |-> 0,
           ms |-> 0, frames |-> 0] \in Leg
      BY ParsedInfo DEF Leg, TypeOK
    <3>3. legs' \in Seq(Leg) /\ legs' # <<>>
      BY <3>1, <3>2 DEF TypeOK
    <3> QED
      BY <2>9, <2>11, <3>3 DEF SourceAccepted, TypeOK, deploying, setup
  <2>12. CASE DataArrives
    <3>1. Len(legs) \in 1..Len(legs) /\ Latest \in Leg
      BY <2>12 DEF DataArrives, TypeOK, Latest
    <3>2. PICK bytes \in BufferSizes :
             /\ legs' = [legs EXCEPT ![Len(legs)] = Extended(Latest, bytes)]
             /\ clock' = clock + Lasts(Latest, bytes)
      BY <2>12 DEF DataArrives
    <3>3. Lasts(Latest, bytes) \in Nat /\ Extended(Latest, bytes) \in Leg
      BY <3>1, ExtendedLeg, BuffersAssumption
    <3>4. legs' \in Seq(Leg) /\ legs' # <<>>
      BY <3>1, <3>2, <3>3 DEF TypeOK
    <3>5. clock' \in Nat
      BY <3>2, <3>3 DEF TypeOK
    <3> QED
      BY <2>12, <3>4, <3>5 DEF DataArrives, TypeOK, deploying, setup, NoAnswer
  <2>13. CASE SourceLeaves
    BY <2>13 DEF SourceLeaves, TypeOK, deploying, setup, NoAnswer
  <2>14. CASE UNCHANGED vars
    BY <2>14 DEF vars, TypeOK, deploying, setup, serving
  <2> QED
    BY <2>2, <2>3, <2>4, <2>5, <2>6, <2>7, <2>8, <2>10, <2>11, <2>12, <2>13,
       <2>14 DEF Next
<1> QED
  BY <1>1, <1>2, PTL DEF Spec

-----------------------------------------------------------------------------
\* When the adapter is ready and when it has a source.
StageInv ==
    /\ ready <=> stage \in {"binding", "listening"}
    /\ active => stage = "listening"

LEMMA StagesCorrect == Spec => []StageInv
<1>1. Init => StageInv
  BY DEF Init, StageInv
<1>2. TypeOK /\ StageInv /\ [Next]_vars => StageInv'
  <2> SUFFICES ASSUME TypeOK, StageInv, [Next]_vars
               PROVE  StageInv'
    OBVIOUS
  <2>1. CASE EnvRefused \/ JsonRefused \/ NotObjectRefused \/ FieldsRefused
    BY <2>1 DEF EnvRefused, JsonRefused, NotObjectRefused,
       FieldsRefused, Refused, StageInv, setup, serving
  <2>2. CASE StartsUp \/ Listens \/ ShutsDown \/ Stops \/ Corrects
    BY <2>2 DEF StartsUp, Listens, ShutsDown, Stops, Corrects, StageInv,
       deploying, setup, serving, TypeOK
  <2>3. CASE AnswersItself \/ SourceRefused \/ DataArrives \/ SourceLeaves
    BY <2>3 DEF AnswersItself, SourceRefused, DataArrives, SourceLeaves, StageInv
  <2>4. CASE SourceAccepted
    <3>1. ready /\ Serves
      BY <2>4 DEF SourceAccepted, SourceArrives, SourceCode
    <3> QED
      BY <2>4, <3>1 DEF SourceAccepted, StageInv, Serves
  <2>5. CASE UNCHANGED vars
    BY <2>5 DEF vars, serving, StageInv
  <2> QED
    BY <2>1, <2>2, <2>3, <2>4, <2>5 DEF Next
<1> QED
  BY <1>1, <1>2, TypeCorrect, PTL DEF Spec

-----------------------------------------------------------------------------
\* One more buffer adds half a millisecond of drift at most.
LEMMA DriftAdds ==
    ASSUME NEW bitrate \in Nat \ {0}, NEW ms \in Nat, NEW more \in Nat,
           NEW size \in Nat, NEW bytes \in Nat, NEW frames \in Nat,
           2 * (bitrate * ms - 8 * size) <= bitrate * frames,
           -(2 * (bitrate * ms - 8 * size)) <= bitrate * frames,
           2 * (bitrate * more) - 16 * bytes <= bitrate,
           16 * bytes - 2 * (bitrate * more) <= bitrate
    PROVE  /\ 2 * (bitrate * (ms + more) - 8 * (size + bytes)) <= bitrate * (frames + 1)
           /\ -(2 * (bitrate * (ms + more) - 8 * (size + bytes))) <= bitrate * (frames + 1)
<1>1. bitrate * (ms + more) = bitrate * ms + bitrate * more
  OBVIOUS
<1>2. bitrate * (frames + 1) = bitrate * frames + bitrate
  OBVIOUS
<1>3. bitrate * ms \in Int /\ bitrate * more \in Int /\ bitrate * frames \in Int
  OBVIOUS
<1> QED
  BY <1>1, <1>2, <1>3

LEMMA ExtendedKeepsUp ==
    ASSUME NEW leg \in Leg, NEW bytes \in Nat, KeepsUp(leg)
    PROVE  KeepsUp(Extended(leg, bytes))
<1> DEFINE new == Extended(leg, bytes)
           bitrate == leg.info.bitrate
           more == Lasts(leg, bytes)
<1>1. /\ new.info = leg.info
      /\ new.bytes = leg.bytes + bytes
      /\ new.ms = leg.ms + more
      /\ new.frames = leg.frames + 1
      /\ more \in Nat
  BY ExtendedLeg
<1>2. /\ bitrate \in Nat \ {0} /\ leg.ms \in Nat /\ leg.bytes \in Nat
      /\ leg.frames \in Nat
  BY DEF Leg, SourceInfo
<1>3. /\ 2 * (bitrate * more) - 16 * bytes <= bitrate
      /\ 16 * bytes - 2 * (bitrate * more) <= bitrate
  BY <1>2, Rounded DEF Lasts
<1>4. /\ 2 * (bitrate * leg.ms - 8 * leg.bytes) <= bitrate * leg.frames
      /\ -(2 * (bitrate * leg.ms - 8 * leg.bytes)) <= bitrate * leg.frames
  BY DEF KeepsUp
<1> HIDE DEF bitrate, more
<1>5. /\ 2 * (bitrate * (leg.ms + more) - 8 * (leg.bytes + bytes))
            <= bitrate * (leg.frames + 1)
      /\ -(2 * (bitrate * (leg.ms + more) - 8 * (leg.bytes + bytes)))
            <= bitrate * (leg.frames + 1)
  BY <1>1, <1>2, <1>3, <1>4, DriftAdds
<1>6. new.info.bitrate = bitrate
  BY <1>1 DEF bitrate
<1> HIDE DEF new
<1>7. KeepsUp(new)
  BY <1>1, <1>5, <1>6 DEF KeepsUp
<1> QED
  BY <1>7 DEF new

\* The session clock keeps up with the audio, whatever the sizes of the buffers
\* and however many there are.
THEOREM DriftCorrect == Spec => []DriftBounded
<1>1. Init => DriftBounded
  BY DEF Init, DriftBounded
<1>2. TypeOK /\ StageInv /\ DriftBounded /\ [Next]_vars => DriftBounded'
  <2> SUFFICES ASSUME TypeOK, StageInv, DriftBounded, [Next]_vars
               PROVE  DriftBounded'
    OBVIOUS
  <2>1. ASSUME UNCHANGED <<legs, clock>>,
               stage' # "stopping" => stage # "stopping"
        PROVE  DriftBounded'
    BY <2>1 DEF DriftBounded, Latest
  <2>2. CASE EnvRefused \/ JsonRefused \/ NotObjectRefused \/ FieldsRefused
    BY <2>1, <2>2 DEF EnvRefused, JsonRefused, NotObjectRefused,
       FieldsRefused, Refused, serving
  <2>3. CASE StartsUp \/ Listens \/ Corrects
    BY <2>1, <2>3 DEF StartsUp, Listens, Corrects, serving
  <2>4. CASE AnswersItself \/ SourceRefused \/ SourceLeaves \/ UNCHANGED vars
    BY <2>1, <2>4 DEF AnswersItself, SourceRefused, SourceLeaves, vars, serving
  <2>5. CASE ShutsDown
    BY <2>5 DEF ShutsDown, DriftBounded, Latest
  <2>6. CASE Stops
    <3>1. legs' = <<>> /\ Len(legs') = 0
      BY <2>6 DEF Stops
    <3> QED
      BY <3>1 DEF DriftBounded
  <2>7. CASE SourceAccepted
    <3>1. PICK headers \in Headers :
             legs' = Append(legs, [info |-> ParseShoutcastHeaders(headers),
                                   from |-> clock, bytes |-> 0, ms |-> 0,
                                   frames |-> 0])
      BY <2>7 DEF SourceAccepted
    <3> DEFINE new == [info |-> ParseShoutcastHeaders(headers), from |-> clock,
                       bytes |-> 0, ms |-> 0, frames |-> 0]
    <3>2. new \in Leg /\ new.from = clock /\ new.ms = 0
      BY ParsedInfo DEF Leg, TypeOK
    <3>3. KeepsUp(new)
      <4>1. new.info.bitrate \in Nat
        BY <3>2 DEF Leg, SourceInfo
      <4> QED
        BY <4>1 DEF KeepsUp
    <3>4. stage # "stopping" /\ stage' = stage /\ clock' = clock
      <4>1. ready
        BY <2>7 DEF SourceAccepted, SourceArrives, SourceCode
      <4> QED
        BY <2>7, <4>1 DEF SourceAccepted, StageInv
    <3> HIDE DEF new
    <3>5. legs' = Append(legs, new)
      BY <3>1 DEF new
    <3>6. /\ legs' \in Seq(Leg) /\ Len(legs') = Len(legs) + 1
          /\ legs'[Len(legs) + 1] = new
          /\ \A i \in 1..Len(legs) : legs'[i] = legs[i]
      BY <3>2, <3>5 DEF TypeOK
    <3>7. legs \in Seq(Leg) /\ Len(legs) \in Nat /\ clock \in Nat
      BY DEF TypeOK
    <3>8. \A i \in 1..Len(legs') : KeepsUp(legs'[i])
      BY <3>3, <3>6, <3>7 DEF DriftBounded
    <3>9. \A i \in 1..Len(legs') - 1 : legs'[i].from + legs'[i].ms = legs'[i + 1].from
      <4> TAKE i \in 1..Len(legs') - 1
      <4>1. CASE i < Len(legs)
        BY <3>6, <3>7, <4>1 DEF DriftBounded
      <4>2. CASE i = Len(legs)
        BY <3>2, <3>4, <3>6, <3>7, <4>2 DEF DriftBounded, Latest
      <4> QED
        BY <3>6, <3>7, <4>1, <4>2
    <3>10. Latest'.from + Latest'.ms = clock'
      BY <3>2, <3>4, <3>6, <3>7 DEF Latest
    <3> QED
      BY <3>8, <3>9, <3>10 DEF DriftBounded
  <2>8. CASE DataArrives
    <3>1. /\ Len(legs) \in 1..Len(legs) /\ Latest \in Leg
          /\ legs \in Seq(Leg) /\ Len(legs) \in Nat \ {0} /\ clock \in Nat
      BY <2>8 DEF DataArrives, TypeOK, Latest
    <3>2. PICK bytes \in BufferSizes :
             /\ legs' = [legs EXCEPT ![Len(legs)] = Extended(Latest, bytes)]
             /\ clock' = clock + Lasts(Latest, bytes)
      BY <2>8 DEF DataArrives
    <3> DEFINE new == Extended(Latest, bytes)
    <3>3. /\ new \in Leg /\ new.from = Latest.from
          /\ new.ms = Latest.ms + Lasts(Latest, bytes)
          /\ Lasts(Latest, bytes) \in Nat
      BY <3>1, ExtendedLeg, BuffersAssumption
    <3>4. KeepsUp(new)
      BY <3>1, ExtendedKeepsUp, BuffersAssumption DEF DriftBounded, Latest
    <3>5. stage' = stage /\ stage # "stopping"
      BY <2>8 DEF DataArrives, StageInv
    <3> HIDE DEF new
    <3>6. /\ legs' \in Seq(Leg) /\ Len(legs') = Len(legs)
          /\ legs'[Len(legs)] = new
          /\ \A i \in 1..Len(legs) - 1 : legs'[i] = legs[i]
      <4>1. legs' = [legs EXCEPT ![Len(legs)] = new]
        BY <3>2 DEF new
      <4> QED
        BY <3>1, <3>3, <4>1
    <3>7. \A i \in 1..Len(legs') : KeepsUp(legs'[i])
      BY <3>1, <3>4, <3>6 DEF DriftBounded
    <3>8. \A i \in 1..Len(legs') - 1 : legs'[i].from + legs'[i].ms = legs'[i + 1].from
      <4> TAKE i \in 1..Len(legs') - 1
      <4>1. legs[i].from + legs[i].ms = legs[i + 1].from /\ legs'[i] = legs[i]
        BY <3>1, <3>6 DEF DriftBounded
      <4>2. legs'[i + 1].from = legs[i + 1].from
        <5>1. CASE i + 1 = Len(legs)
          BY <3>3, <3>6, <5>1 DEF Latest
        <5>2. CASE i + 1 # Len(legs)
          BY <3>1, <3>6, <5>2
        <5> QED
          BY <5>1, <5>2
      <4> QED
        BY <4>1, <4>2
    <3>9. Latest'.from + Latest'.ms = clock'
      <4>1. Latest.from + Latest.ms = clock
        BY <3>1, <3>5 DEF DriftBounded
      <4>2. Latest' = new
        BY <3>6 DEF Latest
      <4>3. Latest.from \in Nat /\ Latest.ms \in Nat
        BY <3>1 DEF Leg
      <4> QED
        BY <3>2, <3>3, <4>1, <4>2, <4>3
    <3> QED
      BY <3>7, <3>8, <3>9 DEF DriftBounded
  <2> QED
    BY <2>2, <2>3, <2>4, <2>5, <2>6, <2>7, <2>8 DEF Next
<1> QED
  BY <1>1, <1>2, TypeCorrect, StagesCorrect, PTL DEF Spec

-----------------------------------------------------------------------------
\* What was checked at the start stays true for as long as the process serves,
\* and the adapter it readied never turns a source away unready.
ServeInv ==
    /\ stage \in {"binding", "listening", "stopping"} =>
          EnvErrors(env) = {} /\ kind = "record" /\ StationErrors(record) = {}
    /\ stage # "stopping" => answer.code # 503

LEMMA ServingChecked == Spec => []ServeInv
<1>1. Init => ServeInv
  BY DEF Init, ServeInv, NoAnswer
<1>2. StageInv /\ ServeInv /\ [Next]_vars => ServeInv'
  <2> SUFFICES ASSUME StageInv, ServeInv, [Next]_vars
               PROVE  ServeInv'
    OBVIOUS
  <2>1. ASSUME UNCHANGED setup,
               stage' \in {"down", "failed"} \/ stage \in {"binding", "listening", "stopping"},
               stage' # "stopping" => answer'.code # 503
        PROVE  ServeInv'
    BY <2>1 DEF ServeInv, setup
  <2>2. CASE EnvRefused \/ JsonRefused \/ NotObjectRefused \/ FieldsRefused
    BY <2>1, <2>2 DEF EnvRefused, JsonRefused, NotObjectRefused,
       FieldsRefused, Refused, serving, ServeInv
  <2>3. CASE StartsUp
    BY <2>3 DEF StartsUp, ServeInv, setup
  <2>4. CASE Listens
    BY <2>1, <2>4 DEF Listens, deploying, serving, ServeInv
  <2>5. CASE ShutsDown \/ Stops
    BY <2>1, <2>5 DEF ShutsDown, Stops, deploying, NoAnswer
  <2>6. CASE Corrects
    BY <2>6 DEF Corrects, ServeInv, serving
  <2>7. CASE AnswersItself
    <3>1. answer'.code # 503
      BY <2>7 DEF AnswersItself, HealthCode
    <3> QED
      BY <2>1, <2>7, <3>1 DEF AnswersItself, Serves, deploying
  <2>8. CASE SourceRefused \/ SourceAccepted
    <3>1. PICK auth \in Auths : SourceArrives(auth)
      BY <2>8 DEF SourceRefused, SourceAccepted
    <3>2. ready => answer'.code # 503
      BY <3>1 DEF SourceArrives, SourceCode
    <3>3. stage' = stage /\ UNCHANGED setup
      BY <2>8 DEF SourceRefused, SourceAccepted, deploying
    <3>4. stage \in {"listening", "stopping"}
      BY <3>1 DEF SourceArrives, Serves
    <3> QED
      BY <2>1, <3>2, <3>3, <3>4 DEF StageInv
  <2>9. CASE DataArrives \/ SourceLeaves
    BY <2>1, <2>9 DEF DataArrives, SourceLeaves, StageInv, NoAnswer, deploying
  <2>10. CASE UNCHANGED vars
    BY <2>10 DEF vars, deploying, serving, setup, ServeInv
  <2> QED
    BY <2>2, <2>3, <2>4, <2>5, <2>6, <2>7, <2>8, <2>9, <2>10 DEF Next
<1> QED
  BY <1>1, <1>2, StagesCorrect, PTL DEF Spec

\* A gateway that serves has what its components need.
THEOREM ServesSafely == Spec => []SafeToServe
<1>1. ASSUME ServeInv, stage \in {"binding", "listening", "stopping"}
      PROVE  /\ env["INGEST_PORT"] \in Ports
             /\ env["INGEST_CHUNK_DURATION_MS"] > 0
             /\ kind = "record"
             /\ record["eStatus"] = "active"
  <2>1. EnvErrors(env) = {} /\ kind = "record" /\ StationErrors(record) = {}
    BY <1>1 DEF ServeInv
  <2>2. \A name \in EnvVars : EnvAccepts(name, env[name])
    BY <2>1 DEF EnvErrors
  <2>3. EnvAccepts("INGEST_PORT", env["INGEST_PORT"])
    BY <2>2 DEF EnvVars
  <2>4. EnvAccepts("INGEST_CHUNK_DURATION_MS", env["INGEST_CHUNK_DURATION_MS"])
    BY <2>2 DEF EnvVars
  <2>5. env["INGEST_PORT"] \in Ports
    BY <2>3 DEF EnvAccepts
  <2>6. env["INGEST_CHUNK_DURATION_MS"] \in Nat \ {0}
    BY <2>4 DEF EnvAccepts
  <2>7. env["INGEST_CHUNK_DURATION_MS"] > 0
    BY <2>6
  <2>8. StationAccepts("eStatus", record["eStatus"])
    BY <2>1 DEF StationErrors, StationFields
  <2>9. record["eStatus"] = "active"
    BY <2>8 DEF StationAccepts, KnownStatuses
  <2> QED
    BY <2>1, <2>5, <2>7, <2>9
<1>2. ASSUME StageInv, ServeInv, stage \in {"binding", "listening", "stopping"}
      PROVE  stage # "stopping" => ready /\ answer.code # 503
  BY <1>2 DEF StageInv, ServeInv
<1>3. StageInv /\ ServeInv => SafeToServe
  BY <1>1, <1>2, Zenon DEF SafeToServe
<1> QED
  BY <1>3, ServingChecked, StagesCorrect, PTL

-----------------------------------------------------------------------------
\* What a complaint is about is right, and so is all that is looked at before it.
Passes(complaint) ==
    /\ complaint = "unset" => kind # "unset"
    /\ complaint = "notJson" => kind \notin {"unset", "notJson"}
    /\ complaint = "notObject" => kind = "record"
    /\ complaint = "record" => kind = "record" /\ StationErrors(record) = {}
    /\ complaint \in {"env", "record"} => EnvErrors(env) = {}

\* The complaint the operator has not answered yet.
Pending(complaint) == stage = "failed" /\ report.at = complaint

\* What was complained of is right once the report was answered, whatever else
\* is reported before or after it; and a report is true of what was deployed.
ComplaintInv ==
    /\ \A c \in Complaints : failures[c] <= 1
    /\ \A c \in Complaints : failures[c] = 1 => Passes(c) \/ Pending(c)
    /\ stage = "failed" =>
          /\ report.at \in Complaints
          /\ report.at = "env" => report.wrong = EnvErrors(env)
          /\ report.at # "env" => EnvErrors(env) = {} /\ kind = report.at
          /\ report.at = "record" => report.wrong = StationErrors(record)

\* What answering a report sets right, and that it undoes nothing.
LEMMA Answered ==
    ASSUME ComplaintInv, Corrects
    PROVE  \A c \in Complaints : Passes(c) \/ report.at = c => Passes(c)'
<1>1. /\ stage = "failed"
      /\ env' = IF report.at = "env" THEN Corrected(env, GoodEnv) ELSE env
      /\ kind' \in KindsAfter(report.at)
      /\ record' = IF report.at = "record" THEN Corrected(record, GoodRecord) ELSE record
  BY DEF Corrects
<1>2. /\ report.at \in Complaints
      /\ report.at = "env" => report.wrong = EnvErrors(env)
      /\ report.at # "env" => EnvErrors(env) = {} /\ kind = report.at
      /\ report.at = "record" => report.wrong = StationErrors(record)
  BY <1>1 DEF ComplaintInv
<1>3. CASE report.at = "env"
  <2>1. EnvErrors(env)' = {}
    BY <1>1, <1>2, <1>3, EnvCorrected
  <2>2. kind' = kind /\ record' = record
    BY <1>1, <1>3 DEF KindsAfter
  <2> QED
    BY <1>3, <2>1, <2>2 DEF Passes
<1>4. CASE report.at \in {"unset", "notJson", "notObject"}
  <2>1. env' = env /\ record' = record /\ EnvErrors(env) = {} /\ kind = report.at
    BY <1>1, <1>2, <1>4
  <2>2. /\ kind = "unset" => kind' \in {"notJson", "notObject", "record"}
        /\ kind = "notJson" => kind' \in {"notObject", "record"}
        /\ kind = "notObject" => kind' = "record"
    BY <1>1, <2>1 DEF KindsAfter
  <2>3. EnvErrors(env)' = {}
    BY <2>1
  <2> QED
    BY <1>4, <2>1, <2>2, <2>3 DEF Passes, Complaints, Kinds
<1>5. CASE report.at = "record"
  <2>1. StationErrors(Corrected(record, GoodRecord)) = {}
    BY <1>2, <1>5, RecordCorrected
  <2>2. env' = env /\ kind' = "record" /\ record' = Corrected(record, GoodRecord)
    BY <1>1, <1>5 DEF KindsAfter
  <2>3. EnvErrors(env)' = {} /\ StationErrors(record)' = {}
    BY <1>2, <1>5, <2>1, <2>2
  <2> QED
    BY <2>2, <2>3 DEF Passes
<1> QED
  BY <1>2, <1>3, <1>4, <1>5 DEF Complaints, Kinds

\* No complaint is made twice to one operator who answers every report, and
\* after the one about fields the start goes well.
THEOREM ComplaintsOnce == Spec => []EachComplaintOnce
<1>1. Init => ComplaintInv
  BY DEF Init, ComplaintInv
<1>2. TypeOK /\ ComplaintInv /\ [Next]_vars => ComplaintInv'
  <2> SUFFICES ASSUME TypeOK, ComplaintInv, [Next]_vars
               PROVE  ComplaintInv'
    OBVIOUS
  <2>1. ASSUME UNCHANGED setup
        PROVE  \A c \in Complaints : Passes(c)' <=> Passes(c)
    BY <2>1, Zenon DEF Passes, setup
  <2>2. ASSUME NEW complaint \in Complaints, NEW wrong, Refused(complaint, wrong),
               ~Passes(complaint),
               complaint = "env" => wrong = EnvErrors(env),
               complaint # "env" => EnvErrors(env) = {} /\ kind = complaint,
               complaint = "record" => wrong = StationErrors(record)
        PROVE  ComplaintInv'
    <3>1. stage = "down" /\ stage' = "failed" /\ UNCHANGED setup
      BY <2>2 DEF Refused
    <3>2. report'.at = complaint /\ report'.wrong = wrong
      BY <2>2 DEF Refused
    <3>3. failures[complaint] = 0
      BY <2>2, <3>1 DEF ComplaintInv, Pending, TypeOK
    <3>4. /\ failures' = [failures EXCEPT ![complaint] = @ + 1]
          /\ failures \in [Complaints -> Nat]
      BY <2>2 DEF Refused, TypeOK
    <3>5. \A c \in Complaints : failures'[c] <= 1
      BY <3>3, <3>4 DEF ComplaintInv
    <3>6. \A c \in Complaints : failures'[c] = 1 => Passes(c)' \/ Pending(c)'
      <4> SUFFICES ASSUME NEW c \in Complaints, failures'[c] = 1
                   PROVE  Passes(c)' \/ Pending(c)'
        OBVIOUS
      <4>1. CASE c = complaint
        BY <3>1, <3>2, <4>1 DEF Pending
      <4>2. CASE c # complaint
        <5>1. failures[c] = 1
          BY <3>4, <4>2
        <5> QED
          BY <2>1, <3>1, <5>1 DEF ComplaintInv, Pending
      <4> QED
        BY <4>1, <4>2
    <3>7. /\ complaint = "env" => wrong = EnvErrors(env)'
          /\ complaint # "env" => EnvErrors(env)' = {} /\ kind' = complaint
          /\ complaint = "record" => wrong = StationErrors(record)'
      BY <2>2, <3>1 DEF setup
    <3> QED
      BY <3>1, <3>2, <3>5, <3>6, <3>7 DEF ComplaintInv
  <2>3. CASE EnvRefused
    BY <2>2, <2>3 DEF EnvRefused, Complaints, Kinds, Passes
  <2>4. CASE JsonRefused
    <3>1. kind \in Complaints /\ ~Passes(kind)
      BY <2>4 DEF JsonRefused, Complaints, Kinds, Passes
    <3> QED
      BY <2>2, <2>4, <3>1 DEF JsonRefused
  <2>5. CASE NotObjectRefused
    <3>1. kind \in Complaints /\ ~Passes(kind)
      BY <2>5 DEF NotObjectRefused, Complaints, Kinds, Passes
    <3> QED
      BY <2>2, <2>5, <3>1 DEF NotObjectRefused
  <2>6. CASE FieldsRefused
    <3>1. kind \in Complaints /\ ~Passes(kind)
      BY <2>6 DEF FieldsRefused, Complaints, Kinds, Passes
    <3> QED
      BY <2>2, <2>6, <3>1 DEF FieldsRefused
  <2>7. CASE StartsUp
    BY <2>7 DEF StartsUp, ComplaintInv
  <2>8. CASE Corrects
    <3>1. stage' = "down" /\ UNCHANGED failures
      BY <2>8 DEF Corrects
    <3>2. \A c \in Complaints : Passes(c) \/ report.at = c => Passes(c)'
      BY <2>8, Answered
    <3> QED
      BY <3>1, <3>2 DEF ComplaintInv, Pending
  <2>9. ASSUME UNCHANGED deploying, stage = "failed" <=> stage' = "failed"
        PROVE  ComplaintInv'
    <3>1. UNCHANGED <<setup, report, failures>>
      BY <2>9 DEF deploying
    <3>2. \A c \in Complaints : Pending(c)' <=> Pending(c)
      BY <2>9, <3>1 DEF Pending
    <3>3. /\ EnvErrors(env)' = EnvErrors(env)
          /\ StationErrors(record)' = StationErrors(record)
          /\ kind' = kind
      BY <3>1 DEF setup
    <3> QED
      BY <2>1, <2>9, <3>1, <3>2, <3>3 DEF ComplaintInv
  <2>10. CASE Listens \/ ShutsDown \/ Stops
    BY <2>9, <2>10 DEF Listens, ShutsDown, Stops
  <2>11. CASE AnswersItself \/ SourceRefused \/ SourceAccepted \/ DataArrives \/ SourceLeaves
    BY <2>9, <2>11 DEF AnswersItself, SourceRefused, SourceAccepted, DataArrives, SourceLeaves
  <2>12. CASE UNCHANGED vars
    BY <2>9, <2>12 DEF vars
  <2> QED
    BY <2>3, <2>4, <2>5, <2>6, <2>7, <2>8, <2>10, <2>11, <2>12 DEF Next
<1>3. TypeOK /\ ComplaintInv => EachComplaintOnce
  <2> SUFFICES ASSUME TypeOK, ComplaintInv
               PROVE  EachComplaintOnce
    OBVIOUS
  <2>1. "record" \in Complaints
    BY DEF Complaints, Kinds
  <2>2. ASSUME stage = "down", failures["record"] > 0
        PROVE  EnvErrors(env) = {} /\ kind = "record" /\ StationErrors(record) = {}
    <3>1. failures["record"] = 1
      BY <2>1, <2>2 DEF ComplaintInv, TypeOK
    <3>2. Passes("record")
      BY <2>1, <2>2, <3>1 DEF ComplaintInv, Pending
    <3> QED
      BY <3>2 DEF Passes
  <2> QED
    BY <2>2 DEF ComplaintInv, EachComplaintOnce
<1> QED
  BY <1>1, <1>2, <1>3, TypeCorrect, PTL DEF Spec

-----------------------------------------------------------------------------
\* A set of positions that is not empty has a first one.
LEMMA FirstPosition ==
    ASSUME NEW S \in SUBSET Nat, S # {}
    PROVE  \E i \in S : \A j \in S : i <= j
<1>1. PICK i \in S : \A j \in S : ~(<<j, i>> \in OpToRel(<, Nat))
  BY NatLessThanWellFounded, WFMin
<1>2. \A j \in S : ~(j < i)
  BY <1>1 DEF OpToRel
<1> QED
  BY <1>2

\* What stands after the first colon is a password if it has its length and its
\* characters.
LEMMA AfterFirstColon ==
    ASSUME NEW text \in Seq(STRING), NEW password \in Seq(STRING),
           NEW i \in Colons(text), \A j \in Colons(text) : i <= j
    PROVE  AfterColon(text) = password <=>
              /\ Len(text) = i + Len(password)
              /\ \A k \in 1..Len(password) : text[i + k] = password[k]
<1>1. Colons(text) \subseteq 1..Len(text) /\ Len(text) \in Nat
  BY DEF Colons
<1>2. i = CHOOSE x \in Colons(text) : \A j \in Colons(text) : x <= j
  BY <1>1
<1>3. AfterColon(text) = SubSeq(text, i + 1, Len(text))
  BY <1>2 DEF AfterColon
<1> DEFINE rest == SubSeq(text, i + 1, Len(text))
<1>4. /\ rest \in Seq(STRING)
      /\ Len(rest) = Len(text) - i
      /\ \A k \in 1..Len(text) - i : rest[k] = text[i + k]
  BY <1>1
<1> HIDE DEF rest
<1>5. Len(password) \in Nat /\ i \in Nat
  BY <1>1
<1>6. rest = password <=>
         Len(rest) = Len(password) /\ \A k \in 1..Len(password) : rest[k] = password[k]
  BY <1>4
<1>7. Len(rest) = Len(password) <=> Len(text) = i + Len(password)
  BY <1>1, <1>4, <1>5
<1>8. ASSUME Len(text) = i + Len(password)
      PROVE  \A k \in 1..Len(password) : rest[k] = text[i + k]
  <2>1. Len(text) - i = Len(password)
    BY <1>1, <1>5, <1>8
  <2> QED
    BY <1>4, <2>1
<1>9. rest = password <=>
         /\ Len(text) = i + Len(password)
         /\ \A k \in 1..Len(password) : text[i + k] = password[k]
  <2>1. CASE Len(text) = i + Len(password)
    <3>1. \A k \in 1..Len(password) : rest[k] = text[i + k]
      BY <1>8, <2>1
    <3>2. rest = password <=> \A k \in 1..Len(password) : rest[k] = password[k]
      BY <1>6, <1>7, <2>1
    <3>3. (\A k \in 1..Len(password) : rest[k] = password[k])
             <=> (\A k \in 1..Len(password) : text[i + k] = password[k])
      BY <3>1, Zenon
    <3> QED
      BY <2>1, <3>2, <3>3
  <2>2. CASE Len(text) # i + Len(password)
    BY <1>6, <1>7, <2>2
  <2> QED
    BY <2>1, <2>2
<1> QED
  BY <1>3, <1>9 DEF rest

\* The parser finds a password exactly in the headers that carry it.
LEMMA ParsesWhatIsCarried ==
    ASSUME NEW auth, auth.text \in Seq(STRING), auth.scheme = "Basic",
           NEW password \in Seq(STRING)
    PROVE  AfterColon(auth.text) = password <=> Carries(auth, password)
<1> DEFINE text == auth.text
<1>1. CASE Colons(text) = {}
  <2>1. AfterColon(text) = text
    BY <1>1 DEF AfterColon
  <2> QED
    BY <1>1, <2>1 DEF Carries
<1>2. CASE Colons(text) # {}
  <2>1. Colons(text) \in SUBSET Nat
    BY DEF Colons
  <2>2. PICK i \in Colons(text) : \A j \in Colons(text) : i <= j
    BY <1>2, <2>1, FirstPosition
  <2>3. \A x \in Colons(text) : (\A j \in Colons(text) : x <= j) => x = i
    BY <2>1, <2>2
  <2>4. AfterColon(text) = password <=>
           /\ Len(text) = i + Len(password)
           /\ \A k \in 1..Len(password) : text[i + k] = password[k]
    BY <2>2, AfterFirstColon
  <2>5. ~(text = password /\ Colons(password) = {})
    BY <1>2
  <2> QED
    BY <2>2, <2>3, <2>4, <2>5 DEF Carries
<1> QED
  BY <1>1, <1>2

\* The credential alone decides between 200 and 401, for passwords and user
\* names of any length with any colons in them.
THEOREM PasswordCorrect == Spec => []PasswordDecides
<1>1. Init => PasswordDecides
  BY DEF Init, PasswordDecides, NoAnswer
<1>2. TypeOK /\ PasswordDecides /\ [Next]_vars => PasswordDecides'
  <2> SUFFICES ASSUME TypeOK, PasswordDecides, [Next]_vars
               PROVE  PasswordDecides'
    OBVIOUS
  <2>1. ASSUME UNCHANGED <<secret, answer>>
        PROVE  PasswordDecides'
    BY <2>1 DEF PasswordDecides, Carries
  <2>2. ASSUME answer'.by # "adapter"
        PROVE  PasswordDecides'
    BY <2>2 DEF PasswordDecides
  <2>3. CASE EnvRefused \/ JsonRefused \/ NotObjectRefused \/ FieldsRefused
    BY <2>1, <2>3 DEF EnvRefused, JsonRefused, NotObjectRefused,
       FieldsRefused, Refused, setup, serving
  <2>4. CASE StartsUp \/ Listens \/ Corrects
    BY <2>1, <2>4 DEF StartsUp, Listens, Corrects, deploying, setup, serving
  <2>5. CASE ShutsDown \/ Stops \/ DataArrives \/ SourceLeaves
    BY <2>2, <2>5 DEF ShutsDown, Stops, DataArrives, SourceLeaves, NoAnswer
  <2>6. CASE AnswersItself
    <3>1. answer'.by # "adapter"
      BY <2>6 DEF AnswersItself
    <3> QED
      BY <2>2, <3>1
  <2>7. CASE SourceRefused \/ SourceAccepted
    <3>1. PICK auth \in Auths : SourceArrives(auth)
      BY <2>7 DEF SourceRefused, SourceAccepted
    <3>2. secret' = secret /\ secret \in Seq(STRING) /\ auth.text \in Seq(STRING)
      BY <2>7, AuthsAssumption DEF SourceRefused, SourceAccepted, deploying, setup, TypeOK
    <3>3. answer'.code = SourceCode(auth) /\ answer'.auth = auth
      BY <3>1 DEF SourceArrives
    <3>4. SourceCode(auth) = 200 => Carries(auth, secret)
      <4> SUFFICES ASSUME SourceCode(auth) = 200
                   PROVE  Carries(auth, secret)
        OBVIOUS
      <4>1. ParseSourcePassword(auth) # <<>> /\ Head(ParseSourcePassword(auth)) = secret
        BY DEF SourceCode
      <4>2. auth.scheme = "Basic" /\ AfterColon(auth.text) = secret
        BY <4>1 DEF ParseSourcePassword
      <4> QED
        BY <3>2, <4>2, ParsesWhatIsCarried
    <3>5. SourceCode(auth) = 401 => ~Carries(auth, secret)
      <4> SUFFICES ASSUME SourceCode(auth) = 401, Carries(auth, secret)
                   PROVE  FALSE
        OBVIOUS
      <4>1. auth.scheme = "Basic"
        BY DEF Carries
      <4>2. AfterColon(auth.text) = secret
        BY <3>2, <4>1, ParsesWhatIsCarried
      <4>3. ParseSourcePassword(auth) = <<secret>>
        BY <4>1, <4>2 DEF ParseSourcePassword
      <4> QED
        BY <4>3 DEF SourceCode
    <3>6. Carries(answer.auth, secret)' <=> Carries(auth, secret)
      BY <3>2, <3>3 DEF Carries
    <3> QED
      BY <3>2, <3>3, <3>4, <3>5, <3>6 DEF PasswordDecides
  <2>8. CASE UNCHANGED vars
    BY <2>1, <2>8 DEF vars, deploying, setup, serving
  <2> QED
    BY <2>3, <2>4, <2>5, <2>6, <2>7, <2>8 DEF Next
<1> QED
  BY <1>1, <1>2, TypeCorrect, PTL DEF Spec
=============================================================================
