------------------------- MODULE ShimStartupProofs -------------------------
(***************************************************************************)
(* The start of the shim, for any number of keys that the configuration    *)
(* lacks: main reads each position of the slice as what it is, panics on   *)
(* an index only if the slice is nil, and leaves the retry loop by the     *)
(* clock.                                                                  *)
(***************************************************************************)
EXTENDS ShimStartup, TLAPS

Words == Keys \cup {"", "true", "false", "other"}

\* What does not change once the file is read.
FileInv ==
    /\ file \subseteq Keys
    /\ bridgeFlag \in {"true", "false", "other"}
    /\ ros2Path \in {"ROS2_PATH", ""}

\* The slice is nil or what ReadConfigFile returned, and the clock counts the
\* failures.
StartInv ==
    /\ TypeOK
    /\ FileInv
    /\ config = <<>> \/ config = Result
    /\ GivesUpOnTime
    /\ PanicsOnlyOnNil

Points == {"start", "read", "logging", "certificates", "address", "dial",
           "hostname", "register", "port", "noport", "configured",
           "initialised", "serve", "serving", "exited", "panicked"}

\* main's config[13] is there unless the slice is nil, and so are config[14] and
\* config[15] if the flag makes main read them.
IndexesExist ==
    /\ Len(config) < 14 => config = <<>>
    /\ WantsBridge /\ Len(config) < 16 => config = <<>>

\* What every step does but the one that reads the file and a dial that fails.
Moves ==
    /\ UNCHANGED <<config, clock, retryCount>>
    /\ controller' \in BOOLEAN
    /\ bridge' \in BOOLEAN
    /\ pc' \in Points
    /\ pc' = "panicked" => pc = "panicked" \/ config = <<>>

\* The required keys, element by element.
LEMMA RequiredKeys ==
    /\ DOMAIN Required = 1 .. 13
    /\ \A i \in 1 .. 13 : Required[i] \in Keys
  <1>1. DOMAIN Required = 1 .. 13
    BY DEF Required
  <1>2. \A i \in 1 .. 13 : Required[i] \in Range(Required)
    BY <1>1 DEF Range
  <1>3. QED
    BY <1>1, <1>2 DEF Keys

\* Every value is a key, a flag or nothing.
LEMMA ValueIsWord ==
    ASSUME FileInv, NEW key \in Keys
    PROVE  Value(key) \in Words
  BY DEF FileInv, Value, Words, Keys

\* The values of the required keys, each at its key's place.
LEMMA RequiredValues ==
    ASSUME FileInv
    PROVE  /\ Values(Required) \in Seq(Words)
           /\ Len(Values(Required)) = 13
           /\ \A i \in 1 .. 13 : Values(Required)[i] = Value(Required[i])
  <1>1. DOMAIN Required = 1 .. 13 /\ \A i \in 1 .. 13 : Required[i] \in Keys
    BY RequiredKeys
  <1>2. Values(Required) = [i \in 1 .. 13 |-> Value(Required[i])]
    BY <1>1 DEF Values
  <1>3. \A i \in 1 .. 13 : Value(Required[i]) \in Words
    BY <1>1, ValueIsWord
  <1>4. QED
    BY <1>2, <1>3

\* main's positions are those of the required keys, then the bridge's.
LEMMA Positions ==
    /\ Len(MainReads) = 16
    /\ \A i \in 1 .. 13 : MainReads[i] = Required[i]
    /\ MainReads[14] = "DDS_BRIDGE"
    /\ MainReads[15] = "TOPIC"
    /\ MainReads[16] = "ENDPOINT"
  BY DEF MainReads, Required

\* What is appended to the required values: one value, or three.
LEMMA LastPart ==
    /\ \A S, a : a \in S => /\ <<a>> \in Seq(S) /\ Len(<<a>>) = 1
                            /\ \A i \in 1 .. 1 : <<a>>[i] = a
    /\ \A S, a, b, c : a \in S /\ b \in S /\ c \in S =>
          /\ <<a, b, c>> \in Seq(S) /\ Len(<<a, b, c>>) = 3
          /\ <<a, b, c>>[1] = a /\ <<a, b, c>>[2] = b /\ <<a, b, c>>[3] = c
  OBVIOUS

\* What main wants at each position.
Wanted == [i \in 1 .. 16 |-> Value(MainReads[i])]

\* What ReadConfigFile returns has every value at the place where main looks for
\* it, and the bridge's arguments if the flag says that they are read.
LEMMA ResultFits ==
    ASSUME FileInv
    PROVE  /\ Result \in Seq(Words)
           /\ Len(Result) \in {0, 14, 16}
           /\ \A i \in 1 .. Len(Result) : Result[i] = Wanted[i]
           /\ Len(Result) = 14 => Wanted[14] = "false"
           /\ Len(Result) = 0 => Result = <<>>
  <1> DEFINE r == Values(Required)
  <1>1. r \in Seq(Words) /\ Len(r) = 13 /\ \A i \in 1 .. 13 : r[i] = Wanted[i]
    BY RequiredValues, Positions DEF Wanted
  <1>2. /\ Wanted[14] = Value("DDS_BRIDGE")
        /\ Wanted[15] = "TOPIC" /\ Wanted[16] = "ENDPOINT"
    <2>1. Value("TOPIC") = "TOPIC" /\ Value("ENDPOINT") = "ENDPOINT"
      BY DEF Value
    <2>2. QED
      BY <2>1, Positions DEF Wanted
  <1>3. bridgeFlag \in Words /\ {"false", "TOPIC", "ENDPOINT"} \subseteq Words
    BY DEF FileInv, Words, Keys
  <1>4. \/ Result = <<>>
        \/ Result = r \o <<"false">> /\ "DDS_BRIDGE" \notin file
        \/ Result = r \o <<bridgeFlag, "TOPIC", "ENDPOINT">> /\ "DDS_BRIDGE" \in file
    BY DEF Result
  <1> HIDE DEF r
  <1>5. CASE Result = <<>>
    BY <1>5
  <1>6. CASE Result = r \o <<"false">> /\ "DDS_BRIDGE" \notin file
    <2>1. Wanted[14] = "false"
      BY <1>2, <1>6 DEF Value
    <2> DEFINE t == <<"false">>
    <2>2. t \in Seq(Words) /\ Len(t) = 1 /\ \A i \in 1 .. 1 : t[i] = "false"
      BY <1>3, LastPart
    <2>3. Result = r \o t
      BY <1>6
    <2> HIDE DEF t
    <2>4. \A i \in 1 .. 1 : t[i] = Wanted[13 + i]
      BY <2>1, <2>2
    <2>5. r \in Seq(Words) /\ t \in Seq(Words)
      BY <1>1, <2>2
    <2>6. /\ r \o t \in Seq(Words)
          /\ Len(r \o t) = Len(r) + Len(t)
      BY <2>5
    <2>7. /\ \A i \in 1 .. Len(r) : (r \o t)[i] = r[i]
          /\ \A i \in 1 .. Len(t) : (r \o t)[Len(r) + i] = t[i]
      BY <2>5
    <2>8. /\ Result \in Seq(Words) /\ Len(Result) = 13 + 1
          /\ \A i \in 1 .. 13 : Result[i] = Wanted[i]
          /\ \A i \in 1 .. 1 : Result[13 + i] = Wanted[13 + i]
      BY <1>1, <2>2, <2>3, <2>4, <2>6, <2>7, Zenon
    <2>9. \A i \in 1 .. 13 + 1 : Result[i] = Wanted[i]
      <3>1. \A i \in 1 .. 13 + 1 : i \in 1 .. 13 \/ i = 13 + 1
        OBVIOUS
      <3>2. Result[13 + 1] = Wanted[13 + 1]
        BY <2>8
      <3>3. QED
        BY <2>8, <3>1, <3>2, Zenon
    <2>10. QED
      BY <2>1, <2>8, <2>9
  <1>7. CASE Result = r \o <<bridgeFlag, "TOPIC", "ENDPOINT">> /\ "DDS_BRIDGE" \in file
    <2>1. Wanted[14] = bridgeFlag
      BY <1>2, <1>7 DEF Value
    <2> DEFINE t == <<bridgeFlag, "TOPIC", "ENDPOINT">>
    <2>2. /\ t \in Seq(Words) /\ Len(t) = 3
          /\ t[1] = bridgeFlag /\ t[2] = "TOPIC" /\ t[3] = "ENDPOINT"
      BY <1>3, LastPart
    <2>3. Result = r \o t
      BY <1>7
    <2>4. \A i \in 1 .. 3 : t[i] = Wanted[13 + i]
      BY <1>2, <2>1, <2>2
    <2> HIDE DEF t
    <2>5. r \in Seq(Words) /\ t \in Seq(Words)
      BY <1>1, <2>2
    <2>6. /\ r \o t \in Seq(Words)
          /\ Len(r \o t) = Len(r) + Len(t)
      BY <2>5
    <2>7. /\ \A i \in 1 .. Len(r) : (r \o t)[i] = r[i]
          /\ \A i \in 1 .. Len(t) : (r \o t)[Len(r) + i] = t[i]
      BY <2>5
    <2>8. /\ Result \in Seq(Words) /\ Len(Result) = 13 + 3
          /\ \A i \in 1 .. 13 : Result[i] = Wanted[i]
          /\ \A i \in 1 .. 3 : Result[13 + i] = Wanted[13 + i]
      BY <1>1, <2>2, <2>3, <2>4, <2>6, <2>7, Zenon
    <2>9. \A i \in 1 .. 13 + 3 : Result[i] = Wanted[i]
      <3>1. ASSUME NEW i \in 1 .. 13 + 3 PROVE Result[i] = Wanted[i]
        <4>1. CASE i \in 1 .. 13
          BY <2>8, <4>1, Zenon
        <4>2. CASE i \in {14, 15, 16}
          <5>1. \A j \in 1 .. 3 : Result[13 + j] = Wanted[13 + j]
            BY <2>8, Zenon
          <5>2. PICK j \in 1 .. 3 : i = 13 + j
            BY <4>2
          <5>3. QED
            BY <5>1, <5>2, Zenon
        <4>3. QED
          BY <4>1, <4>2
      <3>2. QED
        BY <3>1
    <2>10. QED
      BY <2>8, <2>9
  <1>8. QED
    BY <1>4, <1>5, <1>6, <1>7

\* main's positions hold what main takes them for.
LEMMA MainFits ==
    ASSUME FileInv, config = Result
    PROVE  PositionsAgree /\ IndexesExist
  <1>1. /\ Len(config) \in {0, 14, 16}
        /\ \A i \in 1 .. Len(config) : config[i] = Wanted[i]
        /\ Len(config) = 14 => Wanted[14] = "false"
        /\ Len(config) = 0 => config = <<>>
    BY ResultFits, Zenon
  <1>2. PositionsAgree
    <2>1. ASSUME NEW i \in 1 .. Len(config) PROVE config[i] = Value(MainReads[i])
      <3>1. i \in 1 .. 16
        <4>1. CASE Len(config) = 14
          BY <4>1
        <4>2. CASE Len(config) = 16
          BY <4>2
        <4>3. CASE Len(config) = 0
          BY <4>3
        <4>4. QED
          BY <1>1, <4>1, <4>2, <4>3
      <3>2. Wanted[i] = Value(MainReads[i])
        BY <3>1 DEF Wanted
      <3>3. QED
        BY <1>1, <3>2
    <2>2. QED
      BY <2>1 DEF PositionsAgree
  <1>3. ASSUME config # <<>>
        PROVE  Len(config) \in {14, 16} /\ (config[14] = "true" => Len(config) = 16)
    <2>1. CASE Len(config) = 14
      <3>1. 14 \in 1 .. Len(config)
        BY <2>1
      <3>2. config[14] = "false"
        BY <1>1, <2>1, <3>1, Zenon
      <3>3. QED
        BY <2>1, <3>2
    <2>2. CASE Len(config) = 16
      BY <2>2
    <2>3. QED
      BY <1>1, <1>3, <2>1, <2>2
  <1>4. QED
    <2>1. Len(config) < 14 => config = <<>>
      BY <1>3
    <2>2. WantsBridge /\ Len(config) < 16 => config = <<>>
      <3>1. config # <<>> /\ WantsBridge => Len(config) = 16
        BY <1>3, Zenon DEF WantsBridge
      <3>2. Len(config) = 16 => ~(Len(config) < 16)
        OBVIOUS
      <3>3. QED
        BY <3>1, <3>2, Zenon
    <2>3. QED
      BY <1>2, <2>1, <2>2 DEF IndexesExist

\* Nothing is read from a slice that is nil.
LEMMA NilFits ==
    ASSUME config = <<>>
    PROVE  PositionsAgree /\ IndexesExist
  BY DEF PositionsAgree, IndexesExist

\* The initial states.
LEMMA StartInit == ASSUME Init PROVE StartInv
  <1>1. file \subseteq Keys
    BY DEF Init
  <1>2. <<>> \in Seq(Keys \cup {"", "true", "false", "other"})
    OBVIOUS
  <1>3. /\ clock = 0 /\ retryCount = 0 /\ config = <<>> /\ pc = "start"
        /\ controller \in BOOLEAN /\ bridge = FALSE
    BY DEF Init
  <1>4. 0 \in 0 .. MaxRetryDuration /\ 0 \in 0 .. MaxRetries - 1 /\ 0 = 0 * RetryPause
    BY DEF MaxRetryDuration, MaxRetries, RetryPause
  <1>5. FileInv
    BY <1>1 DEF Init, FileInv
  <1>6. QED
    BY <1>1, <1>2, <1>3, <1>4, <1>5
       DEF StartInv, TypeOK, GivesUpOnTime, PanicsOnlyOnNil

\* Eight failures fill the eight minutes, so a dial that fails in time is one of
\* the first eight, and the count does not start again.
LEMMA FailureCounts ==
    ASSUME TypeOK, GivesUpOnTime, DialFails
    PROVE  /\ retryCount' = retryCount + 1
           /\ retryCount' \in 0 .. MaxRetries - 1
           /\ clock' = retryCount' * RetryPause
           /\ clock' \in 0 .. MaxRetryDuration
  <1>1. retryCount \in Nat /\ clock = retryCount * 60 /\ clock < 480
    <2>1. retryCount \in Nat
      <3>1. retryCount \in 0 .. MaxRetries - 1
        BY DEF TypeOK
      <3>2. QED
        BY <3>1 DEF MaxRetries
    <2>2. clock < 480
      BY DEF DialFails, InTime, MaxRetryDuration
    <2>3. QED
      BY <2>1, <2>2 DEF GivesUpOnTime, RetryPause
  <1>2. retryCount < 8
    BY <1>1
  <1>3. retryCount' = retryCount + 1 /\ clock' = clock + 60
    BY <1>1, <1>2 DEF DialFails, MaxRetries, RetryPause
  <1>4. QED
    BY <1>1, <1>2, <1>3 DEF RetryPause, MaxRetries, MaxRetryDuration

\* Nothing but the file decides what ReadConfigFile returns.
LEMMA ResultStays ==
    ASSUME UNCHANGED <<file, bridgeFlag, ros2Path>>
    PROVE  Result' = Result
  BY DEF Result, Values, Value

\* Every step keeps the invariant.
LEMMA StartStep == ASSUME StartInv, [Next]_vars PROVE StartInv'
  <1>1. UNCHANGED <<file, bridgeFlag, ros2Path>>
    BY DEF Next, Step, vars, allButPc, ReadConfigFile, IndexPanic, InitLogFile,
           CheckRos2Path, LoadCertificates, SplitHostPort, Dial, DialFails, GiveUp,
           GetHostname, Register, CheckPort, InitNodeInfo, StartBridge, Serve,
           ControllerChanges
  <1>2. FileInv' /\ file' \subseteq Keys
    BY <1>1 DEF StartInv, FileInv
  <1>3. Result' = Result
    BY <1>1, ResultStays
  <1>4. CASE ReadConfigFile
    <2>1. config' = Result /\ Result \in Seq(Words)
      BY <1>4, ResultFits DEF ReadConfigFile, StartInv
    <2>2. config' \in Seq(Keys \cup {"", "true", "false", "other"})
      BY <2>1 DEF Words
    <2>3. UNCHANGED <<clock, retryCount, controller, bridge>> /\ pc' = "read"
      BY <1>4 DEF ReadConfigFile
    <2>4. QED
      BY <1>2, <1>3, <2>1, <2>2, <2>3 DEF StartInv, TypeOK, GivesUpOnTime,
                                          PanicsOnlyOnNil
  <1>5. CASE DialFails
    <2>1. UNCHANGED <<config, controller, bridge, pc>>
      BY <1>5 DEF DialFails
    <2>2. /\ retryCount' \in 0 .. MaxRetries - 1
          /\ clock' \in 0 .. MaxRetryDuration
          /\ clock' = retryCount' * RetryPause
      BY <1>5, FailureCounts DEF StartInv
    <2>3. GivesUpOnTime'
      BY <2>2 DEF GivesUpOnTime, RetryPause
    <2>4. TypeOK'
      BY <1>2, <2>1, <2>2 DEF StartInv, TypeOK, MaxRetries, MaxRetryDuration
    <2>5. QED
      BY <1>2, <1>3, <2>1, <2>3, <2>4 DEF StartInv, PanicsOnlyOnNil
  <1>6. StartInv /\ Moves => StartInv'
    BY <1>2, <1>3 DEF StartInv, Moves, TypeOK, GivesUpOnTime, PanicsOnlyOnNil,
                      Points
  <1>exist. IndexesExist
    BY MainFits, NilFits DEF StartInv
  <1>7. CASE IndexPanic \/ InitLogFile \/ CheckRos2Path \/ LoadCertificates
    BY <1>6, <1>7, <1>exist DEF IndexesExist, IndexPanic, InitLogFile, CheckRos2Path, LoadCertificates,
                      allButPc, Moves, Points, StartInv, TypeOK
  <1>8. CASE SplitHostPort \/ Dial \/ GiveUp \/ GetHostname
    BY <1>6, <1>8 DEF SplitHostPort, Dial, GiveUp, GetHostname, allButPc, Moves,
                      Points, StartInv, TypeOK
  <1>9. CASE Register \/ CheckPort \/ InitNodeInfo \/ Serve
    BY <1>6, <1>9 DEF Register, CheckPort, InitNodeInfo, Serve, allButPc, Moves,
                      Points, StartInv, TypeOK
  <1>10. CASE StartBridge
    BY <1>6, <1>10, <1>exist DEF IndexesExist, StartBridge, Moves, Points, StartInv, TypeOK
  <1>11. CASE ControllerChanges
    BY <1>6, <1>11 DEF ControllerChanges, Moves, Points, StartInv, TypeOK
  <1>12. CASE UNCHANGED vars
    BY <1>6, <1>12 DEF vars, Moves, Points, StartInv, TypeOK
  <1>13. QED
    BY <1>4, <1>5, <1>7, <1>8, <1>9, <1>10, <1>11, <1>12 DEF Next, Step

\* The invariant of every behaviour.
LEMMA StartAlways == Spec => []StartInv
  <1>1. Init => StartInv
    BY StartInit
  <1>2. StartInv /\ [Next]_vars => StartInv'
    BY StartStep
  <1>3. QED
    BY <1>1, <1>2, PTL DEF Spec

\* Types, and bounds of the clock and of the count.
THEOREM TypeCorrect == Spec => []TypeOK
  <1>1. StartInv => TypeOK
    BY DEF StartInv
  <1>2. QED
    BY <1>1, StartAlways, PTL

\* Whatever the file lacks, main takes no value of the slice for that of another
\* key.
THEOREM PositionsAgreeAlways == Spec => []PositionsAgree
  <1>1. StartInv => PositionsAgree
    BY MainFits, NilFits DEF StartInv
  <1>2. QED
    BY <1>1, StartAlways, PTL

\* Whatever the file lacks, the nil slice is the only one on which main panics.
THEOREM PanicsOnlyOnNilAlways == Spec => []PanicsOnlyOnNil
  <1>1. StartInv => PanicsOnlyOnNil
    BY DEF StartInv
  <1>2. QED
    BY <1>1, StartAlways, PTL

\* The clock is a minute per failure, so the loop is left after eight of them and
\* the pause of ten minutes is never made.
THEOREM GivesUpOnTimeAlways == Spec => []GivesUpOnTime
  <1>1. StartInv => GivesUpOnTime
    BY DEF StartInv
  <1>2. QED
    BY <1>1, StartAlways, PTL
=============================================================================
