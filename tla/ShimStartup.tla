---------------------------- MODULE ShimStartup ----------------------------
(***************************************************************************)
(* The shim from the start of main to the point where its gRPC server      *)
(* listens: read the configuration file (src/utility/fileHandler.go and    *)
(* src/connection/shimHandler.go), ask the controller for a port           *)
(* (src/certificate-client/certificateInit.go), start the DDS bridge and   *)
(* the server (src/main.go).                                               *)
(*                                                                         *)
(* The file is data: which of the sixteen keys have a usable line, and     *)
(* what the two flags say.  Certificates, the log file and the listener    *)
(* are environment: each may be unusable, which ends the process.  Time is *)
(* counted in seconds, with the code's own constants.                      *)
(***************************************************************************)
EXTENDS Naturals, SequencesExt

CONSTANTS
    MaxMissing     \* bound: keys the file lacks

ASSUME MissingAssumption == MaxMissing \in Nat

\* The keys in the order in which RosNodeInfo.ReadConfigFile looks for them.
Required == <<"ROS2_PATH", "ROOT_PATH", "LOG_PATH", "ROS_LOG_PATH", "CA_PEM",
              "CA_CLIENT_CERT", "CA_CLIENT_KEY", "CA_SERVER_CERT",
              "CA_SERVER_KEY", "NODE_PORT_DNS", "SECRET", "SECRET_KEY", "POWER">>
Keys == Range(Required) \cup {"DDS_BRIDGE", "TOPIC", "ENDPOINT"}

\* What main takes each element of the result to be (config[0] is element 1).
MainReads == <<"ROS2_PATH", "ROOT_PATH", "LOG_PATH", "ROS_LOG_PATH", "CA_PEM",
               "CA_CLIENT_CERT", "CA_CLIENT_KEY", "CA_SERVER_CERT",
               "CA_SERVER_KEY", "NODE_PORT_DNS", "SECRET", "SECRET_KEY", "POWER",
               "DDS_BRIDGE", "TOPIC", "ENDPOINT">>

\* The pause between two dials, and the end of the loop.
RetryPauseHalf == 30      \* broken variant: the tenth failure comes in time
RetryPause == 60
MaxRetryDuration == 480
ConnectionTimeout == 600
MaxRetries == 10

VARIABLES
    file,         \* keys that have a line with exactly one '='
    bridgeFlag,   \* what DDS_BRIDGE says, if it is there
    ros2Path,     \* what ROS2_PATH says, if it is there: a path or nothing
    config,       \* the slice ReadConfigFile returns, <<>> for nil
    clock,        \* seconds since SetUpCertificate was entered
    retryCount,
    controller,   \* does the controller answer
    bridge,       \* does the DDS bridge run
    pc

vars == <<file, bridgeFlag, ros2Path, config, clock, retryCount, controller,
          bridge, pc>>

allButPc == <<file, bridgeFlag, ros2Path, config, clock, retryCount, controller,
              bridge>>

Init ==
    /\ file \in {Keys \ missing : missing \in
                    UNION {kSubset(n, Keys) : n \in 0 .. MaxMissing}}
    /\ bridgeFlag \in {"true", "false", "other"}
    /\ ros2Path \in {"ROS2_PATH", ""}
    /\ config = <<>>
    /\ clock = 0
    /\ retryCount = 0
    /\ controller \in BOOLEAN
    /\ bridge = FALSE
    /\ pc = "start"

-----------------------------------------------------------------------------
(***************************************************************************)
(* The configuration.  The value of a key is written as the key itself,    *)
(* except for the flag and for the path of ROS 2, which may be empty.      *)
(***************************************************************************)
Value(key) ==
    CASE key = "ROS2_PATH"                       -> ros2Path
      [] key = "DDS_BRIDGE" /\ key \in file    -> bridgeFlag
      [] key = "DDS_BRIDGE" /\ key \notin file -> "false"
      [] OTHER                                   -> key

\* The values of keys, in order.
Values(keys) == [i \in DOMAIN keys |-> Value(keys[i])]

\* Broken variant: an endpoint that is not there is passed over.
ResultNoEndpoint ==
    CASE ~(Range(Required) \subseteq file)   -> <<>>
      [] "DDS_BRIDGE" \notin file            -> Values(Required) \o <<"false">>
      [] "TOPIC" \notin file                 -> <<>>
      [] "ENDPOINT" \notin file              -> Values(Required) \o <<bridgeFlag, "TOPIC">>
      [] OTHER -> Values(Required) \o <<bridgeFlag, "TOPIC", "ENDPOINT">>

\* Broken variant: a key that is not there leaves no gap.
ResultNoGaps ==
    Values(SelectSeq(Required, LAMBDA key : key \in file))
        \o <<IF "DDS_BRIDGE" \in file THEN bridgeFlag ELSE "false">>
        \o SelectSeq(<<"TOPIC", "ENDPOINT">>, LAMBDA key : key \in file)

\* RosNodeInfo.ReadConfigFile: nil as soon as a key is missing; the bridge's two
\* arguments are only looked for if DDS_BRIDGE is there, whatever it says.
Result ==
    CASE ~(Range(Required) \subseteq file)   -> <<>>
      [] "DDS_BRIDGE" \notin file            -> Values(Required) \o <<"false">>
      [] ~({"TOPIC", "ENDPOINT"} \subseteq file) -> <<>>
      [] OTHER -> Values(Required) \o <<bridgeFlag, "TOPIC", "ENDPOINT">>

ReadConfigFile ==
    /\ pc = "start"
    /\ config' = Result
    /\ pc' = "read"
    /\ UNCHANGED <<file, bridgeFlag, ros2Path, clock, retryCount, controller, bridge>>

\* main reads config[0] .. config[13] without looking at the error or at the
\* length; an index that is not there is a panic.
IndexPanic ==
    /\ pc = "read"
    /\ Len(config) < 14
    /\ pc' = "panicked"
    /\ UNCHANGED allButPc

\* The file for the shim's own log is created, or log.Fatalf.
InitLogFile ==
    /\ pc = "read"
    /\ Len(config) >= 14
    /\ pc' \in {"logging", "exited"}
    /\ UNCHANGED allButPc

\* A line "ROS2_PATH =" counts as a line with a value.
CheckRos2Path ==
    /\ pc = "logging"
    /\ pc' = IF config[1] = "" THEN "exited" ELSE "certificates"
    /\ UNCHANGED allButPc

\* The certificate of the CA and the client's key pair can be read and used, or
\* log.Fatalf.
LoadCertificates ==
    /\ pc = "certificates"
    /\ pc' \in {"address", "exited"}
    /\ UNCHANGED allButPc

\* NODE_PORT_DNS has one colon, or log.Fatalf.
SplitHostPort ==
    /\ pc = "address"
    /\ pc' \in {"dial", "exited"}
    /\ UNCHANGED allButPc

-----------------------------------------------------------------------------
(***************************************************************************)
(* SetUpCertificate.  grpc.DialContext is called without WithBlock and may *)
(* succeed or fail: what it makes of the address, and of the context of    *)
(* ten seconds that all attempts share, is the library's affair.           *)
(***************************************************************************)
InTime == pc = "dial" /\ clock < MaxRetryDuration

Dial ==
    /\ InTime
    /\ pc' = "hostname"
    /\ UNCHANGED allButPc

\* Broken variant: startTime is taken again before each attempt.
DialFailsRestarts ==
    /\ InTime
    /\ retryCount' = IF retryCount + 1 < MaxRetries THEN retryCount + 1 ELSE 0
    /\ clock' = 0
    /\ UNCHANGED <<file, bridgeFlag, ros2Path, config, controller, bridge, pc>>

DialFails ==
    /\ InTime
    /\ IF retryCount + 1 < MaxRetries
       THEN /\ retryCount' = retryCount + 1
            /\ clock' = clock + RetryPause
       ELSE /\ retryCount' = 0
            /\ clock' = clock + ConnectionTimeout
    /\ UNCHANGED <<file, bridgeFlag, ros2Path, config, controller, bridge, pc>>

\* "Failed to connect within the maximum retry duration": no port, main returns.
GiveUp ==
    /\ pc = "dial"
    /\ clock >= MaxRetryDuration
    /\ pc' = "exited"
    /\ UNCHANGED allButPc

\* The host name goes into the request, or log.Fatalf; that avahi does not run
\* or the name is not known is only logged.
GetHostname ==
    /\ pc = "hostname"
    /\ pc' \in {"register", "exited"}
    /\ UNCHANGED allButPc

\* Without a reply log.Fatalf; a reply has a port, an empty one, or no success,
\* which counts as an empty port.
Register ==
    /\ pc = "register"
    /\ pc' \in IF controller THEN {"port", "noport"} ELSE {"exited"}
    /\ UNCHANGED allButPc

\* main returns without a port.
CheckPort ==
    /\ pc \in {"port", "noport"}
    /\ pc' = IF pc = "port" THEN "configured" ELSE "exited"
    /\ UNCHANGED allButPc

-----------------------------------------------------------------------------
\* What POWER says counts as false if it does not parse; the server gets its
\* data and empty maps.
InitNodeInfo ==
    /\ pc = "configured"
    /\ pc' = "initialised"
    /\ UNCHANGED allButPc

\* config[13] is true, so main reads config[14] and config[15].
WantsBridge == config[14] = "true"

\* StartPythonBridge; that it cannot be started does not stop the shim.
StartBridge ==
    /\ pc = "initialised"
    /\ bridge' \in IF WantsBridge /\ Len(config) >= 16 THEN BOOLEAN ELSE {FALSE}
    /\ pc' = IF WantsBridge /\ Len(config) < 16 THEN "panicked" ELSE "serve"
    /\ UNCHANGED <<file, bridgeFlag, ros2Path, config, clock, retryCount, controller>>

\* StartGrpcCommunication: the port can be used, or the function returns.
Serve ==
    /\ pc = "serve"
    /\ pc' \in {"serving", "exited"}
    /\ UNCHANGED allButPc

ControllerChanges ==
    /\ pc \in {"dial", "hostname", "register"}
    /\ controller' = ~controller
    /\ UNCHANGED <<file, bridgeFlag, ros2Path, config, clock, retryCount, bridge, pc>>

\* What the shim does by itself.  Not the call of Register: it has no deadline.
Step ==
    \/ ReadConfigFile \/ IndexPanic \/ InitLogFile \/ CheckRos2Path
    \/ LoadCertificates \/ SplitHostPort
    \/ Dial \/ DialFails \/ GiveUp \/ GetHostname \/ CheckPort
    \/ InitNodeInfo \/ StartBridge \/ Serve

Next == Step \/ Register \/ ControllerChanges

Spec == Init /\ [][Next]_vars

FairSpec == Spec /\ WF_vars(Step)

-----------------------------------------------------------------------------
(***************************************************************************)
(* Properties.                                                             *)
(***************************************************************************)
TypeOK ==
    /\ file \subseteq Keys
    /\ config \in Seq(Keys \cup {"", "true", "false", "other"})
    /\ clock \in 0 .. MaxRetryDuration
    /\ retryCount \in 0 .. MaxRetries - 1
    /\ controller \in BOOLEAN
    /\ bridge \in BOOLEAN
    /\ pc \in {"start", "read", "logging", "certificates", "address", "dial",
              "hostname", "register", "port", "noport", "configured",
              "initialised", "serve", "serving", "exited", "panicked"}

\* main reads the slice by position, ReadConfigFile fills it by appending: what
\* main takes for a key is the value of that key, whichever keys the file lacks.
PositionsAgree ==
    \A i \in 1 .. Len(config) : config[i] = Value(MainReads[i])

\* An index of main is out of range only if ReadConfigFile returned nil, which is
\* main's very first index: no slice that it fills is too short for main, neither
\* for the fourteen that are always read nor for the two that the flag asks for
\* after the port has been given.
PanicsOnlyOnNil == pc = "panicked" => config = <<>>

\* The loop is left by the clock and never by the count: eight pauses of a
\* minute fill the eight minutes, so the pause of ten minutes at the tenth
\* failure does not happen and the process gives up after exactly that time.
GivesUpOnTime == clock = retryCount * RetryPause

\* The shim does not dial for ever, although every attempt may fail, nobody else
\* ends the loop, and the count that is kept in it starts again from zero.
DialingEnds == pc = "dial" ~> pc # "dial"
=============================================================================
