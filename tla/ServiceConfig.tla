---------------------------- MODULE ServiceConfig ----------------------------
(***************************************************************************)
(* The checks on the configuration: config.Load, which every process runs  *)
(* first, and those of the constructors the two services call later.       *)
(*                                                                         *)
(* A text is "empty", "blank" (white space) or a word; numbers and         *)
(* durations are integers, durations in units of one default back-off.     *)
(***************************************************************************)
EXTENDS Integers

\* defaultRetentionWindow, in hours.
RetentionHours == 168

\* config.Config; parsable: every number and duration of the environment can
\* be read.
Config == [service : STRING, instance : STRING, httpAddr : STRING, adminAddr : STRING,
           logLevel : STRING, databaseURL : STRING, amqpURL : STRING, parsable : BOOLEAN,
           shutdownTimeout : Int, publishers : Int, writeTimeout : Int, confirmTimeout : Int,
           maxAttempts : Int, initialBackoff : Int, maxBackoff : Int, retentionWindow : Int,
           maintenanceInterval : Int, prefetch : Int, batchMax : Int, flushInterval : Int]

Blank(text) == text \in {"empty", "blank"}

\* Mutant: the worker's broker address is not checked.
BugRequiresAMQP(service) == service = "api"

RequiresAMQP(service) == service \in {"api", "worker"}
RequiresDatabase(service) == service \in {"api", "worker"}

Validate(c) ==
    /\ \A f \in {"service", "instance", "httpAddr", "adminAddr"} : ~Blank(c[f])
    /\ RequiresAMQP(c.service) => ~Blank(c.amqpURL)
    /\ RequiresDatabase(c.service) => ~Blank(c.databaseURL)
    /\ \A f \in {"shutdownTimeout", "publishers", "writeTimeout", "confirmTimeout",
                 "maxAttempts", "initialBackoff", "maintenanceInterval", "prefetch",
                 "batchMax", "flushInterval"} : c[f] > 0
    /\ c.maxBackoff >= c.initialBackoff
    /\ c.retentionWindow = RetentionHours
    /\ c.logLevel \in {"debug", "info", "warn", "error"}

Load(c) == c.parsable /\ Validate(c)

\* withDefaults: a zero is replaced, here by the default's value in units.
OrDefault(value, default) == IF value = 0 THEN default ELSE value

\* PublisherConfig.withDefaults and validate.
PublisherAccepts(c) ==
    /\ c.amqpURL # "empty"
    /\ \A f \in {"publishers", "writeTimeout", "confirmTimeout", "maxAttempts"} :
            OrDefault(c[f], 1) > 0
    /\ OrDefault(c.initialBackoff, 1) > 0
    /\ OrDefault(c.maxBackoff, 10) >= OrDefault(c.initialBackoff, 1)

\* NewRabbitMQMetricEventBridge; its delays are always the defaults.
BridgeAccepts(c) == c.amqpURL # "empty" /\ c.instance # "empty"

\* ConsumerConfig.withDefaults and validate; the delays are the defaults.
ConsumerAccepts(c) ==
    /\ c.amqpURL # "empty"
    /\ \A f \in {"prefetch", "batchMax", "flushInterval", "shutdownTimeout"} :
            OrDefault(c[f], 1) > 0

\* NewRabbitMQMetricEventPublisher
EventPublisherAccepts(c) == c.amqpURL # "empty"

\* The first lines of RunPartitionMaintenance.
MaintenanceAccepts(c) == c.retentionWindow > 0 /\ c.maintenanceInterval > 0

\* The checks that a service runs after Load.
ConstructorsAccept(service, c) ==
    IF service = "api"
    THEN BridgeAccepts(c) /\ PublisherAccepts(c)
    ELSE EventPublisherAccepts(c) /\ ConsumerAccepts(c) /\ MaintenanceAccepts(c)
=============================================================================
