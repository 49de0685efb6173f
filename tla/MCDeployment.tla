---------------------------- MODULE MCDeployment ----------------------------
(* Three migrators: one release, its successor in which an applied file was *)
(* edited and one added, and a directory with a duplicate version.  The     *)
(* environments are the default and changes of it around every limit.       *)
EXTENDS Deployment, TLC

CONSTANTS m1, m2, m3

MCMigrators == {m1, m2, m3}

MCFile(v, sum) == [sql |-> TRUE, version |-> v, checksum |-> sum]
MCReadme == [sql |-> FALSE, version |-> 0, checksum |-> "readme"]
MCDirectory ==
    m1 :> {MCFile(1, "a"), MCFile(2, "b"), MCReadme}
    @@ m2 :> {MCFile(1, "a"), MCFile(2, "edited"), MCFile(3, "c")}
    @@ m3 :> {MCFile(1, "a"), MCFile(1, "again")}

\* The order of the effects is claimed for such directories only.
ASSUME MCReleases == ReleasesOfOneHistory

MCDefault(name) ==
    [service |-> name, instance |-> "i1", httpAddr |-> "http", adminAddr |-> "admin",
     logLevel |-> "info", databaseURL |-> "url", amqpURL |-> "url", parsable |-> TRUE,
     shutdownTimeout |-> 150, publishers |-> 1, writeTimeout |-> 50, confirmTimeout |-> 50,
     maxAttempts |-> 3, initialBackoff |-> 1, maxBackoff |-> 10,
     retentionWindow |-> 168, maintenanceInterval |-> 36000, prefetch |-> 500,
     batchMax |-> 500, flushInterval |-> 1]

MCNumbers == {"shutdownTimeout", "publishers", "writeTimeout", "confirmTimeout", "maxAttempts",
              "initialBackoff", "maxBackoff", "retentionWindow", "maintenanceInterval",
              "prefetch", "batchMax", "flushInterval"}
MCTexts == {"service", "instance", "httpAddr", "adminAddr", "logLevel", "databaseURL", "amqpURL"}

MCConfigs ==
    UNION {{d} \cup {[d EXCEPT !["parsable"] = FALSE],
                     [d EXCEPT !["initialBackoff"] = 11],
                     [d EXCEPT !["initialBackoff"] = 11, !["maxBackoff"] = 0]}
               \cup {[d EXCEPT ![f] = n] : f \in MCNumbers, n \in {0, -1}}
               \cup {[d EXCEPT ![f] = t] : f \in MCTexts, t \in {"empty", "blank"}}
               : d \in {MCDefault("api"), MCDefault("worker")}}
       \cup {[MCDefault("tool") EXCEPT !["amqpURL"] = "empty"]}
=============================================================================
