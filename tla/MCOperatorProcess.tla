------------------------- MODULE MCOperatorProcess -------------------------
(* Small instances of OperatorProcess for TLC. *)
EXTENDS OperatorProcess, TLC

\* The last profile names a version that no Go program knows.
MCProfiles ==
    {[min |-> "VersionTLS12", ciphers |-> {"ECDHE-RSA-AES128-GCM-SHA256", "DHE-RSA-AES128-GCM-SHA256"}],
     [min |-> "VersionTLS13", ciphers |-> {}],
     [min |-> "VersionTLS14", ciphers |-> {}]}
MCVersions == {"VersionTLS12", "VersionTLS13"}
MCCipherSuites == {"TLS_ECDHE_RSA_WITH_AES_128_GCM_SHA256"}
MCIANA == [c \in {"ECDHE-RSA-AES128-GCM-SHA256"} |-> "TLS_ECDHE_RSA_WITH_AES_128_GCM_SHA256"]

\* The cluster profile for the pods, too; the flags, valid and not.
MCFlagSets ==
    {[selectorParses |-> TRUE, clusterProfile |-> TRUE, configureOperands |-> TRUE, settings |-> NoSettings],
     [selectorParses |-> TRUE, clusterProfile |-> FALSE, configureOperands |-> FALSE,
      settings |-> [min |-> "VersionTLS13", ciphers |-> {}]],
     [selectorParses |-> TRUE, clusterProfile |-> FALSE, configureOperands |-> TRUE,
      settings |-> [min |-> "", ciphers |-> {"RC4"}]],
     [selectorParses |-> FALSE, clusterProfile |-> FALSE, configureOperands |-> TRUE,
      settings |-> NoSettings]}

Limit(limits) ==
    [m \in EnvironmentMoves |-> IF m \in DOMAIN limits THEN limits[m] ELSE 0]
MCBudgets ==
    {Limit([profile |-> 2, edit |-> 2, fault |-> 1]),
     Limit([edit |-> 4, fault |-> 1])}
=============================================================================
