------------------------------ MODULE SelfReceipt -------------------------------
(***************************************************************************)
(* src/src/actualSelfReceipt.ts: a receipt signed by this host that the    *)
(* server answered to a fresh probe of itself.  Its inputs are read one    *)
(* after the other: the configuration, the key, the version in             *)
(* package.json, the tools that a process started from dist/ lists.        *)
(***************************************************************************)
EXTENDS Answers

MaxTtlSeconds == 300

(* A configuration: shape is "unset", "unreadable", "malformed" (not       *)
(* exactly the fields it must have, each of its form) or "exact".          *)
ParseConfig(config) ==
    IF config.shape = "exact" /\ config.enabled /\ config.ttl \in 1..MaxTtlSeconds
    THEN Ok(config)
    ELSE Error(IF config.shape = "unset" THEN "not-configured" ELSE "refused")

CheckConfig(config) ==
    IF ParseConfig(config).ok /\ config.host # "native" THEN Error("refused")
    ELSE ParseConfig(config)

(* Digests are collision free: the key matches the pin or it does not.     *)
CheckKey(config, key) ==
    IF key.readable /\ key.digest = config.pin /\ key.type = "ed25519"
    THEN Ok(key) ELSE Error("refused")

CheckVersion(version) == IF version.valid THEN Ok(version) ELSE Error("refused")

BrokenCheckProbe(probe) == IF probe.status = "ok" THEN Ok(probe) ELSE Error("refused")

CheckProbe(probe) ==
    IF /\ probe.status = "ok" /\ probe.tools # {}
       /\ "controlcenter_actual_self_receipt" \in probe.tools
    THEN Ok(probe) ELSE Error("refused")

(* Times count from the observation, which is made after the probe.        *)
ProduceActualSelfReceipt(config, key, version, probe) ==
    [host |-> config.host, signedWith |-> key.digest,
     readback |-> [version |-> version.release, tools |-> probe.tools],
     probed |-> probe.release, expiresAfter |-> config.ttl]
================================================================================
