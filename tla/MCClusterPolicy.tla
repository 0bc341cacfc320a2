-------------------------- MODULE MCClusterPolicy --------------------------
(* Instances of ClusterPolicy for TLC.                                     *)
EXTENDS ClusterPolicy

CONSTANTS q1, q2, w1

TwoQueues == {q1, q2}
OneWorkload == {w1}
NoneOneOrThree == {0, 1, 3}

(* Everything at once with DRA; the device plugin with other queues and a  *)
(* versioned Module; little of anything; and one from an earlier release,  *)
(* which names a queue twice.                                              *)
Everything ==
    [resourceRegistration |-> "dra", resourceMonitoring |-> TRUE,
     prometheusIntegration |-> TRUE, useNFDLabeling |-> TRUE,
     enableKueue |-> TRUE, equalResources |-> <<q1, q2>>,
     kernelModule |-> "plain", valid |-> TRUE]
Plugin ==
    [resourceRegistration |-> "dp", resourceMonitoring |-> TRUE,
     prometheusIntegration |-> FALSE, useNFDLabeling |-> TRUE,
     enableKueue |-> TRUE, equalResources |-> <<q2>>,
     kernelModule |-> "versioned", valid |-> TRUE]
Little ==
    [resourceRegistration |-> "dra", resourceMonitoring |-> FALSE,
     prometheusIntegration |-> FALSE, useNFDLabeling |-> FALSE,
     enableKueue |-> FALSE, equalResources |-> <<>>,
     kernelModule |-> "none", valid |-> TRUE]
Outdated ==
    [Little EXCEPT !.useNFDLabeling = TRUE, !.enableKueue = TRUE,
                   !.equalResources = <<q1, q1>>, !.kernelModule = "plain", !.valid = FALSE]

FourPolicies == {Everything, Plugin, Little, Outdated}
=============================================================================
