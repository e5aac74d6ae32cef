--------------------------- MODULE MCConfiguration ---------------------------
(* Values of the constants of Configuration for TLC.                       *)
EXTENDS Configuration

\* Files about the mode, the hosts and the ingress.
ModeFiles ==
    [target : Targets, k8s : BOOLEAN, skipForward : {FALSE}, access : {"", "ingress"},
     shared : BOOLEAN, ingest : BOOLEAN, streaming : BOOLEAN, secret : {FALSE},
     certManager : {FALSE}, registry : BOOLEAN, rebuild : {FALSE}, provider : {FALSE},
     dbHost : {"", "chart", "elsewhere"}, brokerHost : {"", "elsewhere"},
     password : {""}, mock : {FALSE}, issuer : {FALSE}, client : {FALSE}]

\* Files of a cluster about images, certificates, passwords and authentication.
ClusterFiles ==
    [target : {"k8s"}, k8s : {FALSE}, skipForward : {TRUE}, access : {"none", "ingress"},
     shared : BOOLEAN, ingest : {FALSE}, streaming : {FALSE}, secret : BOOLEAN,
     certManager : BOOLEAN, registry : BOOLEAN, rebuild : {FALSE}, provider : BOOLEAN,
     dbHost : {"", "elsewhere"}, brokerHost : {""}, password : {"", "typed"},
     mock : BOOLEAN, issuer : BOOLEAN, client : BOOLEAN]

SomeFiles == ModeFiles \cup ClusterFiles
SomeFlags == [push : BOOLEAN, rebuild : BOOLEAN, target : Targets, registry : BOOLEAN,
              noForward : BOOLEAN]
=============================================================================
