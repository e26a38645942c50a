----------------------------- MODULE MCDnsSync ------------------------------
(* Module DnsSync for TLC: the two VMs of a cluster.                        *)
EXTENDS DnsSync

TwoTargets == <<"cicd-cp-1", "cicd-w-1">>

ThreeAddresses == {<<10, 0, 0, 64>>, <<10, 0, 0, 65>>, <<10, 0, 0, 66>>}

\* The CNI's address in a guest whose ens18 has none yet.
PodAddress == {<<10, 42, 0, 1>>}

\* DEFAULT_REVERSE_ZONE.
DefaultZone == <<"10", "in-addr", "arpa">>

=============================================================================
