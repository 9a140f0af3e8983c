----------------------------- MODULE MCNetLoop -----------------------------
\* Instances of NetLoop.tla.  One DHCP server leases the address that the
\* environment had, the other one does not.
EXTENDS NetLoop

MCLease(s) == IF s = "d1" THEN StaticIP ELSE StaticIP + 1

Env(netretry, ethrotate, autoload, ndev, addrs) ==
    [netretry |-> netretry, ethrotate |-> ethrotate, autoload |-> autoload, ndev |-> ndev, addrs |-> addrs]

\* Two devices and a second try; one device, no retries, and dhcp loads the
\* boot file; a device without an address; one device that is tried forever.
MCEnvs == {Env(2, 1, 0, 2, {0, 1}), Env(0, 0, 1, 1, {0}), Env(2, 1, 0, 1, {}), Env(Forever, 0, 0, 1, {0})}
=============================================================================
