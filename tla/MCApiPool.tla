----------------------------- MODULE MCApiPool -----------------------------
(* Model values for ApiPool: two calling threads, two API hosts and as    *)
(* many socket identities as PSYNC_APIPOOL_MAXACTIVE allows, or one more.  *)
EXTENDS ApiPool, TLC

CONSTANTS t1, t2, a, b, k1, k2, k3

MCThreads == {t1, t2}
MCServers == {a, b}
MCSocks   == {k1, k2}
MCSocks3  == {k1, k2, k3}
=============================================================================
