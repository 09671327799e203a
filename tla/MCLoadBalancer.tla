--------------------------- MODULE MCLoadBalancer ---------------------------
EXTENDS LoadBalancer
=============================================================================
