--------------------------- MODULE MCLeaseRenewal ---------------------------
\* Instances of LeaseRenewal for model checking.
EXTENDS LeaseRenewal
=============================================================================
