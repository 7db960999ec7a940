------------------------------ MODULE MCStaging ------------------------------
EXTENDS Staging
MCCommitted == <<<<1, 2, 3, 4, 5>>, Missing>>
=============================================================================
