----------------------------- MODULE MCLicensing -----------------------------
EXTENDS Licensing, TLC
=============================================================================
