----------------------------- MODULE MCRateAudit -----------------------------
EXTENDS RateAudit, TLC

KeySymmetry == Permutations(Keys)
=============================================================================
