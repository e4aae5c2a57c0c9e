----------------------------- MODULE MCRiskCases -----------------------------
EXTENDS RiskCases
=============================================================================
