---------------------------- MODULE MCDealFeed ----------------------------
\* DealFeed on a small instance, for TLC: the first provider is not configured.
EXTENDS DealFeed, TLC

MCConfigured == <<FALSE, TRUE, TRUE>>
============================================================================
