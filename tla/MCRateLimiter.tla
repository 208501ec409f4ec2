--------------------------- MODULE MCRateLimiter ---------------------------
EXTENDS RateLimiter
=============================================================================
