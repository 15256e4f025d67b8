---- MODULE MCRateLimiter ----
EXTENDS RateLimiter
====
