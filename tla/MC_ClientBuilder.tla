-------------------------- MODULE MC_ClientBuilder --------------------------
EXTENDS ClientBuilder

\* Every combination of present and missing config fields is an initial
\* state; the constants choose the logger and whether calls may fail.
=============================================================================
