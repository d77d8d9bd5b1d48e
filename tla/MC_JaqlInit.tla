------------------------------ MODULE MC_JaqlInit ------------------------------
\* The installations of MC_EnvConfig under the constructor of a Jaql object.
EXTENDS MC_EnvConfig, JaqlInit
=============================================================================
