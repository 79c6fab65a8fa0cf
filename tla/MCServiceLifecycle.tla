-------------------------- MODULE MCServiceLifecycle --------------------------
EXTENDS ServiceLifecycle
=============================================================================
