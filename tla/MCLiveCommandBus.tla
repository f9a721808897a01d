-------------------------- MODULE MCLiveCommandBus --------------------------
\* The instances of LiveCommandBus that TLC checks.
EXTENDS LiveCommandBus
=============================================================================
