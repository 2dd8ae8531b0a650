---------------------------- MODULE MCVRFProvider ----------------------------
EXTENDS VRFProvider
=============================================================================
