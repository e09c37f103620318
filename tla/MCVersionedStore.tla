-------------------------- MODULE MCVersionedStore --------------------------
EXTENDS VersionedStore
=============================================================================
