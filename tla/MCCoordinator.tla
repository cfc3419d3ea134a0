---------------------------- MODULE MCCoordinator ----------------------------
EXTENDS Coordinator
=============================================================================
