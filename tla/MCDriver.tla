------------------------------ MODULE MCDriver ------------------------------
EXTENDS Driver, DriverCalls

MCCalls == AllCalls
MCPrograms == AllPrograms
MCAfter == DOMAIN Again

\* The receivers only, each for itself.
MCReceivers == RxCalls
MCReceiverPrograms == ReceiverPrograms
MCNone == {}
=============================================================================
