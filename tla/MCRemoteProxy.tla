--------------------------- MODULE MCRemoteProxy ---------------------------
EXTENDS RemoteProxy

\* A hash without collisions
Hash == [t \in Threads |-> t]

=============================================================================
