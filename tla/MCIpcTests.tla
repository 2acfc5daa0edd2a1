----------------------------- MODULE MCIpcTests -----------------------------
EXTENDS IpcTests

AllCores   == 0 .. 3
TestRoutes == {<<0, 1>>, <<0, 2>>, <<0, 3>>, <<3, 0>>}
Payloads   == 0 .. 4 * AckStep
=============================================================================
