------------------------- MODULE MCOutboundRuntime -------------------------
\* The module has no constants: the model is the whole of it.
EXTENDS OutboundRuntime
=============================================================================
