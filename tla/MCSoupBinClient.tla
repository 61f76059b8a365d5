----------------------------- MODULE MCSoupBinClient -----------------------------
EXTENDS SoupBinClient

\* Every driver, over a plain and over a compressed stream.
AllVariants == [driver : {"sync", "managed", "manual"}, compressed : BOOLEAN]

SyncPlain == {[driver |-> "sync", compressed |-> FALSE]}
=============================================================================
