--------------------------- MODULE MC_JvmLifecycle ---------------------------
EXTENDS JvmLifecycle
=============================================================================
