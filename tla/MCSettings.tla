----------------------------- MODULE MCSettings -----------------------------
EXTENDS Settings

=============================================================================
