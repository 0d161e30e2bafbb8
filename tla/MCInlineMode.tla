---------------------------- MODULE MCInlineMode -----------------------------
EXTENDS InlineMode

CONSTANTS m1
=============================================================================
