---------------------------- MODULE MCCardEditor ----------------------------
EXTENDS CardEditor
=============================================================================
