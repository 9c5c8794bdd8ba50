----------------------------- MODULE MCMailSync -----------------------------
EXTENDS MailSync, TLC
MCPresent == {1, 2}
=============================================================================
