---------------------------- MODULE MCMailQueue ----------------------------
(* Small instances of MailQueue for TLC.                                    *)
EXTENDS MailQueue

CONSTANTS m1, m2, r1, r2

\* One transaction with one variant, one recipient.
OneVariantTxn == {{m1}}

OneRecipient == {<<m1, r1>>}
=============================================================================
