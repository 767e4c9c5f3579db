-------------------------- MODULE MCTelegramApprovals --------------------------
(***************************************************************************)
(* The instance of TelegramApprovals for TLC: messages and requests are    *)
(* numbers, the rest are model values.                                     *)
(***************************************************************************)
EXTENDS TelegramApprovals

=============================================================================
