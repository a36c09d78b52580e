------------------------ MODULE MCTelegramDelivery -------------------------
(* Two notifiers, two events of one Session, one deleter.                  *)
EXTENDS TelegramDelivery
=============================================================================
