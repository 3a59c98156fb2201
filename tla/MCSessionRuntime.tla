--------------------------- MODULE MCSessionRuntime ---------------------------
(* Instances of SessionRuntime for TLC: which operations each of the two   *)
(* callers calls.                                                          *)
EXTENDS SessionRuntime, TLC

CONSTANTS a, b

Offers(x, y) == a :> x @@ b :> y

(* One caller opens and closes, the other never opens. *)
Closers == Offers({"send", "open", "close", "queue", "command"},
                  {"cancel", "suspend", "archive", "unarchive"})

(* One caller does all but archive and close while the other opens. *)
Users == Offers({"open", "send", "queue", "command", "cancel", "suspend"}, {"open"})

SendAndSuspend == Offers({"send"}, {"suspend"})
==============================================================================
